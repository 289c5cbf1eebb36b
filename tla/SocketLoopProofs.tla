--------------------------- MODULE SocketLoopProofs ---------------------------
(***************************************************************************)
(* Theorems of SocketLoop, for every set of sockets and contexts and every *)
(* bound.  The types and the pending ready polls hold of every program;    *)
(* the lists, the references, the stack, the sweep and the callbacks of    *)
(* every program that is Tame.  One lemma per action keeps IInv (named     *)
(* ...Step), one keeps LInv (named ...Loop) and one names the step of      *)
(* SocketRegistry that the action implements (named ...Shown).             *)
(***************************************************************************)
EXTENDS SocketLoopInvariant, SocketHeapProofs, FiniteSetTheorems, SocketLoopImpl

-----------------------------------------------------------------------------
(* Stacks.                                                                 *)

\* A call leaves a stack of the same frames.
LEMMA PushType ==
    ASSUME NEW S, NEW f \in S, NEW st \in Seq(S)
    PROVE  Push(f, st) \in Seq(S)
  BY DEF Push

\* ... with the called function on top.
LEMMA PushTop ==
    ASSUME NEW S, NEW f, NEW st \in Seq(S)
    PROVE  Push(f, st) # <<>> /\ Head(Push(f, st)) = f /\ Tail(Push(f, st)) = st
  BY DEF Push

\* A return leaves the frames under it.
LEMMA TailType ==
    ASSUME NEW S, NEW st \in Seq(S), st # <<>>
    PROVE  Head(st) \in S /\ Tail(st) \in Seq(S)
  OBVIOUS

\* A stack of parked frames is a legal one, whatever the heap.
LEMMA ParkedOK ==
    ASSUME NEW st \in Seq(Parked)
    PROVE  /\ st \in Seq(Frame) /\ StackOK(st)
           /\ st # <<>> => ~Checked(Head(st))
<1>1. st \in Seq(Frame)
  BY DEF Parked
<1>2. st # <<>> => Head(st) \in Parked /\ Tail(st) \in Seq(Parked)
  BY TailType
<1> QED BY <1>1, <1>2 DEF StackOK, Parked

\* A change of heap and stack that leaves parked frames keeps the invariant.
LEMMA Settled ==
    ASSUME Sound(h)', stack' \in Seq(Parked),
           owner' \subseteq Contexts, budget' \in Nat, wfailed' \in BOOLEAN,
           timer' \in BOOLEAN, nready' \in Nat, owed' \subseteq Contexts,
           unsent' \subseteq Sockets
    PROVE  IInv'
<1>1. /\ stack' \in Seq(Frame) /\ StackOK(stack')
      /\ stack' # <<>> => ~Checked(Head(stack'))
  BY ParkedOK
<1>2. h' \in Heap
  BY DEF Sound
<1> QED BY <1>1, <1>2 DEF IInv, TypeOK, Top, StackOK

\* What a function that runs may use of its own frame and of those below.
LEMMA TopFacts ==
    ASSUME IInv, stack # <<>>
    PROVE  /\ Top \in Frame /\ FrameOK(Top)
           /\ Top.s \in SocketPtr /\ Top.c \in ContextPtr
           /\ Rest \in Seq(Parked) /\ stack = Push(Top, Rest)
           /\ ~Checked(Top) => stack \in Seq(Parked)
<1>1. Top \in Frame /\ FrameOK(Top) /\ Rest \in Seq(Parked)
  BY DEF IInv, StackOK, Top, Rest
<1>2. stack = Push(Top, Rest)
  BY DEF IInv, TypeOK, Push, Top, Rest
<1>3. ~Checked(Top) => stack \in Seq(Parked)
  <2>1. ~Checked(Top) => Top \in Parked
    BY <1>1 DEF Parked
  <2> QED BY <1>1, <1>2, <2>1, PushType
<1>4. Top.s \in SocketPtr /\ Top.c \in ContextPtr
  BY <1>1 DEF Frame
<1> QED BY <1>1, <1>2, <1>3, <1>4

\* A callback on a socket may wait under the functions it calls.
LEMMA CallbackParked ==
    ASSUME NEW s \in Sockets, NEW name \in Pcs
    PROVE  Callback(name, s) \in Parked
<1>1. CallsPerCallback \in Nat
  BY LoopAssumption
<1>2. Callback(name, s) \in Frame
  BY <1>1 DEF Callback, Frame, Ops, SocketPtr, ContextPtr
<1>3. FrameOK(Callback(name, s)) /\ ~Checked(Callback(name, s))
  BY DEF FrameOK, Checked, Callback
<1> QED BY <1>2, <1>3 DEF Parked

\* A new frame of a function.
LEMMA FrType ==
    ASSUME NEW op \in Ops, NEW pc \in Pcs, NEW s \in SocketPtr,
           NEW c \in ContextPtr, NEW ev \in SUBSET (Directions \cup Conditions)
    PROVE  /\ Fr(op, pc, s, c, ev) \in Frame
           /\ Fr(op, pc, s, c, ev).op = op /\ Fr(op, pc, s, c, ev).pc = pc
           /\ Fr(op, pc, s, c, ev).s = s /\ Fr(op, pc, s, c, ev).c = c
  BY DEF Fr, Frame

\* A frame whose program counter, locals and events change.
LEMMA FrameUpdate ==
    ASSUME NEW f \in Frame, NEW pc \in Pcs, NEW s \in SocketPtr,
           NEW c \in ContextPtr, NEW ev \in SUBSET (Directions \cup Conditions),
           NEW n \in Nat
    PROVE  /\ [f EXCEPT !.pc = pc] \in Frame
           /\ [f EXCEPT !.s = s] \in Frame
           /\ [f EXCEPT !.n = n] \in Frame
           /\ [f EXCEPT !.pc = pc, !.s = s] \in Frame
           /\ [f EXCEPT !.pc = pc, !.n = n] \in Frame
           /\ [f EXCEPT !.pc = pc, !.ev = ev] \in Frame
           /\ [f EXCEPT !.pc = pc, !.c = c, !.s = s] \in Frame
           /\ [f EXCEPT !.n = n, !.s = s] \in Frame
  BY DEF Frame

\* A dispatch goes on at a point that checks nothing before a callback.
LEMMA DispatchGoto ==
    ASSUME IInv, stack # <<>>, Top.op = "dispatch",
           NEW pc \in Pcs \ {"writable", "readable"}
    PROVE  Goto(pc) \in Seq(Parked) /\ Top.s \in Sockets
<1> DEFINE f == [Top EXCEPT !.pc = pc]
<1>1. Top \in Frame /\ FrameOK(Top) /\ Rest \in Seq(Parked)
  BY TopFacts
<1>2. f \in Frame
  BY <1>1 DEF Frame
<1>3. f.op = "dispatch" /\ f.s = Top.s /\ f.pc = pc /\ Top.s \in Sockets
  BY <1>1 DEF Frame, FrameOK
<1> HIDE DEF f
<1>4. f \in Parked
  BY <1>2, <1>3 DEF Parked, FrameOK, Checked
<1> QED BY <1>1, <1>3, <1>4, PushType DEF Goto, f

\* The common case: a step of heap and stack only.
LEMMA HeapStep ==
    ASSUME IInv, Sound(h'), stack' \in Seq(Parked),
           UNCHANGED <<owner, budget, wfailed, timer, nready, owed, unsent>>
    PROVE  IInv'
  BY Settled DEF IInv, TypeOK

-----------------------------------------------------------------------------
(* Closing sockets and contexts.                                           *)

LEMMA SocketCloseStep ==
    ASSUME IInv, NEW s \in Sockets, NEW st \in Seq(Parked), SocketClose(s, st)
    PROVE  Sound(h') /\ stack' \in Seq(Parked)
<1>1. Sound(h)
  BY DEF IInv
<1>2. CASE h' = h /\ stack' = st
  BY <1>1, <1>2
<1>3. CASE ~IsClosed(h, s) /\ h' = CloseEnd(CloseBegin(h, s), s) /\ stack' = st
  BY <1>1, <1>3, CloseSound
<1>4. CASE /\ ~IsClosed(h, s) /\ h' = CloseBegin(h, s)
           /\ stack' = Push(Callback("on_close", s),
                            Push(Fr("close", "closed", s, Null, {}), st))
  <2> DEFINE f == Fr("close", "closed", s, Null, {})
  <2>1. f \in Frame /\ f.op = "close" /\ f.s = s
    BY FrType DEF Ops, Pcs, SocketPtr, ContextPtr
  <2> HIDE DEF f
  <2>2. f \in Parked
    BY <2>1 DEF Parked, FrameOK, Checked
  <2>3. Callback("on_close", s) \in Parked
    BY CallbackParked DEF Pcs
  <2>4. stack' \in Seq(Parked)
    BY <1>4, <2>2, <2>3, PushType DEF f
  <2> QED BY <1>1, <1>4, <2>4, CloseSound
<1> QED BY <1>2, <1>3, <1>4 DEF SocketClose

LEMMA CloseReturnStep ==
    ASSUME IInv, CloseReturn
    PROVE  IInv'
<1>1. Top.s \in Sockets /\ Rest \in Seq(Parked)
  BY TopFacts DEF CloseReturn, At, FrameOK
<1>2. Sound(h')
  BY <1>1, CloseSound DEF CloseReturn, IInv
<1> QED BY <1>1, <1>2, HeapStep DEF CloseReturn

LEMMA CCloseStep ==
    ASSUME IInv, CCloseListen \/ CCloseSocket
    PROVE  IInv'
<1>1. /\ stack # <<>> /\ Top.op = "cclose" /\ Top \in Frame
      /\ Top.s \in SocketPtr /\ Top.c \in Contexts /\ Rest \in Seq(Parked)
  BY TopFacts DEF CCloseListen, CCloseSocket, At, FrameOK
<1>2. Sound(h) /\ h.head[Top.c] \in SocketPtr
      /\ (Top.s # Null => Top.s \in Sockets /\ h.next[Top.s] \in SocketPtr)
  BY <1>1 DEF IInv, Sound, Heap, SocketPtr
<1>3. ASSUME NEW pc \in Pcs, NEW s \in SocketPtr
      PROVE  /\ Push([Top EXCEPT !.pc = pc, !.s = s], Rest) \in Seq(Parked)
             /\ Push([Top EXCEPT !.s = s], Rest) \in Seq(Parked)
  <2> DEFINE f == [Top EXCEPT !.pc = pc, !.s = s]
             g == [Top EXCEPT !.s = s]
  <2>1. /\ f \in Frame /\ f.op = "cclose" /\ f.c \in Contexts
        /\ g \in Frame /\ g.op = "cclose" /\ g.c \in Contexts
    BY <1>1, <1>3 DEF Frame
  <2> HIDE DEF f, g
  <2>2. f \in Parked /\ g \in Parked
    BY <2>1 DEF Parked, FrameOK, Checked
  <2> QED BY <1>1, <2>2, PushType DEF f, g
<1>4. ASSUME CCloseListen PROVE IInv'
  <2>1. CASE h' = h /\ stack' = Push([Top EXCEPT !.pc = "closing",
                                                 !.s = h.head[Top.c]], Rest)
    <3>1. stack' \in Seq(Parked)
      BY <1>2, <1>3, <2>1 DEF Pcs
    <3> QED BY <1>2, <1>4, <2>1, <3>1, HeapStep DEF CCloseListen
  <2>2. CASE /\ Top.s # Null /\ h' = ListenClose(h, Top.s)
             /\ stack' = Push([Top EXCEPT !.s = h.next[Top.s]], Rest)
    <3>1. stack' \in Seq(Parked)
      BY <1>2, <1>3, <2>2 DEF Pcs
    <3>2. Sound(h')
      BY <1>2, <2>2, CloseSound DEF ListenClose
    <3> QED BY <1>4, <3>1, <3>2, HeapStep DEF CCloseListen
  <2> QED BY <1>4, <2>1, <2>2 DEF CCloseListen
<1>5. ASSUME CCloseSocket PROVE IInv'
  <2>1. CASE h' = h /\ stack' = Rest
    BY <1>1, <1>2, <1>5, <2>1, HeapStep DEF CCloseSocket
  <2>2. CASE /\ Top.s # Null
             /\ SocketClose(Top.s, Push([Top EXCEPT !.s = h.next[Top.s]], Rest))
    <3>1. Push([Top EXCEPT !.s = h.next[Top.s]], Rest) \in Seq(Parked)
      BY <1>2, <1>3, <2>2 DEF Pcs
    <3>2. Sound(h') /\ stack' \in Seq(Parked)
      BY <1>2, <2>2, <3>1, SocketCloseStep
    <3> QED BY <1>5, <3>2, HeapStep DEF CCloseSocket
  <2> QED BY <1>5, <2>1, <2>2 DEF CCloseSocket
<1> QED BY <1>4, <1>5

-----------------------------------------------------------------------------
(* The tick.                                                               *)

\* A tick keeps no locals: it waits as it runs.
LEMMA TickGoto ==
    ASSUME IInv, stack # <<>>, Top.op = "tick", NEW pc \in Pcs
    PROVE  Goto(pc) \in Seq(Parked) /\ stack \in Seq(Parked) /\ Rest \in Seq(Parked)
<1> DEFINE f == [Top EXCEPT !.pc = pc]
<1>1. Top \in Frame /\ Rest \in Seq(Parked) /\ stack \in Seq(Parked)
  BY TopFacts DEF Checked
<1>2. f \in Frame /\ f.op = "tick"
  BY <1>1 DEF Frame
<1> HIDE DEF f
<1>3. f \in Parked
  BY <1>2 DEF Parked, FrameOK, Checked
<1> QED BY <1>1, <1>3, PushType DEF Goto, f

LEMMA TickStep ==
    ASSUME IInv, NEW st \in Seq(Parked), TickStart(st)
    PROVE  IInv'
<1> DEFINE f == Fr("tick", "lowprio", Null, Null, {})
<1>1. f \in Frame /\ f.op = "tick"
  BY SMTT(30), FrType DEF Ops, Pcs, SocketPtr, ContextPtr
<1> HIDE DEF f
<1>2. f \in Parked
  BY <1>1 DEF Parked, FrameOK, Checked
<1>3. stack' \in Seq(Parked)
  BY <1>2, PushType DEF TickStart, f
<1>4. budget' \in Nat
  BY LoopAssumption DEF TickStart
<1> QED BY <1>3, <1>4, Settled DEF TickStart, IInv, TypeOK

LEMMA HandleLowPrioStep ==
    ASSUME IInv, HandleLowPrio
    PROVE  IInv'
<1>1. stack \in Seq(Parked) /\ Goto("wait") \in Seq(Parked)
  BY TickGoto DEF HandleLowPrio, At, Pcs
<1>2. CASE h.lowHead # Null /\ budget > 0 /\ h' = ServeQueue(h)
           /\ budget' = budget - 1 /\ UNCHANGED stack
  <2>1. Sound(h')
    BY <1>2, ServeQueueSound DEF IInv
  <2>2. budget' \in Nat
    BY <1>2 DEF IInv, TypeOK
  <2> QED BY <1>1, <1>2, <2>1, <2>2, Settled DEF HandleLowPrio, IInv, TypeOK
<1>3. CASE /\ stack' = Push(Callback("pre", Null), Goto("wait"))
           /\ UNCHANGED <<h, budget>>
  <2> DEFINE f == Callback("pre", Null)
  <2>1. CallsPerCallback \in Nat
    BY LoopAssumption
  <2>2. f \in Frame /\ f.op = "cb" /\ f.pc = "pre"
    BY <2>1 DEF Callback, Frame, Ops, Pcs, SocketPtr, ContextPtr
  <2> HIDE DEF f
  <2>3. f \in Parked
    BY <2>2 DEF Parked, FrameOK, Checked
  <2>4. stack' \in Seq(Parked)
    BY <1>1, <1>3, <2>3, PushType DEF f
  <2> QED BY <1>3, <2>4, HeapStep DEF HandleLowPrio, IInv
<1> QED BY <1>2, <1>3 DEF HandleLowPrio

LEMMA WaitStep ==
    ASSUME IInv, Wait
    PROVE  IInv'
<1>1. stack' \in Seq(Parked)
  BY TickGoto DEF Wait, At, Pcs
<1>2. PICK r \in [Sockets -> {{}} \cup EventSets], t \in BOOLEAN :
        /\ \A s \in Sockets : r[s] \in Reports(s)
        /\ h' = [h EXCEPT !.ready = r]
        /\ timer' = t
        /\ nready' = Cardinality({s \in Sockets : r[s] # {}}) + (IF t THEN 1 ELSE 0)
  BY DEF Wait
<1>3. r \in [Sockets -> SUBSET (Directions \cup Conditions)]
  BY LoopAssumption
<1>4. Sound(h')
  <2>1. /\ h' \in Heap /\ h'.ready = r /\ h'.type = h.type /\ h'.ctx = h.ctx
        /\ h'.prev = h.prev
    BY <1>2, <1>3 DEF IInv, Sound, Heap
  <2>2. \A s \in Sockets : r[s] # {} => Open(h, s)
    BY <1>2 DEF Reports
  <2> QED BY <2>1, <2>2 DEF IInv, Sound, Open, IsClosed
<1>5. nready' \in Nat
  <2>1. IsFiniteSet({s \in Sockets : r[s] # {}})
    BY DistinctAddresses, FS_Subset
  <2>2. Cardinality({s \in Sockets : r[s] # {}}) \in Nat
    BY <2>1, FS_CardinalityType
  <2> QED BY <1>2, <2>2
<1> QED BY <1>1, <1>2, <1>4, <1>5, Settled DEF Wait, IInv, TypeOK

LEMMA DispatchTimerStep ==
    ASSUME IInv, DispatchTimer
    PROVE  IInv'
<1> DEFINE f == Fr("sweep", "context", Null, Null, {})
<1>1. f \in Frame /\ f.op = "sweep" /\ f.pc = "context"
  BY FrType DEF Ops, Pcs, SocketPtr, ContextPtr
<1> HIDE DEF f
<1>2. f \in Parked
  BY <1>1 DEF Parked, FrameOK, Checked
<1>3. stack' \in Seq(Parked)
  BY <1>2, TickGoto, PushType DEF DispatchTimer, At, Pcs, f
<1>4. Sound(h')
  <2>1. /\ h' \in Heap /\ h'.type = h.type /\ h'.ctx = h.ctx
        /\ h'.prev = h.prev /\ h'.ready = h.ready
    BY DEF DispatchTimer, IInv, Sound, Heap
  <2> QED BY <2>1, SameSockets DEF IInv
<1>5. owed' \subseteq Contexts
  BY ChainType DEF DispatchTimer
<1> QED BY <1>3, <1>4, <1>5, Settled DEF DispatchTimer, IInv, TypeOK

LEMMA PostStep ==
    ASSUME IInv, Post
    PROVE  IInv'
<1>1. stack' \in Seq(Parked)
  BY TickGoto DEF Post, At, Pcs
<1>2. Sound(h')
  BY FreeClosedSound DEF Post, IInv
<1> QED BY <1>1, <1>2, Settled DEF Post, IInv, TypeOK

-----------------------------------------------------------------------------
(* The dispatch of a ready poll.                                           *)

\* A dispatch that goes on at a checked point holds a socket that is not closed.
LEMMA CheckedStep ==
    ASSUME Sound(h'), NEW f \in Frame, f.op = "dispatch", f.s \in Sockets,
           ~IsClosed(h', f.s), NEW st \in Seq(Parked), stack' = Push(f, st),
           owner' \subseteq Contexts, budget' \in Nat, wfailed' \in BOOLEAN,
           timer' \in BOOLEAN, nready' \in Nat, owed' \subseteq Contexts,
           unsent' \subseteq Sockets
    PROVE  IInv'
<1>1. st \in Seq(Frame)
  BY ParkedOK
<1>2. stack' \in Seq(Frame) /\ Head(stack') = f /\ Tail(stack') = st
  BY <1>1, PushType, PushTop
<1>3. FrameOK(f)
  BY DEF FrameOK
<1>4. StackOK(stack')
  BY <1>2, <1>3 DEF StackOK
<1>5. h' \in Heap
  BY DEF Sound
<1> QED BY <1>2, <1>4, <1>5 DEF IInv, TypeOK, Top, StackOK

LEMMA DispatchPollStep ==
    ASSUME IInv, NEW s \in Sockets, DispatchPoll(s)
    PROVE  IInv'
<1> DEFINE ev == (h.ready[s] \cap h.poll[s]) \cup (h.ready[s] \cap Conditions)
           g  == [h EXCEPT !.ready[s] = {}]
           k  == [PollChange(g, s, {"R"}) EXCEPT !.type[s] = "socket",
                                                 !.due[s] = @ \ {"short"}]
<1>1. stack \in Seq(Parked)
  BY TickGoto DEF DispatchPoll, At, Pcs
<1>2. Sound(h) /\ Open(h, s) /\ s \in SocketPtr
  BY DEF DispatchPoll, IInv, Sound, SocketPtr
<1>3. Sound(g)
  BY <1>2, PollStopSound DEF PollStop
<1>4. g.type = h.type /\ g.prev = h.prev /\ g.ctx = h.ctx
  BY <1>2 DEF Sound, Heap
<1>5. ev \in SUBSET (Directions \cup Conditions)
  BY <1>2 DEF Sound, Heap
<1>6. UNCHANGED <<owner, budget, wfailed, timer, nready, owed, unsent>>
  BY DEF DispatchPoll
<1>7. \/ h' = g /\ stack' = stack
      \/ h' = g /\ stack' = Push(Fr("accept", "accept", s, Null, {}), stack)
      \/ h' = g /\ stack' = Push(Callback("on_connect_error", s), stack)
      \/ h' = k /\ stack' = Push(Callback("on_open", s), stack)
      \/ h' = g /\ stack' = Push(Fr("dispatch", "writable", s, Null, ev), stack)
  BY DEF DispatchPoll
<1> HIDE DEF g, ev
<1>8. CASE h' = g /\ stack' = stack
  BY <1>1, <1>3, <1>6, <1>8, HeapStep
<1>9. CASE h' = g /\ stack' = Push(Fr("accept", "accept", s, Null, {}), stack)
  <2> DEFINE f == Fr("accept", "accept", s, Null, {})
  <2>1. f \in Frame /\ f.op = "accept" /\ f.s = s
    BY <1>2, FrType DEF Ops, Pcs, ContextPtr
  <2> HIDE DEF f
  <2>2. f \in Parked
    BY <2>1 DEF Parked, FrameOK, Checked
  <2>3. stack' \in Seq(Parked)
    BY <1>1, <1>9, <2>2, PushType DEF f
  <2> QED BY <1>3, <1>6, <1>9, <2>3, HeapStep
<1>10. CASE h' = g /\ stack' = Push(Callback("on_connect_error", s), stack)
  <2>1. stack' \in Seq(Parked)
    BY <1>1, <1>10, CallbackParked, PushType DEF Pcs
  <2> QED BY <1>3, <1>6, <1>10, <2>1, HeapStep
<1>11. CASE h' = k /\ stack' = Push(Callback("on_open", s), stack)
  <2>1. stack' \in Seq(Parked)
    BY <1>1, <1>11, CallbackParked, PushType DEF Pcs
  <2>2. {"R"} \in SUBSET Directions
    BY DEF Directions
  <2> DEFINE p == PollChange(g, s, {"R"})
  <2>3. Sound(p) /\ p.type[s] # "free"
    BY <1>2, <1>3, <1>4, <2>2, PollChangeSound DEF SameSocketFields, Open
  <2> HIDE DEF p
  <2>4. /\ k \in Heap /\ k.ctx = p.ctx /\ k.prev = p.prev /\ k.ready = p.ready
        /\ k.type = [p.type EXCEPT ![s] = "socket"]
    <3>1. k = [p EXCEPT !.type[s] = "socket", !.due[s] = @ \ {"short"}]
      BY DEF p
    <3>2. p \in Heap
      BY <2>3 DEF Sound
    <3> HIDE DEF k
    <3> QED BY <3>1, <3>2 DEF Heap, PollTypes
  <2> HIDE DEF k
  <2>5. Sound(k)
    <3>1. p \in Heap
      BY <2>3 DEF Sound
    <3>2. \A t \in Sockets : k.type[t] = IF t = s THEN "socket" ELSE p.type[t]
      BY <2>4, <3>1 DEF Heap
    <3> QED BY <2>3, <2>4, <3>2 DEF Sound, Open, IsClosed
  <2> QED BY <1>6, <1>11, <2>1, <2>5, HeapStep
<1>12. CASE h' = g /\ stack' = Push(Fr("dispatch", "writable", s, Null, ev), stack)
  <2> DEFINE f == Fr("dispatch", "writable", s, Null, ev)
  <2>1. f \in Frame /\ f.op = "dispatch" /\ f.s = s
    BY <1>2, <1>5, FrType DEF Ops, Pcs, ContextPtr
  <2> HIDE DEF f
  <2>2. ~IsClosed(h', s)
    BY <1>2, <1>4, <1>12 DEF Open, IsClosed
  <2>3. stack' = Push(f, stack)
    BY <1>12 DEF f
  <2> QED BY <1>1, <1>3, <1>6, <1>12, <2>1, <2>2, <2>3, CheckedStep DEF IInv, TypeOK
<1> QED BY <1>7, <1>8, <1>9, <1>10, <1>11, <1>12

LEMMA AcceptStep ==
    ASSUME IInv, Accept
    PROVE  IInv'
<1>1. /\ Top.s \in Sockets /\ stack \in Seq(Parked) /\ Rest \in Seq(Parked)
      /\ Sound(h)
  BY TopFacts DEF Accept, At, FrameOK, Checked, IInv
<1>2. UNCHANGED <<owner, budget, wfailed, timer, nready, owed, unsent>>
  BY DEF Accept
<1>3. CASE stack' = Rest /\ UNCHANGED h
  BY <1>1, <1>2, <1>3, HeapStep
<1>4. ASSUME NEW s \in Sockets, h.type[Top.s] = "listen", h.type[s] = "free",
             h' = NewSocket(h, h.ctx[Top.s], s, "socket", {"R"}),
             stack' = Push(Callback("on_open", s), stack)
      PROVE  IInv'
  <2>1. h.ctx[Top.s] \in Contexts
    BY <1>1, <1>4 DEF Sound
  <2>2. "socket" \in PollTypes /\ {"R"} \in SUBSET Directions
    BY DEF PollTypes, Directions
  <2>3. Sound(h')
    BY <1>1, <1>4, <2>1, <2>2, NewSocketSound
  <2>4. stack' \in Seq(Parked)
    BY <1>1, <1>4, CallbackParked, PushType DEF Pcs
  <2> QED BY <1>2, <2>3, <2>4, HeapStep
<1> QED BY <1>3, <1>4 DEF Accept

LEMMA DispatchWritableStep ==
    ASSUME IInv, DispatchWritable
    PROVE  IInv'
<1>1. /\ Top.op = "dispatch" /\ stack # <<>> /\ Top \in Frame
      /\ Top.s \in Sockets /\ Rest \in Seq(Parked)
      /\ ~IsClosed(h, Top.s) /\ Sound(h)
  BY TopFacts DEF DispatchWritable, At, FrameOK, Checked, IInv
<1>2. CASE /\ wfailed' = FALSE /\ unsent' = unsent \ {Top.s}
           /\ stack' = Push(Callback("on_writable", Top.s), Goto("wrote"))
  <2>1. stack' \in Seq(Parked)
    BY <1>1, <1>2, DispatchGoto, CallbackParked, PushType DEF Pcs
  <2> QED BY <1>1, <1>2, <2>1, Settled DEF DispatchWritable, IInv, TypeOK
<1>3. CASE stack' = Goto("readable") /\ UNCHANGED <<wfailed, unsent>>
  <2> DEFINE f == [Top EXCEPT !.pc = "readable"]
  <2>1. f \in Frame /\ f.op = "dispatch" /\ f.s = Top.s
    BY <1>1 DEF Frame, Pcs
  <2>2. stack' = Push(f, Rest)
    BY <1>3 DEF Goto
  <2> HIDE DEF f
  <2>3. h' = h
    BY DEF DispatchWritable
  <2> QED BY <1>1, <1>3, <2>1, <2>2, <2>3, CheckedStep
             DEF DispatchWritable, IInv, TypeOK
<1> QED BY <1>2, <1>3 DEF DispatchWritable

LEMMA DispatchWroteStep ==
    ASSUME IInv, DispatchWrote
    PROVE  IInv'
<1>1. /\ Top.op = "dispatch" /\ stack # <<>> /\ Top \in Frame
      /\ Top.s \in Sockets /\ Rest \in Seq(Parked) /\ Sound(h)
  BY TopFacts DEF DispatchWrote, At, FrameOK, IInv
<1>2. UNCHANGED <<owner, budget, wfailed, timer, nready, owed, unsent>>
  BY DEF DispatchWrote
<1>3. CASE stack' = Rest /\ UNCHANGED h
  BY <1>1, <1>2, <1>3, HeapStep
<1>4. CASE /\ ~IsClosed(h, Top.s)
           /\ h' = IF ~wfailed \/ h.type[Top.s] = "shut"
                   THEN PollChange(h, Top.s, h.poll[Top.s] \cap {"R"}) ELSE h
           /\ stack' = Goto("readable")
  <2> DEFINE f == [Top EXCEPT !.pc = "readable"]
  <2>1. f \in Frame /\ f.op = "dispatch" /\ f.s = Top.s
    BY <1>1 DEF Frame, Pcs
  <2>2. stack' = Push(f, Rest)
    BY <1>4 DEF Goto
  <2> HIDE DEF f
  <2>3. h.poll[Top.s] \cap {"R"} \in SUBSET Directions
    BY DEF Directions
  <2>4. Sound(h') /\ ~IsClosed(h', Top.s)
    BY <1>1, <1>4, <2>3, PollChangeSound DEF SameSocketFields, IsClosed
  <2> QED BY <1>1, <1>2, <2>1, <2>2, <2>4, CheckedStep DEF IInv, TypeOK
<1> QED BY <1>3, <1>4 DEF DispatchWrote

LEMMA DispatchReadableStep ==
    ASSUME IInv, DispatchReadable
    PROVE  IInv'
<1> DEFINE s == Top.s
<1>1. /\ Top.op = "dispatch" /\ stack # <<>> /\ s \in Sockets
      /\ Rest \in Seq(Parked) /\ ~IsClosed(h, s) /\ Sound(h)
  BY TopFacts DEF DispatchReadable, At, FrameOK, Checked, IInv
<1>2. UNCHANGED <<owner, wfailed, timer, nready, owed, unsent>>
  BY DEF DispatchReadable
<1>3. Goto("eof") \in Seq(Parked) /\ Goto("recv") \in Seq(Parked)
  BY <1>1, DispatchGoto DEF Pcs
<1>4. budget \in Nat
  BY DEF IInv, TypeOK
<1>5. CASE stack' \in {Goto("eof"), Goto("recv")} /\ UNCHANGED <<h, budget>>
  BY <1>1, <1>2, <1>3, <1>5, HeapStep
<1>6. CASE h' = [h EXCEPT !.low[s] = 0] /\ stack' = Goto("recv") /\ UNCHANGED budget
  <2>1. 0 \in 0..2
    OBVIOUS
  <2>2. Sound(h')
    BY <1>1, <1>6, <2>1, SetLowSound
  <2> QED BY <1>2, <1>3, <1>6, <2>2, HeapStep
<1>7. CASE /\ budget > 0 /\ budget' = budget - 1
           /\ stack' = Goto("recv") /\ UNCHANGED h
  <2>1. budget' \in Nat
    BY <1>4, <1>7
  <2> QED BY <1>1, <1>2, <1>3, <1>7, <2>1, Settled DEF IInv, TypeOK
<1>8. CASE h' = EnterQueue(h, s) /\ stack' = Rest /\ UNCHANGED budget
  <2>1. Sound(h')
    BY <1>1, <1>8, EnterQueueSound
  <2> QED BY <1>1, <1>2, <1>8, <2>1, HeapStep
<1> QED BY <1>5, <1>6, <1>7, <1>8 DEF DispatchReadable

LEMMA RecvStep ==
    ASSUME IInv, Recv
    PROVE  IInv'
<1>1. /\ Top.op = "dispatch" /\ stack # <<>> /\ Top.s \in Sockets
      /\ Top \in Frame /\ Rest \in Seq(Parked) /\ Sound(h)
  BY TopFacts DEF Recv, At, FrameOK, IInv
<1>2. UNCHANGED <<owner, budget, wfailed, timer, nready, owed, unsent>>
  BY DEF Recv
<1>3. Goto("eof") \in Seq(Parked) /\ Goto("received") \in Seq(Parked)
  BY <1>1, DispatchGoto DEF Pcs
<1>4. CASE stack' = Push(Callback("on_data", Top.s), Goto("received")) /\ UNCHANGED h
  <2>1. stack' \in Seq(Parked)
    BY <1>1, <1>3, <1>4, CallbackParked, PushType DEF Pcs
  <2> QED BY <1>1, <1>2, <1>4, <2>1, HeapStep
<1>5. CASE /\ stack' = Push([Top EXCEPT !.pc = "eof", !.ev = @ \cup {"H"}], Rest)
           /\ UNCHANGED h
  <2> DEFINE f == [Top EXCEPT !.pc = "eof", !.ev = @ \cup {"H"}]
  <2>1. f \in Frame /\ f.op = "dispatch" /\ f.pc = "eof" /\ f.s = Top.s
    BY <1>1 DEF Frame, Pcs, Conditions
  <2> HIDE DEF f
  <2>2. f \in Parked
    BY <1>1, <2>1 DEF Parked, FrameOK, Checked
  <2>3. stack' \in Seq(Parked)
    BY <1>1, <1>5, <2>2, PushType DEF f
  <2> QED BY <1>1, <1>2, <1>5, <2>3, HeapStep
<1>6. CASE SocketClose(Top.s, Rest)
  BY <1>1, <1>2, <1>6, SocketCloseStep, HeapStep
<1>7. CASE stack' = Goto("eof") /\ UNCHANGED h
  BY <1>1, <1>2, <1>3, <1>7, HeapStep
<1> QED BY <1>4, <1>5, <1>6, <1>7 DEF Recv

LEMMA ReceivedStep ==
    ASSUME IInv, ReceivedMore \/ ReceivedLast
    PROVE  IInv'
<1>1. /\ Top.op = "dispatch" /\ stack # <<>> /\ Top.s \in Sockets
      /\ Top \in Frame /\ Rest \in Seq(Parked) /\ Sound(h)
  BY TopFacts DEF ReceivedMore, ReceivedLast, At, FrameOK, IInv
<1>2. ASSUME ReceivedLast PROVE IInv'
  <2>1. stack' \in Seq(Parked)
    BY <1>1, <1>2, DispatchGoto DEF ReceivedLast, Pcs
  <2> QED BY <1>1, <1>2, <2>1, HeapStep DEF ReceivedLast
<1>3. ASSUME ReceivedMore PROVE IInv'
  <2> DEFINE n == IF "E" \in Top.ev \/ Top.n > MaxRepeat THEN Top.n ELSE Top.n + 1
             f == [Top EXCEPT !.pc = "recv", !.n = n]
  <2>1. Top.n \in Nat
    BY <1>1 DEF Frame
  <2>2. n \in Nat
    BY <2>1
  <2> HIDE DEF n
  <2>3. f \in Frame /\ f.op = "dispatch" /\ f.pc = "recv" /\ f.s = Top.s
    BY <1>1, <2>2 DEF Frame, Pcs
  <2> HIDE DEF f
  <2>4. f \in Parked
    BY <1>1, <2>3 DEF Parked, FrameOK, Checked
  <2>5. stack' = Push(f, Rest)
    BY <1>3 DEF ReceivedMore, f, n
  <2>6. stack' \in Seq(Parked)
    BY <1>1, <2>4, <2>5, PushType
  <2> QED BY <1>1, <1>3, <2>6, HeapStep DEF ReceivedMore
<1> QED BY <1>2, <1>3

LEMMA DispatchEofStep ==
    ASSUME IInv, DispatchEof
    PROVE  IInv'
<1> DEFINE s == Top.s
<1>1. /\ Top.op = "dispatch" /\ stack # <<>> /\ s \in Sockets
      /\ Rest \in Seq(Parked) /\ Sound(h)
  BY TopFacts DEF DispatchEof, At, FrameOK, IInv
<1>2. UNCHANGED <<owner, budget, wfailed, timer, nready, owed, unsent>>
  BY DEF DispatchEof
<1>3. Goto("error") \in Seq(Parked) /\ Goto("ended") \in Seq(Parked)
  BY <1>1, DispatchGoto DEF Pcs
<1>4. CASE stack' \in {Goto("error"), Rest} /\ UNCHANGED h
  BY <1>1, <1>2, <1>3, <1>4, HeapStep
<1>5. CASE SocketClose(s, Rest)
  BY <1>1, <1>2, <1>5, SocketCloseStep, HeapStep
<1>6. ASSUME NEW halfOpen \in BOOLEAN,
             h' = IF halfOpen THEN PollChange(h, s, h.poll[s] \cap {"W"}) ELSE h,
             stack' = Push(Callback("on_end", s),
                           Goto(IF halfOpen THEN "error" ELSE "ended"))
      PROVE  IInv'
  <2>1. h.poll[s] \cap {"W"} \in SUBSET Directions
    BY DEF Directions
  <2>2. Sound(h')
    BY <1>1, <1>6, <2>1, PollChangeSound
  <2>3. stack' \in Seq(Parked)
    BY <1>1, <1>3, <1>6, CallbackParked, PushType DEF Pcs
  <2> QED BY <1>2, <2>2, <2>3, HeapStep
<1> QED BY <1>4, <1>5, <1>6 DEF DispatchEof

LEMMA DispatchEndStep ==
    ASSUME IInv, DispatchEnd
    PROVE  IInv'
<1>1. /\ Top.op = "dispatch" /\ stack # <<>> /\ Top.s \in Sockets
      /\ Rest \in Seq(Parked) /\ Sound(h)
  BY TopFacts DEF DispatchEnd, At, FrameOK, IInv
<1>2. UNCHANGED <<owner, budget, wfailed, timer, nready, owed, unsent>>
  BY DEF DispatchEnd
<1>3. CASE SocketClose(Top.s, Rest)
  BY <1>1, <1>2, <1>3, SocketCloseStep, HeapStep
<1>4. CASE stack' = Rest /\ h' = h
  BY <1>1, <1>2, <1>4, HeapStep
<1> QED BY <1>3, <1>4 DEF DispatchEnd

-----------------------------------------------------------------------------
(* The timeout sweep.                                                      *)

\* The frame of a sweep that stands on a context.
LEMMA SweepFrame ==
    ASSUME IInv, stack # <<>>, Top.op = "sweep",
           NEW pc \in Pcs, NEW s \in SocketPtr, NEW c \in Contexts,
           pc \in {"long", "step"} => s \in Sockets
    PROVE  /\ Push([Top EXCEPT !.pc = pc, !.c = c, !.s = s], Rest) \in Seq(Parked)
           /\ Top.c \in Contexts =>
                Push([Top EXCEPT !.pc = pc, !.s = s], Rest) \in Seq(Parked)
<1> DEFINE f == [Top EXCEPT !.pc = pc, !.c = c, !.s = s]
           g == [Top EXCEPT !.pc = pc, !.s = s]
<1>1. Top \in Frame /\ Rest \in Seq(Parked)
  BY TopFacts
<1>2. /\ f \in Frame /\ f.op = "sweep" /\ f.pc = pc /\ f.s = s /\ f.c = c
      /\ g \in Frame /\ g.op = "sweep" /\ g.pc = pc /\ g.s = s /\ g.c = Top.c
  BY <1>1 DEF Frame, ContextPtr
<1> HIDE DEF f, g
<1>3. f \in Parked /\ (Top.c \in Contexts => g \in Parked)
  BY <1>2 DEF Parked, FrameOK, Checked
<1> QED BY <1>1, <1>3, PushType DEF f, g

LEMMA SweepContextStep ==
    ASSUME IInv, SweepContext
    PROVE  IInv'
<1>1. Top.op = "sweep" /\ stack # <<>> /\ Rest \in Seq(Parked) /\ Sound(h)
  BY TopFacts DEF SweepContext, At, IInv
<1>2. CASE stack' = Rest /\ h' = h /\ owed' = {}
  BY <1>1, <1>2, Settled DEF SweepContext, IInv, TypeOK
<1>3. ASSUME h.liter # Null, owed' = owed \ {h.liter},
             NEW d \in [Sockets -> {{}, {"short"}, {"long"}, {"short", "long"}}],
             h' = [h EXCEPT !.due = d],
             stack' = Push([Top EXCEPT !.pc = "seek", !.c = h.liter,
                                       !.s = h.head[h.liter]], Rest)
      PROVE  IInv'
  <2>1. h.liter \in Contexts /\ h.head[h.liter] \in SocketPtr
    BY <1>1, <1>3 DEF Sound, Heap, ContextPtr
  <2>2. stack' \in Seq(Parked)
    BY <1>1, <1>3, <2>1, SweepFrame DEF Pcs
  <2>3. d \in [Sockets -> SUBSET {"short", "long"}]
    OBVIOUS
  <2>4. /\ h' \in Heap /\ h'.type = h.type /\ h'.ctx = h.ctx
        /\ h'.prev = h.prev /\ h'.ready = h.ready
    BY <1>1, <1>3, <2>3 DEF Sound, Heap
  <2>5. Sound(h')
    BY <1>1, <2>4, SameSockets
  <2> QED BY <1>3, <2>2, <2>5, Settled DEF SweepContext, IInv, TypeOK
<1> QED BY <1>2, <1>3 DEF SweepContext

LEMMA SweepSeekStep ==
    ASSUME IInv, SweepSeek
    PROVE  IInv'
<1> DEFINE s == Top.s
<1>1. /\ Top.op = "sweep" /\ stack # <<>> /\ Rest \in Seq(Parked) /\ Sound(h)
      /\ Top.c \in Contexts /\ s \in SocketPtr /\ Top \in Frame /\ Top.pc = "seek"
  BY TopFacts DEF SweepSeek, At, IInv, FrameOK
<1>2. UNCHANGED <<owner, budget, wfailed, timer, nready, owed, unsent>>
  BY DEF SweepSeek
<1>3. CASE /\ h.liter # Null
           /\ h' = [h EXCEPT !.iter[Top.c] = Null, !.liter = h.cnext[h.liter]]
           /\ stack' = Goto("context")
  <2> DEFINE f == [Top EXCEPT !.pc = "context"]
  <2>1. f \in Frame /\ f.op = "sweep" /\ f.pc = "context"
    BY <1>1 DEF Frame, Pcs
  <2> HIDE DEF f
  <2>2. f \in Parked
    BY <2>1 DEF Parked, FrameOK, Checked
  <2>3. stack' \in Seq(Parked)
    BY <1>1, <1>3, <2>2, PushType DEF Goto, f
  <2>4. h.cnext[h.liter] \in ContextPtr
    BY <1>1, <1>3 DEF Sound, Heap, ContextPtr
  <2>5. /\ h' \in Heap /\ h'.type = h.type /\ h'.ctx = h.ctx
        /\ h'.prev = h.prev /\ h'.ready = h.ready
    BY <1>1, <1>3, <2>4 DEF Sound, Heap, SocketPtr
  <2>6. Sound(h')
    BY <1>1, <2>5, SameSockets
  <2> QED BY <1>2, <2>3, <2>6, HeapStep
<1>4. CASE s # Null /\ stack' = Push([Top EXCEPT !.s = h.next[s]], Rest) /\ h' = h
  <2>1. h.next[s] \in SocketPtr
    BY <1>1, <1>4 DEF Sound, Heap, SocketPtr
  <2>2. [Top EXCEPT !.s = h.next[s]] = [Top EXCEPT !.pc = "seek", !.s = h.next[s]]
    BY <1>1 DEF Frame
  <2>3. stack' \in Seq(Parked)
    BY <1>1, <1>4, <2>1, <2>2, SweepFrame DEF Pcs
  <2> QED BY <1>1, <1>2, <1>4, <2>3, HeapStep
<1>5. CASE /\ s # Null
           /\ h' = [h EXCEPT !.iter[Top.c] = s, !.due[s] = @ \ {"short"}]
           /\ stack' = IF "short" \in h.due[s]
                       THEN Push(Callback("on_timeout", s), Goto("long"))
                       ELSE Goto("long")
  <2>1. s \in Sockets
    BY <1>1, <1>5 DEF SocketPtr
  <2>2. Goto("long") = Push([Top EXCEPT !.pc = "long", !.s = s], Rest)
    BY <1>1 DEF Goto, Frame
  <2>3. Goto("long") \in Seq(Parked)
    BY <1>1, <2>1, <2>2, SweepFrame DEF Pcs
  <2>4. Callback("on_timeout", s) \in Parked
    BY <2>1, CallbackParked DEF Pcs
  <2>5. stack' \in Seq(Parked)
    BY <1>5, <2>3, <2>4, PushType
  <2>6. /\ h' \in Heap /\ h'.type = h.type /\ h'.ctx = h.ctx
        /\ h'.prev = h.prev /\ h'.ready = h.ready
    BY <1>1, <1>5, <2>1 DEF Sound, Heap
  <2>7. Sound(h')
    BY <1>1, <2>6, SameSockets
  <2> QED BY <1>2, <2>5, <2>7, HeapStep
<1> QED BY <1>3, <1>4, <1>5 DEF SweepSeek

LEMMA SweepLongStep ==
    ASSUME IInv, SweepLong \/ SweepStep
    PROVE  IInv'
<1> DEFINE s == Top.s
<1>1. /\ Top.op = "sweep" /\ stack # <<>> /\ Rest \in Seq(Parked) /\ Sound(h)
      /\ Top.c \in Contexts /\ s \in Sockets /\ Top \in Frame
  BY TopFacts DEF SweepLong, SweepStep, At, IInv, FrameOK
<1>2. UNCHANGED <<owner, budget, wfailed, timer, nready, owed, unsent>>
  BY DEF SweepLong, SweepStep
<1>3. s \in SocketPtr /\ h.next[s] \in SocketPtr /\ h.iter[Top.c] \in SocketPtr
  BY <1>1 DEF Sound, Heap, SocketPtr
<1>4. Goto("step") \in Seq(Parked)
  <2>1. Goto("step") = Push([Top EXCEPT !.pc = "step", !.s = s], Rest)
    BY <1>1 DEF Goto, Frame
  <2> QED BY <1>1, <1>3, <2>1, SweepFrame DEF Pcs
<1>5. CASE /\ h' = [h EXCEPT !.due[s] = @ \ {"long"}]
           /\ stack' = Push(Callback("on_long_timeout", s), Goto("step"))
  <2>1. stack' \in Seq(Parked)
    BY <1>1, <1>4, <1>5, CallbackParked, PushType DEF Pcs
  <2>2. /\ h' \in Heap /\ h'.type = h.type /\ h'.ctx = h.ctx
        /\ h'.prev = h.prev /\ h'.ready = h.ready
    BY <1>1, <1>5 DEF Sound, Heap
  <2>3. Sound(h')
    BY <1>1, <2>2, SameSockets
  <2> QED BY <1>2, <2>1, <2>3, HeapStep
<1>6. CASE stack' = Goto("step") /\ h' = h
  BY <1>1, <1>2, <1>4, <1>6, HeapStep
<1>7. ASSUME SweepStep PROVE IInv'
  <2> DEFINE n == IF h.iter[Top.c] = Top.s THEN h.next[Top.s] ELSE h.iter[Top.c]
  <2>1. n \in SocketPtr
    BY <1>3
  <2>2. stack' = Push([Top EXCEPT !.pc = "seek", !.s = n], Rest) /\ h' = h
    BY <1>7 DEF SweepStep
  <2> HIDE DEF n
  <2>3. stack' \in Seq(Parked)
    BY <1>1, <2>1, <2>2, SweepFrame DEF Pcs
  <2> QED BY <1>1, <1>2, <2>2, <2>3, HeapStep
<1> QED BY <1>5, <1>6, <1>7 DEF SweepLong

-----------------------------------------------------------------------------
(* Callbacks and the calls they make.                                      *)

LEMMA ReturnStep ==
    ASSUME IInv, Return
    PROVE  IInv'
<1>1. /\ Top \in Frame /\ Rest \in Seq(Parked) /\ Sound(h)
  BY TopFacts DEF Return, IInv
<1>2. CASE stack' = Rest
  BY <1>1, <1>2, HeapStep DEF Return
<1>3. CASE /\ Rest # <<>> /\ Head(Rest).op = "dispatch" /\ Top.s # Null
           /\ stack' = Push([Head(Rest) EXCEPT !.s = Top.s], Tail(Rest))
  <2> DEFINE r == Head(Rest)
             f == [r EXCEPT !.s = Top.s]
  <2>1. r \in Parked /\ Tail(Rest) \in Seq(Parked)
    BY <1>1, <1>3, TailType
  <2>2. Top.s \in Sockets
    BY <1>1, <1>3 DEF Frame, SocketPtr
  <2> HIDE DEF r
  <2>3. f \in Frame /\ f.op = r.op /\ f.pc = r.pc /\ f.s = Top.s
    BY <2>1, <2>2 DEF Parked, Frame, SocketPtr
  <2> HIDE DEF f
  <2>4. r.op = "dispatch"
    BY <1>3 DEF r
  <2>5. f \in Parked
    BY <2>1, <2>2, <2>3, <2>4 DEF Parked, FrameOK, Checked
  <2>6. stack' \in Seq(Parked)
    BY <1>3, <2>1, <2>5, PushType DEF f, r
  <2> QED BY <1>1, <2>6, HeapStep DEF Return
<1> QED BY <1>2, <1>3 DEF Return

\* A callback that makes a call waits.
LEMMA CallerParked ==
    ASSUME IInv, stack # <<>> => Top.op = "cb" /\ Top.n > 0
    PROVE  /\ Caller \in Seq(Parked) /\ (stack # <<>> => Head(Caller) \in Parked)
<1>1. CASE stack = <<>>
  BY <1>1 DEF Caller
<1>2. CASE stack # <<>>
  <2> DEFINE n == Top.n - 1
             f == [Top EXCEPT !.n = n]
  <2>1. Top \in Frame /\ FrameOK(Top) /\ Rest \in Seq(Parked)
    BY <1>2, TopFacts
  <2>2. Top.n \in Nat
    BY <2>1 DEF Frame
  <2>3. n \in Nat
    BY <1>2, <2>2
  <2> HIDE DEF n
  <2>4. f \in Frame /\ f.op = "cb" /\ f.pc = Top.pc /\ f.s = Top.s
    BY <1>2, <2>1, <2>3 DEF Frame
  <2> HIDE DEF f
  <2>5. f \in Parked
    BY <1>2, <2>1, <2>4 DEF Parked, FrameOK, Checked
  <2>6. Caller = Push(f, Rest)
    BY <1>2 DEF Caller, f, n
  <2> QED BY <2>1, <2>5, <2>6, PushType, PushTop
<1> QED BY <1>1, <1>2

LEMMA ContextCallStep ==
    ASSUME IInv, NEW c \in Contexts, Create(c) \/ Free(c) \/ CloseContext(c)
    PROVE  IInv'
<1>1. Caller \in Seq(Parked) /\ Sound(h) /\ c \in ContextPtr
  BY CallerParked DEF Create, Free, CloseContext, MayCall, IInv, ContextPtr
<1>2. ASSUME Create(c) PROVE IInv'
  <2>1. Sound(h')
    BY <1>1, <1>2, CreateContextSound DEF Create
  <2> QED BY <1>1, <1>2, <2>1, Settled DEF Create, IInv, TypeOK
<1>3. ASSUME Free(c) PROVE IInv'
  <2>1. Sound(h')
    BY <1>1, <1>3, RefSound DEF Free
  <2> QED BY <1>1, <1>3, <2>1, Settled DEF Free, IInv, TypeOK
<1>4. ASSUME CloseContext(c) PROVE IInv'
  <2> DEFINE f == Fr("cclose", "listening", h.lhead[c], c, {})
  <2>1. h.lhead[c] \in SocketPtr
    BY <1>1 DEF Sound, Heap
  <2>2. f \in Frame /\ f.op = "cclose" /\ f.c = c
    BY <1>1, <2>1, FrType DEF Ops, Pcs
  <2> HIDE DEF f
  <2>3. f \in Parked
    BY <2>2 DEF Parked, FrameOK, Checked
  <2>4. stack' \in Seq(Parked)
    BY <1>1, <1>4, <2>3, PushType DEF CloseContext, f
  <2> QED BY <1>1, <1>4, <2>4, HeapStep DEF CloseContext
<1> QED BY <1>2, <1>3, <1>4

LEMMA OpenSocketStep ==
    ASSUME IInv, NEW c \in Contexts, NEW s \in Sockets, OpenSocket(c, s)
    PROVE  IInv'
<1>1. Caller \in Seq(Parked) /\ Sound(h) /\ h.type[s] = "free"
  BY CallerParked DEF OpenSocket, MayCall, IInv
<1>2. /\ "listen" \in PollTypes /\ "semi" \in PollTypes
      /\ {"R"} \in SUBSET Directions /\ {"W"} \in SUBSET Directions
  BY DEF PollTypes, Directions
<1>3. Sound(h')
  BY <1>1, <1>2, NewSocketSound DEF OpenSocket
<1> QED BY <1>1, <1>3, HeapStep DEF OpenSocket

LEMMA AdoptSocketStep ==
    ASSUME IInv, NEW c \in Contexts, NEW n \in Sockets, AdoptSocket(c, n)
    PROVE  IInv'
<1>1. /\ Caller \in Seq(Parked) /\ Head(Caller) \in Parked /\ Sound(h)
      /\ stack # <<>> /\ Top.op = "cb"
  BY CallerParked DEF AdoptSocket, MayCall, IInv
<1>2. Top.s \in Sockets /\ Rest \in Seq(Parked)
  BY <1>1, TopFacts DEF AdoptSocket, FrameOK
<1>3. Sound(h')
  BY <1>1, <1>2, AdoptSound DEF AdoptSocket
<1> DEFINE r == Head(Caller)
           f == [r EXCEPT !.s = n]
<1> HIDE DEF r
<1>4. f \in Frame /\ f.op = r.op /\ f.pc = r.pc /\ f.s = n /\ f.c = r.c
  BY <1>1 DEF Parked, Frame, SocketPtr, r
<1>5. r \in Parked
  BY <1>1 DEF r
<1> HIDE DEF f
<1>6. f \in Parked
  BY <1>4, <1>5 DEF Parked, FrameOK, Checked
<1>7. stack' \in Seq(Parked)
  BY <1>2, <1>6, PushType DEF AdoptSocket, f, r
<1>8. unsent' \subseteq Sockets
  BY DEF AdoptSocket, IInv, TypeOK
<1> QED BY <1>3, <1>7, <1>8, Settled DEF AdoptSocket, IInv, TypeOK

\* The calls that close a socket or stop using it.
LEMMA CloseCallStep ==
    ASSUME IInv, NEW s \in Sockets, Close(s) \/ CloseListen(s) \/ DetachSocket(s)
    PROVE  IInv'
<1>1. Caller \in Seq(Parked) /\ Sound(h) /\ ~IsClosed(h, s)
  BY CallerParked DEF Close, CloseListen, DetachSocket, MayCall, IInv, Open
<1>2. ASSUME Close(s) PROVE IInv'
  <2>1. Sound(h') /\ stack' \in Seq(Parked)
    BY <1>1, <1>2, SocketCloseStep DEF Close
  <2> QED BY <1>2, <2>1, HeapStep DEF Close
<1>3. ASSUME CloseListen(s) \/ DetachSocket(s) PROVE IInv'
  <2>1. Sound(h')
    BY <1>1, <1>3, CloseSound DEF CloseListen, DetachSocket
  <2> QED BY <1>1, <1>3, <2>1, HeapStep DEF CloseListen, DetachSocket
<1> QED BY <1>2, <1>3

\* The calls that change what a socket polls for.
LEMMA PollCallStep ==
    ASSUME IInv, NEW s \in Sockets,
           Shutdown(s) \/ WriteFailed(s) \/ Pause(s) \/ Resume(s)
    PROVE  IInv'
<1>1. Caller \in Seq(Parked) /\ Sound(h)
  BY CallerParked DEF Shutdown, WriteFailed, Pause, Resume, Pausable, MayCall, IInv
<1>2. ASSUME NEW b \in BOOLEAN, NEW g, Sound(g)
      PROVE  /\ Sound([g EXCEPT !.paused[s] = b])
             /\ SameSocketFields([g EXCEPT !.paused[s] = b], g)
  <2>1. /\ [g EXCEPT !.paused[s] = b] \in Heap
        /\ SameSocketFields([g EXCEPT !.paused[s] = b], g)
    BY <1>2 DEF Sound, Heap, SameSocketFields
  <2> QED BY <1>2, <2>1, SameSockets DEF SameSocketFields
<1>3. {"R"} \in SUBSET Directions /\ {"W"} \in SUBSET Directions
      /\ {"R", "W"} \in SUBSET Directions /\ h.poll[s] \cap {"R"} \in SUBSET Directions
  BY DEF Directions
<1>4. ASSUME Shutdown(s) PROVE IInv'
  <2> DEFINE p == PollChange(h, s, h.poll[s] \cap {"R"})
             k == [p EXCEPT !.type[s] = "shut"]
  <2>1. Sound(p) /\ p.type[s] # "free"
    BY <1>1, <1>3, <1>4, PollChangeSound DEF SameSocketFields, Shutdown
  <2> HIDE DEF p
  <2>2. /\ k \in Heap /\ k.ctx = p.ctx /\ k.prev = p.prev /\ k.ready = p.ready
        /\ \A t \in Sockets : k.type[t] = IF t = s THEN "shut" ELSE p.type[t]
    BY <2>1 DEF Sound, Heap, PollTypes
  <2> HIDE DEF k
  <2>3. Sound(k)
    BY <2>1, <2>2 DEF Sound, Open, IsClosed
  <2> QED BY <1>1, <1>4, <2>3, HeapStep DEF Shutdown, k, p
<1>5. ASSUME WriteFailed(s) PROVE IInv'
  <2>1. Sound(h')
    BY <1>1, <1>3, <1>5, PollChangeSound DEF WriteFailed
  <2> QED BY <1>1, <1>5, <2>1, Settled DEF WriteFailed, IInv, TypeOK
<1>6. ASSUME Pause(s) PROVE IInv'
  <2>1. Sound(h')
    BY <1>1, <1>2, <1>3, <1>6, PollChangeSound DEF Pause
  <2> QED BY <1>1, <1>6, <2>1, HeapStep DEF Pause
<1>7. ASSUME Resume(s) PROVE IInv'
  <2>1. Sound(h')
    BY <1>1, <1>2, <1>3, <1>7, PollChangeSound DEF Resume
  <2> QED BY <1>1, <1>7, <2>1, HeapStep DEF Resume
<1> QED BY <1>4, <1>5, <1>6, <1>7

-----------------------------------------------------------------------------
(* Types and pending ready polls, for every program.                       *)

\* The empty loop satisfies the inductive invariant.
THEOREM InitIInv == Init => IInv
<1> SUFFICES ASSUME Init PROVE IInv
  OBVIOUS
<1>1. /\ 0 \in 0..2 /\ 0 \in Int /\ 0 \in Nat
  OBVIOUS
<1>2. EmptyHeap \in Heap
  BY <1>1 DEF EmptyHeap, Heap, PollTypes, SocketPtr, ContextPtr
<1>3. Sound(EmptyHeap)
  BY <1>2 DEF EmptyHeap, Sound, SocketPtr
<1>4. stack = <<>> /\ <<>> \in Seq(Frame)
  BY DEF Init
<1>5. h \in Heap /\ Sound(h)
  BY <1>2, <1>3 DEF Init
<1>6. TypeOK
  BY <1>1, <1>4, <1>5 DEF Init, TypeOK
<1> QED BY <1>4, <1>5, <1>6 DEF IInv, StackOK

\* Every step of the loop and every call keeps it.
THEOREM NextIInv == IInv /\ [Next]_vars => IInv'
<1> SUFFICES ASSUME IInv, [Next]_vars PROVE IInv'
  OBVIOUS
<1>1. CASE CloseReturn
  BY <1>1, CloseReturnStep
<1>2. CASE CCloseListen \/ CCloseSocket
  BY <1>2, CCloseStep
<1>3. CASE HandleLowPrio
  BY <1>3, HandleLowPrioStep
<1>4. CASE Wait
  BY <1>4, WaitStep
<1>5. CASE DispatchTimer
  BY <1>5, DispatchTimerStep
<1>6. CASE Post
  BY <1>6, PostStep
<1>7. CASE \E s \in Sockets : DispatchPoll(s)
  BY <1>7, DispatchPollStep
<1>8. CASE Accept
  BY <1>8, AcceptStep
<1>9. CASE DispatchWritable
  BY <1>9, DispatchWritableStep
<1>10. CASE DispatchWrote
  BY <1>10, DispatchWroteStep
<1>11. CASE DispatchReadable
  BY <1>11, DispatchReadableStep
<1>12. CASE Recv
  BY <1>12, RecvStep
<1>13. CASE ReceivedMore \/ ReceivedLast
  BY <1>13, ReceivedStep
<1>14. CASE DispatchEof
  BY <1>14, DispatchEofStep
<1>15. CASE DispatchEnd
  BY <1>15, DispatchEndStep
<1>16. CASE SweepContext
  BY <1>16, SweepContextStep
<1>17. CASE SweepSeek
  BY <1>17, SweepSeekStep
<1>18. CASE SweepLong \/ SweepStep
  BY <1>18, SweepLongStep
<1>19. CASE Return
  BY <1>19, ReturnStep
<1>20. CASE Tick
  <2>1. Caller \in Seq(Parked) /\ TickStart(Caller)
    BY <1>20, CallerParked DEF Tick, MayCall
  <2> QED BY <2>1, TickStep
<1>21. CASE Call
  <2>1. ASSUME NEW c \in Contexts, Create(c) \/ Free(c) \/ CloseContext(c)
        PROVE  IInv'
    BY <2>1, ContextCallStep
  <2>2. ASSUME NEW c \in Contexts, NEW s \in Sockets,
               OpenSocket(c, s) \/ AdoptSocket(c, s)
        PROVE  IInv'
    BY <2>2, OpenSocketStep, AdoptSocketStep
  <2>3. ASSUME NEW s \in Sockets, Close(s) \/ CloseListen(s) \/ DetachSocket(s)
        PROVE  IInv'
    BY <2>3, CloseCallStep
  <2>4. ASSUME NEW s \in Sockets,
               Shutdown(s) \/ WriteFailed(s) \/ Pause(s) \/ Resume(s)
        PROVE  IInv'
    BY <2>4, PollCallStep
  <2> QED BY <1>21, <2>1, <2>2, <2>3, <2>4 DEF Call
<1>22. CASE Exit \/ UNCHANGED vars
  BY <1>22 DEF Exit, vars, IInv, TypeOK, Top
<1> QED BY <1>1, <1>2, <1>3, <1>4, <1>5, <1>6, <1>7, <1>8, <1>9, <1>10, <1>11,
           <1>12, <1>13, <1>14, <1>15, <1>16, <1>17, <1>18, <1>19, <1>20, <1>21,
           <1>22 DEF Next, LoopStep

\* The heap is sound and the stack well formed in every reachable state.
THEOREM IInvHolds == Spec => []IInv
  BY InitIInv, NextIInv, PTL DEF Spec

\* Every field of the heap, of the stack and of the loop keeps its C type,
\* whatever the callbacks call (loop_data.h, internal.h).
THEOREM TypeCorrect == Spec => []TypeOK
<1>1. IInv => TypeOK
  BY DEF IInv
<1> QED BY <1>1, IInvHolds, PTL

\* Closing, detaching, adopting, queueing and freeing always leave the ready
\* polls that epoll_wait returned pointing at open sockets only: the event of a
\* closed or freed socket is never dispatched (epoll_kqueue.c:324-345).
THEOREM PendingOpenHolds == Spec => []PendingOpen
<1>1. IInv => PendingOpen
  BY DEF IInv, Sound, PendingOpen
<1> QED BY <1>1, IInvHolds, PTL

-----------------------------------------------------------------------------
(* The stack.                                                              *)

\* The frames of a stack, and the closes in progress, after a call.
LEMMA PushFrames ==
    ASSUME NEW f, NEW st \in Seq(Frame)
    PROVE  /\ Frames(Push(f, st)) = Frames(st) \cup {f}
           /\ f.op # "close" => Closes(Push(f, st)) = Closes(st)
           /\ f.op = "close" /\ f.s \in Sockets => Closes(Push(f, st)) = Closes(st) \cup {f.s}
           /\ Frames(<<>>) = {} /\ Closes(<<>>) = {}
<1> DEFINE q == Push(f, st)
<1>1. /\ Len(q) = Len(st) + 1 /\ q[1] = f /\ Len(st) \in Nat
      /\ \A i \in 1..Len(st) : q[i + 1] = st[i]
    BY DEF Push
<1> HIDE DEF q
<1>2. Frames(q) = Frames(st) \cup {f}
    <2>1. ASSUME NEW x \in Frames(q)
          PROVE  x \in Frames(st) \cup {f}
        <3>1. PICK i \in 1..Len(q) : x = q[i]
            BY <2>1 DEF Frames
        <3>2. CASE i = 1
            BY <1>1, <3>1, <3>2
        <3>3. CASE i # 1
            <4>1. i - 1 \in 1..Len(st) /\ i = (i - 1) + 1
                BY <1>1, <3>1, <3>3
            <4>2. q[i] = st[i - 1]
                BY <1>1, <4>1
            <4> QED  BY <3>1, <4>1, <4>2 DEF Frames
        <3> QED  BY <3>2, <3>3
    <2>2. f \in Frames(q)
        <3>1. 1 \in 1..Len(q)
            BY <1>1
        <3> QED  BY <1>1, <3>1 DEF Frames
    <2>3. ASSUME NEW x \in Frames(st)
          PROVE  x \in Frames(q)
        <3>1. PICK i \in 1..Len(st) : x = st[i]
            BY <2>3 DEF Frames
        <3>2. i + 1 \in 1..Len(q) /\ q[i + 1] = x
            BY <1>1, <3>1
        <3> QED  BY <3>2 DEF Frames
    <2> QED  BY <2>1, <2>2, <2>3
<1>3. Frames(<<>>) = {}
    BY DEF Frames
<1>4. Closes(<<>>) = {}
    BY <1>3 DEF Closes
<1> QED  BY <1>2, <1>3, <1>4 DEF Closes, q

\* The empty stack has the shape of a stack.
LEMMA ShapeEmpty == Shape(<<>>)
    BY DEF Shape

\* ... and a call keeps it when the caller may make it.
LEMMA ShapePush ==
    ASSUME NEW f, NEW st \in Seq(Frame)
    PROVE  Shape(Push(f, st)) <=>
             /\ Shape(st)
             /\ st = <<>> => f.op \in {"tick", "close", "cclose"}
             /\ st # <<>> => Follows(f, Head(st))
             /\ f.op = "close" => \A x \in Frames(st) : x.op = "close" => x.s # f.s
<1> DEFINE q == Push(f, st)
<1>1. /\ Len(q) = Len(st) + 1 /\ q[1] = f /\ Len(st) \in Nat
      /\ \A i \in 1..Len(st) : q[i + 1] = st[i]
      /\ st # <<>> <=> Len(st) # 0
      /\ st # <<>> => Head(st) = st[1]
    BY DEF Push
<1> HIDE DEF q
<1>2. ASSUME NEW i \in 1..Len(q), i # 1
      PROVE  /\ i - 1 \in 1..Len(st) /\ q[i] = st[i - 1]
             /\ i # Len(q) => i \in 1..Len(st) /\ q[i + 1] = st[i]
             /\ i = Len(q) <=> i - 1 = Len(st)
    <2>1. i - 1 \in 1..Len(st) /\ i = (i - 1) + 1
        BY <1>1, <1>2
    <2>2. q[i] = st[i - 1]
        BY <1>1, <2>1
    <2>3. i # Len(q) => i \in 1..Len(st)
        BY <1>1
    <2> QED  BY <1>1, <2>1, <2>2, <2>3
<1>3. ASSUME Shape(q)
      PROVE  /\ Shape(st)
             /\ st = <<>> => f.op \in {"tick", "close", "cclose"}
             /\ st # <<>> => Follows(f, Head(st))
             /\ f.op = "close" => \A x \in Frames(st) : x.op = "close" => x.s # f.s
    <2>1. 1 \in 1..Len(q)
        BY <1>1
    <2>2. st = <<>> => f.op \in {"tick", "close", "cclose"}
        BY <1>1, <1>3, <2>1 DEF Shape
    <2>3. ASSUME st # <<>>
          PROVE  Follows(f, Head(st))
        <3>1. 1 # Len(q) /\ 1 \in 1..Len(st)
            BY <1>1, <2>3
        <3>2. Follows(q[1], q[1 + 1])
            BY <1>3, <2>1, <3>1 DEF Shape
        <3>3. q[1 + 1] = st[1]
            BY <1>1, <3>1
        <3> QED  BY <1>1, <2>3, <3>2, <3>3
    <2>4. \A i \in 1..Len(st) : i + 1 \in 1..Len(q) /\ q[i + 1] = st[i] /\ i + 1 # 1
                                /\ (i = Len(st) <=> i + 1 = Len(q))
        BY <1>1
    <2>5. ASSUME NEW i \in 1..Len(st)
          PROVE  IF i = Len(st) THEN st[i].op \in {"tick", "close", "cclose"}
                 ELSE Follows(st[i], st[i + 1])
        <3>1. CASE i = Len(st)
            BY <1>3, <2>4, <3>1 DEF Shape
        <3>2. CASE i # Len(st)
            <4>1. i + 1 \in 1..Len(st)
                BY <1>1, <3>2
            <4>2. q[(i + 1) + 1] = st[i + 1] /\ q[i + 1] = st[i]
                BY <2>4, <4>1
            <4>3. Follows(q[i + 1], q[(i + 1) + 1])
                BY <1>3, <2>4, <3>2 DEF Shape
            <4> QED  BY <3>2, <4>2, <4>3
        <3> QED  BY <3>1, <3>2
    <2>6. ASSUME NEW i \in 1..Len(st), NEW j \in 1..Len(st),
                 st[i].op = "close", st[j].op = "close", st[i].s = st[j].s
          PROVE  i = j
        <3>1. i + 1 = j + 1
            BY <1>3, <2>4, <2>6 DEF Shape
        <3> QED  BY <3>1
    <2>7. ASSUME f.op = "close", NEW x \in Frames(st), x.op = "close"
          PROVE  x.s # f.s
        <3>1. PICK i \in 1..Len(st) : x = st[i]
            BY <2>7 DEF Frames
        <3>2. i + 1 \in 1..Len(q) /\ q[i + 1] = x /\ i + 1 # 1
            BY <2>4, <3>1
        <3> QED  BY <1>1, <1>3, <2>1, <2>7, <3>2 DEF Shape
    <2> QED  BY <2>2, <2>3, <2>5, <2>6, <2>7 DEF Shape
<1>4. ASSUME Shape(st),
             st = <<>> => f.op \in {"tick", "close", "cclose"},
             st # <<>> => Follows(f, Head(st)),
             f.op = "close" => \A x \in Frames(st) : x.op = "close" => x.s # f.s
      PROVE  Shape(q)
    <2>1. ASSUME NEW i \in 1..Len(q)
          PROVE  IF i = Len(q) THEN q[i].op \in {"tick", "close", "cclose"}
                 ELSE Follows(q[i], q[i + 1])
        <3>1. CASE i = 1
            <4>1. CASE st = <<>>
                BY <1>1, <1>4, <3>1, <4>1
            <4>2. CASE st # <<>>
                <5>1. 1 \in 1..Len(st) /\ i # Len(q)
                    BY <1>1, <3>1, <4>2
                <5>2. q[i + 1] = st[1]
                    BY <1>1, <3>1, <5>1
                <5> QED  BY <1>1, <1>4, <3>1, <4>2, <5>1, <5>2
            <4> QED  BY <4>1, <4>2
        <3>2. CASE i # 1
            <4>1. /\ i - 1 \in 1..Len(st) /\ q[i] = st[i - 1]
                  /\ i # Len(q) => i \in 1..Len(st) /\ q[i + 1] = st[i]
                  /\ i = Len(q) <=> i - 1 = Len(st)
                BY <1>2, <3>2
            <4>2. IF i - 1 = Len(st) THEN st[i - 1].op \in {"tick", "close", "cclose"}
                  ELSE Follows(st[i - 1], st[(i - 1) + 1])
                BY <1>4, <4>1 DEF Shape
            <4>3. (i - 1) + 1 = i
                OBVIOUS
            <4> QED  BY <4>1, <4>2, <4>3
        <3> QED  BY <3>1, <3>2
    <2>2. \A i \in 1..Len(q) : i # 1 => q[i] \in Frames(st)
        BY <1>2 DEF Frames
    <2>3. ASSUME NEW i \in 1..Len(q), NEW j \in 1..Len(q),
                 q[i].op = "close", q[j].op = "close", q[i].s = q[j].s
          PROVE  i = j
        <3>1. CASE i = 1 \/ j = 1
            BY <1>1, <1>4, <2>2, <2>3, <3>1
        <3>2. CASE i # 1 /\ j # 1
            <4>1. /\ i - 1 \in 1..Len(st) /\ q[i] = st[i - 1]
                  /\ j - 1 \in 1..Len(st) /\ q[j] = st[j - 1]
                BY <1>2, <3>2
            <4>2. i - 1 = j - 1
                BY <1>4, <2>3, <4>1 DEF Shape
            <4> QED  BY <4>2
        <3> QED  BY <3>1, <3>2
    <2> QED  BY <2>1, <2>3 DEF Shape
<1> QED  BY <1>3, <1>4 DEF q

-----------------------------------------------------------------------------
(* What the frames promise.                                                *)

\* The functions that rely on nothing more while they run than while they wait.
Idle(f) ==
    \/ f.op \in {"tick", "cb", "close", "accept"}
    \/ f.op = "cclose" /\ f.pc = "closing"
    \/ f.op = "sweep" /\ f.pc \in {"long", "step", "context"}

\* ... run where they have waited.
LEMMA IdleRuns ==
    ASSUME NEW f, Idle(f), NEW g, NEW r
    PROVE  Runs(g, f, r)
    BY DEF Idle, Runs

\* A step of the heap leaves a frame what it relies on.
LEMMA WaitsKept ==
    ASSUME NEW g, NEW f, NEW r, Waits(g, f, r), NEW k, NEW q,
           SweepKept(g, k, r, q), Keeps(g, k)
    PROVE  Waits(k, f, q)
<1>1. FrameAlive(k, f)
    <2>1. FrameAlive(g, f)
        BY DEF Waits
    <2>2. f.c \in Contexts => k.state[f.c] # "none"
        BY <2>1 DEF FrameAlive, Keeps
    <2>3. ASSUME f.s \in Sockets
          PROVE  /\ f.op = "dispatch" \/ Visiting(f) \/ k.type[f.s] # "free"
                 /\ f.op = "accept" => k.type[f.s] \in {"listen", "semi", "shut"}
                 /\ f.op = "cb" /\ f.pc \in {"on_data", "on_end", "on_writable"}
                      => k.type[f.s] \in {"socket", "shut"}
                 /\ f.op = "dispatch" /\ "R" \in f.ev /\ f.pc \in {"writable", "wrote", "readable"}
                      => (Open(k, f.s) => k.low[f.s] # 1)
                 /\ f.op = "cclose" /\ f.pc = "closing" /\ k.type[f.s] = "listen"
                      => IsClosed(k, f.s)
        <3>1. /\ g.type[f.s] # "free" =>
                    /\ \/ k.type[f.s] = g.type[f.s]
                       \/ g.type[f.s] \in {"socket", "semi"} /\ k.type[f.s] = "shut"
                    /\ IsClosed(g, f.s) => IsClosed(k, f.s)
              /\ Open(k, f.s) /\ k.low[f.s] = 1 => Open(g, f.s) /\ g.low[f.s] = 1
            BY <2>3 DEF Keeps
        <3>2. /\ f.op = "dispatch" \/ Visiting(f) \/ g.type[f.s] # "free"
              /\ f.op = "accept" => g.type[f.s] \in {"listen", "semi", "shut"}
              /\ f.op = "cb" /\ f.pc \in {"on_data", "on_end", "on_writable"}
                   => g.type[f.s] \in {"socket", "shut"}
              /\ f.op = "dispatch" /\ "R" \in f.ev /\ f.pc \in {"writable", "wrote", "readable"}
                   => (Open(g, f.s) => g.low[f.s] # 1)
              /\ f.op = "cclose" /\ f.pc = "closing" /\ g.type[f.s] = "listen" => IsClosed(g, f.s)
            BY <2>1, <2>3 DEF FrameAlive
        <3> QED  BY <3>1, <3>2 DEF Visiting
    <2> QED  BY <2>1, <2>2, <2>3 DEF FrameAlive
<1>2. Swept(k, f, q)
    <2>1. SUFFICES ASSUME Visiting(f), f.s \in Sockets, f.c \in Contexts
                   PROVE  SweptAt(k, f.c, f.s, Left(f.pc), q)
        BY DEF Swept
    <2>2. SweptAt(g, f.c, f.s, Left(f.pc), r)
        BY <2>1 DEF Waits, Swept
    <2>3. Left(f.pc) \in SUBSET {"short", "long"}
        BY DEF Left
    <2> QED  BY <2>1, <2>2, <2>3 DEF SweepKept
<1> QED  BY <1>1, <1>2 DEF Waits

\* A step of the heap that keeps what the frames rely on keeps the stack.
LEMMA BaseMoves ==
    ASSUME NEW g, NEW st, NEW own, NEW r, Base(g, st, own, r),
           NEW k, NEW p, NEW q, Heaped(k, Closes(st), p, q, Mode), SweepKept(g, k, r, q), Keeps(g, k)
    PROVE  Base(k, st, p, q)
<1>1. \A f \in Frames(st) : Waits(k, f, q)
    BY WaitsKept DEF Base
<1> QED  BY <1>1 DEF Base

\* A call, of any function but us_socket_close.
LEMMA BasePush ==
    ASSUME NEW g, NEW st \in Seq(Frame), NEW own, NEW r, Base(g, st, own, r),
           NEW f, f.op # "close", Waits(g, f, r),
           st = <<>> => f.op \in {"tick", "cclose"}, st # <<>> => Follows(f, Head(st))
    PROVE  Base(g, Push(f, st), own, r)
<1>1. Shape(Push(f, st))
    BY ShapePush DEF Base
<1>2. Frames(Push(f, st)) = Frames(st) \cup {f} /\ Closes(Push(f, st)) = Closes(st)
    BY PushFrames
<1> QED  BY <1>1, <1>2 DEF Base

\* The return of any function but us_socket_close.
LEMMA BasePop ==
    ASSUME NEW g, NEW st \in Seq(Frame), NEW own, NEW r, NEW f, Base(g, Push(f, st), own, r),
           f.op # "close"
    PROVE  /\ Base(g, st, own, r) /\ Waits(g, f, r)
           /\ st = <<>> => f.op \in {"tick", "cclose"}
           /\ st # <<>> => Follows(f, Head(st))
<1>1. /\ Shape(st) /\ (st = <<>> => f.op \in {"tick", "cclose"})
      /\ st # <<>> => Follows(f, Head(st))
    BY ShapePush DEF Base
<1>2. Frames(Push(f, st)) = Frames(st) \cup {f} /\ Closes(Push(f, st)) = Closes(st)
    BY PushFrames
<1> QED  BY <1>1, <1>2 DEF Base

\* us_socket_close is entered, and left.
LEMMA BasePushClose ==
    ASSUME NEW st \in Seq(Frame), Shape(st), NEW f, f.op = "close", NEW s \in Sockets, f.s = s,
           NEW g, NEW own, NEW r, Heaped(g, Closes(st) \cup {s}, own, r, Mode), s \notin Closes(st),
           \A x \in Frames(st) : Waits(g, x, r), Waits(g, f, r),
           st # <<>> => Follows(f, Head(st))
    PROVE  Base(g, Push(f, st), own, r)
<1>1. \A x \in Frames(st) : x.op = "close" => x.s # f.s
    BY DEF Closes
<1>2. Shape(Push(f, st))
    BY <1>1, ShapePush
<1>3. Frames(Push(f, st)) = Frames(st) \cup {f} /\ Closes(Push(f, st)) = Closes(st) \cup {s}
    BY PushFrames
<1> QED  BY <1>2, <1>3 DEF Base

\* ... and of us_socket_close.
LEMMA BasePopClose ==
    ASSUME NEW g, NEW st \in Seq(Frame), NEW own, NEW r, NEW f, Base(g, Push(f, st), own, r),
           f.op = "close", NEW s \in Sockets, f.s = s
    PROVE  /\ Shape(st) /\ \A x \in Frames(st) : Waits(g, x, r)
           /\ Heaped(g, Closes(Push(f, st)), own, r, Mode)
           /\ s \in Closes(Push(f, st)) /\ Closes(st) = Closes(Push(f, st)) \ {s}
           /\ st # <<>> => Follows(f, Head(st))
<1>1. /\ Shape(st) /\ (st # <<>> => Follows(f, Head(st)))
      /\ \A x \in Frames(st) : x.op = "close" => x.s # f.s
    BY ShapePush DEF Base
<1>2. Frames(Push(f, st)) = Frames(st) \cup {f} /\ Closes(Push(f, st)) = Closes(st) \cup {s}
    BY PushFrames
<1>3. s \notin Closes(st)
    BY <1>1 DEF Closes
<1> QED  BY <1>1, <1>2, <1>3 DEF Base

\* The functions that a tick calls stand on it alone.
Floor(st) == \E t \in Frame : t.op = "tick" /\ st = Push(t, <<>>)

\* The functions on a tick stand on it alone, for no tick is nested.
LEMMA OnTick ==
    ASSUME NEW st \in Seq(Frame), Shape(st), st # <<>>, Head(st).op = "tick"
    PROVE  Floor(st)
<1>1. PICK t \in Frame, u \in Seq(Frame) : t = Head(st) /\ u = Tail(st) /\ st = Push(t, u)
    <2>1. Head(st) \in Frame /\ Tail(st) \in Seq(Frame) /\ st = Push(Head(st), Tail(st))
        BY DEF Push
    <2> QED  BY <2>1
<1>2. u # <<>> => Follows(t, Head(u))
    BY <1>1, ShapePush
<1>3. u = <<>>
    BY <1>1, <1>2 DEF Follows
<1> QED  BY <1>1, <1>3 DEF Floor

\* A tick that stands alone has no close under it.
LEMMA FloorBase ==
    ASSUME NEW st \in Seq(Frame), Floor(st)
    PROVE  /\ st # <<>> /\ Shape(st) /\ Closes(st) = {} /\ Head(st).op = "tick"
           /\ \A x \in Frames(st) : x = Head(st)
<1>1. PICK t \in Frame : t.op = "tick" /\ st = Push(t, <<>>)
    BY DEF Floor
<1>2. <<>> \in Seq(Frame)
    OBVIOUS
<1>3. st # <<>> /\ Head(st) = t
    BY <1>1, <1>2, PushTop
<1>4. Shape(st)
    <2>1. Shape(Push(t, <<>>))
        BY <1>1, <1>2, ShapePush, ShapeEmpty
    <2> QED  BY <1>1, <2>1
<1>5. Frames(st) = {t} /\ Closes(st) = {}
    <2>1. /\ Frames(Push(t, <<>>)) = Frames(<<>>) \cup {t}
          /\ Closes(Push(t, <<>>)) = Closes(<<>>)
        BY <1>1, <1>2, PushFrames
    <2>2. Frames(<<>>) = {} /\ Closes(<<>>) = {}
        BY DEF Frames, Closes
    <2> QED  BY <1>1, <2>1, <2>2
<1> QED  BY <1>1, <1>3, <1>4, <1>5

\* ... and relies on nothing of the heap.
LEMMA FloorStands ==
    ASSUME NEW st \in Seq(Frame), Floor(st), NEW g, NEW own, NEW r, Base(g, st, own, r),
           NEW k, NEW p, NEW q, Heaped(k, {}, p, q, Mode)
    PROVE  Base(k, st, p, q)
<1>1. /\ Shape(st) /\ Closes(st) = {} /\ Head(st).op = "tick"
      /\ \A x \in Frames(st) : x = Head(st)
    BY FloorBase
<1>2. \A x \in Frames(st) : x.op = "tick"
    BY <1>1
<1>3. \A x \in Frames(st) : x.s = Null /\ x.c = Null
    BY <1>2 DEF Base, Waits, FrameAlive
<1>4. \A x \in Frames(st) : Waits(k, x, q)
    BY <1>2, <1>3, AddressesDiffer DEF Waits, FrameAlive, Swept, Visiting
<1> QED  BY <1>1, <1>4 DEF Base

-----------------------------------------------------------------------------
(* Steps.                                                                  *)

\* The running function and the frames that wait under it.
LEMMA Running ==
    ASSUME IInv, stack # <<>>
    PROVE  /\ Top \in Frame /\ Rest \in Seq(Frame) /\ FrameOK(Top) /\ stack = Push(Top, Rest)
           /\ Frames(stack) = Frames(Rest) \cup {Top}
<1>1. /\ Top \in Frame /\ FrameOK(Top) /\ Rest \in Seq(Parked) /\ stack = Push(Top, Rest)
    BY TopFacts
<1>2. Rest \in Seq(Frame)
    BY <1>1, ParkedOK
<1>3. Frames(Push(Top, Rest)) = Frames(Rest) \cup {Top}
    BY <1>1, <1>2, PushFrames
<1> QED  BY <1>1, <1>2, <1>3

\* The two frames differ in the number of calls that are left.
SameFrame(f, x) == f.op = x.op /\ f.pc = x.pc /\ f.s = x.s /\ f.c = x.c /\ f.ev = x.ev

\* The number of calls left is nothing a frame relies on.
LEMMA SameFrameWaits ==
    ASSUME NEW f, NEW x, SameFrame(f, x)
    PROVE  /\ \A g, r : Waits(g, x, r) => Waits(g, f, r)
           /\ \A y : Follows(x, y) => Follows(f, y)
           /\ Writing(f) <=> Writing(x)
    BY DEF SameFrame, Waits, FrameAlive, Swept, Visiting, Follows, CalledFrom, Writing

\* The stack under a call is the stack but for that number.
LEMMA CallerStack ==
    ASSUME IInv, stack # <<>> => Top.op = "cb" /\ Top.n > 0
    PROVE  /\ Caller \in Seq(Frame)
           /\ Caller # <<>> <=> stack # <<>>
           /\ Caller # <<>> => Head(Caller).op = "cb"
           /\ Closes(Caller) = Closes(stack)
           /\ \A x \in Frames(stack) : \E y \in Frames(Caller) : x.op = y.op
           /\ \A y \in Frames(Caller) : \E x \in Frames(stack) : SameFrame(y, x)
           /\ \A g, own, r : Base(g, stack, own, r) => Base(g, Caller, own, r)
<1>1. Caller \in Seq(Frame)
    BY CallerParked, ParkedOK
<1>2. CASE stack = <<>>
    <2>1. Caller = stack
        BY <1>2 DEF Caller
    <2> QED  BY <1>1, <1>2, <2>1 DEF SameFrame
<1>3. CASE stack # <<>>
    <2>1. /\ Top \in Frame /\ Rest \in Seq(Frame) /\ stack = Push(Top, Rest)
          /\ Frames(stack) = Frames(Rest) \cup {Top}
        BY <1>3, Running
    <2>2. PICK f : f = [Top EXCEPT !.n = @ - 1]
        OBVIOUS
    <2>3. SameFrame(f, Top) /\ f.op = "cb"
        BY <1>3, <2>1, <2>2 DEF SameFrame, Frame
    <2>4. Caller = Push(f, Rest)
        BY <1>3, <2>2 DEF Caller
    <2>5. Frames(Caller) = Frames(Rest) \cup {f} /\ Closes(Caller) = Closes(Rest)
        BY <2>1, <2>3, <2>4, PushFrames
    <2>6. Closes(stack) = Closes(Rest)
        BY <1>3, <2>1, PushFrames
    <2>7. Caller # <<>> /\ Head(Caller) = f
        BY <2>1, <2>4, PushTop
    <2>8. ASSUME NEW g, NEW own, NEW r, Base(g, stack, own, r)
          PROVE  Base(g, Caller, own, r)
        <3>1. /\ Base(g, Rest, own, r) /\ Waits(g, Top, r)
              /\ Rest = <<>> => Top.op \in {"tick", "cclose"}
              /\ Rest # <<>> => Follows(Top, Head(Rest))
            BY <1>3, <2>1, <2>8, BasePop
        <3>2. Waits(g, f, r) /\ (Rest # <<>> => Follows(f, Head(Rest)))
            BY <2>3, <3>1, SameFrameWaits
        <3>3. Rest # <<>>
            BY <1>3, <3>1
        <3> QED  BY <2>1, <2>3, <2>4, <3>1, <3>2, <3>3, BasePush
    <2>9. \A y \in Frames(Rest) : SameFrame(y, y)
        BY DEF SameFrame
    <2>10. \A x \in Frames(stack) : \E y \in Frames(Caller) : x.op = y.op
        BY <1>3, <2>1, <2>3, <2>5
    <2>11. \A y \in Frames(Caller) : \E x \in Frames(stack) : SameFrame(y, x)
        BY <2>1, <2>3, <2>5, <2>9
    <2> QED  BY <1>1, <1>3, <2>3, <2>5, <2>6, <2>7, <2>8, <2>10, <2>11
<1> QED  BY <1>2, <1>3

\* The iterator of the loop stays with the sweep that set it.
LEMMA LiterKept ==
    ASSUME NEW g \in Heap, NEW st, LiterOK(g, st), NEW k, NEW t, k.liter = g.liter,
           \A c \in Contexts : g.state[c] # "none" => k.state[c] # "none",
           \A f \in Frames(st) : f.op = "sweep" => \E x \in Frames(t) : x.op = "sweep"
    PROVE  LiterOK(k, t)
<1>1. g.liter # Null => g.liter \in Contexts
    BY DEF Heap, ContextPtr
<1> QED  BY <1>1 DEF LiterOK

\* A short write keeps its poll in a step that keeps the frames.
LEMMA UnsentKept ==
    ASSUME NEW g, NEW un \in SUBSET Sockets, Unsent(g, un), NEW k, Keeps(g, k)
    PROVE  Unsent(k, un)
    BY DEF Unsent, Keeps

\* A call that does not call back.
LEMMA CallStep ==
    ASSUME IInv, LInv, stack # <<>> => Top.op = "cb" /\ Top.n > 0, stack' = Caller,
           \A r : Heaped(h, Closes(stack), owner, r, Mode) =>
                     Moves(h, Closes(stack), owner, r, h', Closes(stack), owner', Mode)
    PROVE  /\ Based(h', stack', owner') /\ LiterOK(h', stack')
           /\ Unsent(h', unsent)
           /\ unsent' = unsent /\ wfailed' = wfailed => LInv'
<1>1. /\ Caller \in Seq(Frame) /\ Closes(Caller) = Closes(stack)
      /\ Caller # <<>> => Head(Caller).op = "cb"
      /\ \A x \in Frames(stack) : \E y \in Frames(Caller) : x.op = y.op
      /\ \A y \in Frames(Caller) : \E x \in Frames(stack) : SameFrame(y, x)
      /\ \A g, own, r : Base(g, stack, own, r) => Base(g, Caller, own, r)
    BY CallerStack
<1>2. PICK r : Base(h, stack, owner, r)
    BY DEF LInv, Based
<1>3. Heaped(h, Closes(stack), owner, r, Mode)
    BY <1>2 DEF Base
<1>4. PICK q : /\ Heaped(h', Closes(stack), owner', q, Mode)
               /\ SweepKept(h, h', r, q) /\ Keeps(h, h')
    BY <1>3 DEF Moves
<1>5. Base(h, Caller, owner, r)
    BY <1>1, <1>2
<1>6. Base(h', Caller, owner', q)
    BY <1>1, <1>4, <1>5, BaseMoves
<1>7. Based(h', stack', owner')
    <2>1. stack' # <<>> => Idle(Head(stack'))
        BY <1>1 DEF Idle
    <2>2. stack' # <<>> => Runs(h', Head(stack'), q)
        BY <2>1, IdleRuns
    <2> QED  BY <1>6, <2>2 DEF Based
<1>8. LiterOK(h', stack')
    <2>1. h \in Heap /\ LiterOK(h, stack)
        BY DEF IInv, TypeOK, LInv
    <2>2. h'.liter = h.liter /\ \A c \in Contexts : h.state[c] # "none" => h'.state[c] # "none"
        BY <1>4 DEF Keeps
    <2>3. \A f \in Frames(stack) : f.op = "sweep" => \E x \in Frames(stack') : x.op = "sweep"
        BY <1>1
    <2> QED  BY <2>1, <2>2, <2>3, LiterKept
<1>9. Unsent(h', unsent)
    BY <1>4, UnsentKept DEF LInv, IInv, TypeOK
<1>10. Written(stack', unsent, wfailed)
    <2>1. Written(stack, unsent, wfailed)
        BY DEF LInv
    <2> QED  BY <1>1, <2>1 DEF Written, Writing, SameFrame
<1> QED  BY <1>7, <1>8, <1>9, <1>10 DEF LInv

-----------------------------------------------------------------------------
(* us_socket_close.                                                        *)

\* The frame under a close that begins.
Calm(st) ==
    st # <<>> => \/ Head(st).op \in {"cb", "tick"}
                 \/ Head(st).op = "cclose" /\ Head(st).pc = "closing"

\* LInv but for what the running function relies on.
Resting(g, st, own, un, wf) ==
    (\E r : Base(g, st, own, r)) /\ LiterOK(g, st) /\ Unsent(g, un) /\ Written(st, un, wf)

LEMMA SocketCloseLoop ==
    ASSUME IInv, NEW st \in Seq(Frame), Calm(st), Resting(h, st, owner, unsent, wfailed),
           NEW s \in Sockets, ~IsClosed(h, s) => Open(h, s) /\ h.type[s] # "listen",
           SocketClose(s, st), owner' = owner, unsent' = unsent, wfailed' = wfailed
    PROVE  LInv'
<1>1. PICK r : Base(h, st, owner, r)
    BY DEF Resting
<1>2. Heaped(h, Closes(st), owner, r, Mode)
    BY <1>1 DEF Base
<1>3. LiterOK(h, st) /\ Unsent(h, unsent) /\ Written(st, unsent, wfailed) /\ h \in Heap
      /\ unsent \in SUBSET Sockets
    BY DEF Resting, IInv, TypeOK
<1>4. CASE stack' = st /\ \E q : Base(h', st, owner, q) /\ Keeps(h, h')
    <2>1. PICK q : Base(h', st, owner, q) /\ Keeps(h, h')
        BY <1>4
    <2>2. st # <<>> => Idle(Head(st))
        BY DEF Calm, Idle
    <2>3. st # <<>> => Runs(h', Head(st), q)
        BY <2>2, IdleRuns
    <2>4. Based(h', stack', owner')
        BY <1>4, <2>1, <2>3 DEF Based
    <2>5. LiterOK(h', stack')
        BY <1>3, <1>4, <2>1, LiterKept DEF Keeps
    <2>6. Unsent(h', unsent)
        BY <1>3, <2>1, UnsentKept
    <2> QED  BY <1>3, <1>4, <2>4, <2>5, <2>6 DEF LInv
<1>5. CASE IsClosed(h, s) /\ h' = h /\ stack' = st
    <2>1. Keeps(h, h)
        BY DEF Keeps
    <2> QED  BY <1>1, <1>4, <1>5, <2>1
<1>6. CASE ~IsClosed(h, s) /\ h' = CloseEnd(CloseBegin(h, s), s) /\ stack' = st
    <2>1. Moves(h, Closes(st), owner, r, h', Closes(st), owner, Mode)
        BY <1>2, <1>6, SemiCloseMoves
    <2>2. PICK q : Heaped(h', Closes(st), owner, q, Mode) /\ SweepKept(h, h', r, q) /\ Keeps(h, h')
        BY <2>1 DEF Moves
    <2>3. Base(h', st, owner, q)
        BY <1>1, <2>2, BaseMoves
    <2> QED  BY <1>4, <1>6, <2>2, <2>3
<1>7. CASE /\ ~IsClosed(h, s) /\ h' = CloseBegin(h, s)
           /\ stack' = Push(Callback("on_close", s), Push(Fr("close", "closed", s, Null, {}), st))
    <2>1. Open(h, s) /\ h.type[s] # "listen"
        BY <1>7
    <2>2. Moves(h, Closes(st), owner, r, h', Closes(st) \cup {s}, owner, Mode)
        BY <1>2, <1>7, <2>1, CloseBeginMoves
    <2>3. PICK q : /\ Heaped(h', Closes(st) \cup {s}, owner, q, Mode)
                   /\ SweepKept(h, h', r, q) /\ Keeps(h, h')
        BY <2>2 DEF Moves
    <2>4. \A x \in Frames(st) : Waits(h', x, q)
        BY <1>1, <2>3, WaitsKept DEF Base
    <2>5. s \notin Closes(st)
        BY <1>2, <2>1 DEF Heaped, Stale, Dead, Open
    <2>6. h'.type[s] # "free"
        BY <2>1, <2>3 DEF Keeps, Open
    <2>7. PICK f : f = Fr("close", "closed", s, Null, {})
        OBVIOUS
    <2>8. f.op = "close" /\ f.pc = "closed" /\ f.s = s /\ f.c = Null /\ f \in Frame
        <3>1. f.op = "close" /\ f.pc = "closed" /\ f.s = s /\ f.c = Null
            BY <2>7 DEF Fr
        <3>2. "close" \in Ops /\ "closed" \in Pcs
            BY DEF Ops, Pcs
        <3>3. s \in SocketPtr /\ Null \in ContextPtr
            BY DEF SocketPtr, ContextPtr
        <3>4. {} \in SUBSET (Directions \cup Conditions)
            OBVIOUS
        <3>5. Fr("close", "closed", s, Null, {}) \in Frame
            BY <3>2, <3>3, <3>4, FrType
        <3> QED  BY <2>7, <3>1, <3>5
    <2>9. PICK x : x = Callback("on_close", s)
        OBVIOUS
    <2>10. x.op = "cb" /\ x.pc = "on_close" /\ x.s = s /\ x.c = Null
        BY <2>9 DEF Callback
    <2>11. Waits(h', f, q) /\ Waits(h', x, q)
        BY <2>6, <2>8, <2>10, AddressesDiffer DEF Waits, FrameAlive, Swept, Visiting
    <2>12. st # <<>> => Follows(f, Head(st))
        BY <2>8 DEF Calm, Follows
    <2>13. Shape(st)
        BY <1>1 DEF Base
    <2>14. Base(h', Push(f, st), owner, q)
        BY <2>3, <2>4, <2>5, <2>8, <2>11, <2>12, <2>13, BasePushClose
    <2>15. Push(f, st) \in Seq(Frame) /\ Push(f, st) # <<>> /\ Head(Push(f, st)) = f
        BY <2>8, PushType, PushTop
    <2>16. Follows(x, f) /\ x.op # "close"
        BY <2>8, <2>10 DEF Follows, CalledFrom
    <2>17. stack' = Push(x, Push(f, st))
        BY <1>7, <2>7, <2>9
    <2>18. Base(h', stack', owner, q)
        BY <2>11, <2>14, <2>15, <2>16, <2>17, BasePush
    <2>19. Head(stack') = x /\ Idle(x)
        BY <2>10, <2>15, <2>17, PushTop DEF Idle
    <2>20. Based(h', stack', owner')
        BY <2>18, <2>19, IdleRuns DEF Based
    <2>21. Frames(stack') = Frames(st) \cup {f, x}
        <3>1. Frames(Push(f, st)) = Frames(st) \cup {f}
            BY PushFrames
        <3>2. Frames(Push(x, Push(f, st))) = Frames(Push(f, st)) \cup {x}
            BY <2>15, PushFrames
        <3> QED  BY <2>17, <3>1, <3>2
    <2>22. LiterOK(h', stack')
        BY <1>3, <2>3, <2>21, LiterKept DEF Keeps
    <2>23. Unsent(h', unsent)
        BY <1>3, <2>3, UnsentKept
    <2>24. Written(stack', unsent, wfailed)
        BY <1>3, <2>8, <2>10, <2>21 DEF Written, Writing
    <2> QED  BY <2>20, <2>22, <2>23, <2>24 DEF LInv
<1> QED  BY <1>5, <1>6, <1>7 DEF SocketClose

\* What LInv says of the stack t but for the function that runs.
Under(g, t, own, r, un, wf) ==
    Base(g, t, own, r) /\ LiterOK(g, t) /\ Unsent(g, un) /\ Written(t, un, wf)

\* The invariant, with the rank named and the running function apart.
LEMMA Opened ==
    ASSUME IInv, LInv, stack # <<>>
    PROVE  \E r : Under(h, Push(Top, Rest), owner, r, unsent, wfailed) /\ Runs(h, Top, r)
<1>1. PICK r : Base(h, stack, owner, r) /\ Runs(h, Head(stack), r)
    BY DEF LInv, Based
<1>2. stack = Push(Top, Rest)
    BY Running
<1>3. Under(h, stack, owner, r, unsent, wfailed)
    BY <1>1 DEF LInv, Under
<1>4. Under(h, Push(Top, Rest), owner, r, unsent, wfailed)
    BY <1>2, <1>3
<1>5. Runs(h, Top, r)
    BY <1>1 DEF Top
<1> QED  BY <1>4, <1>5

\* A function returns.
LEMMA UnderPop ==
    ASSUME NEW g, NEW t \in Seq(Frame), NEW f, NEW own, NEW r, NEW un, NEW wf,
           Under(g, Push(f, t), own, r, un, wf), f.op # "close"
    PROVE  /\ Base(g, t, own, r) /\ Waits(g, f, r) /\ Unsent(g, un) /\ Written(t, un, wf)
           /\ f.op # "sweep" => Under(g, t, own, r, un, wf)
           /\ Writing(f) /\ f.s \in un => wf
           /\ t = <<>> => f.op \in {"tick", "cclose"}
           /\ t # <<>> => Follows(f, Head(t))
<1>1. Frames(Push(f, t)) = Frames(t) \cup {f}
    BY PushFrames
<1>2. Base(g, Push(f, t), own, r)
    BY DEF Under
<1>3. /\ Base(g, t, own, r) /\ Waits(g, f, r)
      /\ t = <<>> => f.op \in {"tick", "cclose"}
      /\ t # <<>> => Follows(f, Head(t))
    BY <1>2, BasePop
<1>4. Written(t, un, wf) /\ (Writing(f) /\ f.s \in un => wf)
    BY <1>1 DEF Under, Written
<1>5. f.op # "sweep" => LiterOK(g, t)
    BY <1>1 DEF Under, LiterOK
<1>6. Unsent(g, un)
    BY DEF Under
<1> QED  BY <1>3, <1>4, <1>5, <1>6 DEF Under

\* A function is called.
LEMMA UnderPush ==
    ASSUME NEW g, NEW t \in Seq(Frame), NEW f, NEW own, NEW r, NEW un, NEW wf,
           Under(g, t, own, r, un, wf), f.op # "close", Waits(g, f, r),
           Writing(f) /\ f.s \in un => wf,
           t = <<>> => f.op \in {"tick", "cclose"}, t # <<>> => Follows(f, Head(t))
    PROVE  Under(g, Push(f, t), own, r, un, wf)
<1>1. Frames(Push(f, t)) = Frames(t) \cup {f}
    BY PushFrames
<1>2. Base(g, t, own, r)
    BY DEF Under
<1>3. Base(g, Push(f, t), own, r)
    BY <1>2, BasePush
<1>4. Written(Push(f, t), un, wf)
    BY <1>1 DEF Under, Written
<1>5. LiterOK(g, Push(f, t))
    BY <1>1 DEF Under, LiterOK
<1> QED  BY <1>3, <1>4, <1>5 DEF Under

\* The invariant from its parts.
LEMMA Stands ==
    ASSUME NEW r, Under(h', stack', owner', r, unsent', wfailed'),
           stack' # <<>> => Runs(h', Head(stack'), r)
    PROVE  LInv'
    BY DEF Under, LInv, Based

\* The heap moves under the stack.
LEMMA UnderMoves ==
    ASSUME NEW g \in Heap, NEW t, NEW own, NEW r, NEW un \in SUBSET Sockets, NEW wf,
           Under(g, t, own, r, un, wf),
           NEW k, NEW p, NEW q, Heaped(k, Closes(t), p, q, Mode), SweepKept(g, k, r, q), Keeps(g, k)
    PROVE  Under(k, t, p, q, un, wf)
<1>1. Base(g, t, own, r) /\ LiterOK(g, t) /\ Unsent(g, un) /\ Written(t, un, wf)
    BY DEF Under
<1>2. Base(k, t, p, q)
    BY <1>1, BaseMoves
<1>3. LiterOK(k, t)
    BY <1>1, LiterKept DEF Keeps
<1>4. Unsent(k, un)
    BY <1>1, UnsentKept
<1> QED  BY <1>1, <1>2, <1>3, <1>4 DEF Under

\* The heap of a loop that stands on one tick may change in any way that keeps
\* it a heap.
LEMMA UnderFloor ==
    ASSUME NEW g, NEW t \in Seq(Frame), Floor(t), NEW own, NEW r, NEW un, NEW wf,
           Under(g, t, own, r, un, wf),
           NEW k, NEW p, NEW q, Heaped(k, {}, p, q, Mode), k.liter = g.liter,
           NEW vn, Unsent(k, vn), NEW wg
    PROVE  Under(k, t, p, q, vn, wg) /\ k.liter = Null
<1>1. Base(g, t, own, r) /\ LiterOK(g, t)
    BY DEF Under
<1>2. Base(k, t, p, q)
    BY <1>1, FloorStands
<1>3. Head(t).op = "tick" /\ \A x \in Frames(t) : x = Head(t)
    BY FloorBase
<1>4. LiterOK(k, t) /\ k.liter = Null
    BY <1>1, <1>3 DEF LiterOK
<1>5. Written(t, vn, wg)
    BY <1>3 DEF Written, Writing
<1> QED  BY <1>2, <1>4, <1>5 DEF Under

\* What a function of the tick stands on.
LEMMA OnFloor ==
    ASSUME IInv, stack # <<>>, NEW r, Under(h, Push(Top, Rest), owner, r, unsent, wfailed),
           Top.op \in {"dispatch", "accept", "sweep"}
    PROVE  Floor(Rest) /\ Head(Rest).op = "tick" /\ Rest # <<>> /\ Closes(stack) = {}
           /\ Closes(Rest) = {} /\ Heaped(h, {}, owner, r, Mode)
<1>1. Top \in Frame /\ Rest \in Seq(Frame) /\ stack = Push(Top, Rest)
    BY Running
<1>2. /\ Base(h, Rest, owner, r) /\ Rest # <<>> /\ Follows(Top, Head(Rest))
    BY <1>1, UnderPop
<1>3. Head(Rest).op = "tick"
    BY <1>2 DEF Follows
<1>4. Floor(Rest)
    BY <1>1, <1>2, <1>3, OnTick DEF Base
<1>5. Closes(Rest) = {}
    BY <1>1, <1>4, FloorBase
<1>6. Closes(Push(Top, Rest)) = Closes(Rest)
    BY <1>1, PushFrames
<1>7. Heaped(h, {}, owner, r, Mode)
    BY <1>2, <1>5 DEF Base
<1> QED  BY <1>1, <1>2, <1>3, <1>4, <1>5, <1>6, <1>7

\* A running tick is the whole stack.
LEMMA OnTop ==
    ASSUME IInv, stack # <<>>, NEW r, Under(h, Push(Top, Rest), owner, r, unsent, wfailed),
           Top.op = "tick"
    PROVE  Floor(stack) /\ Rest = <<>> /\ Heaped(h, {}, owner, r, Mode) /\ h.liter = Null
           /\ Under(h, stack, owner, r, unsent, wfailed)
<1>1. Top \in Frame /\ Rest \in Seq(Frame) /\ stack = Push(Top, Rest)
    BY Running
<1>2. stack \in Seq(Frame) /\ Head(stack).op = "tick"
    BY DEF IInv, TypeOK, Top
<1>3. Base(h, stack, owner, r)
    BY <1>1 DEF Under
<1>4. Floor(stack)
    BY <1>2, <1>3, OnTick DEF Base
<1>5. PICK t \in Frame : stack = Push(t, <<>>)
    BY <1>4 DEF Floor
<1>6. Rest = <<>>
    <2>1. Tail(Push(t, <<>>)) = <<>>
        <3>1. <<>> \in Seq(Frame)
            OBVIOUS
        <3>2. PICK e \in Seq(Frame) : e = <<>>
            BY <3>1
        <3>3. Tail(Push(t, e)) = e
            BY PushTop
        <3> QED  BY <3>2, <3>3
    <2> QED  BY <1>5, <2>1 DEF Rest
<1>7. Closes(stack) = {} /\ \A x \in Frames(stack) : x = Head(stack)
    BY <1>2, <1>4, FloorBase
<1>8. Heaped(h, {}, owner, r, Mode)
    BY <1>3, <1>7 DEF Base
<1>9. Under(h, stack, owner, r, unsent, wfailed)
    BY <1>1
<1>10. h.liter = Null
    BY <1>2, <1>7, <1>9 DEF Under, LiterOK
<1> QED  BY <1>4, <1>6, <1>8, <1>9, <1>10

-----------------------------------------------------------------------------
(* Closing sockets and contexts.                                           *)

LEMMA CloseReturnLoop ==
    ASSUME IInv, LInv, CloseReturn
    PROVE  LInv'
<1>1. /\ stack # <<>> /\ Top.op = "close" /\ h' = CloseEnd(h, Top.s) /\ stack' = Rest
      /\ owner' = owner /\ wfailed' = wfailed /\ unsent' = unsent
    BY DEF CloseReturn, At
<1>2. /\ Top \in Frame /\ Rest \in Seq(Frame) /\ FrameOK(Top) /\ stack = Push(Top, Rest)
      /\ Frames(stack) = Frames(Rest) \cup {Top}
    BY <1>1, Running
<1>3. Top.s \in Sockets
    BY <1>1, <1>2 DEF FrameOK
<1>4. PICK r : Under(h, Push(Top, Rest), owner, r, unsent, wfailed)
    BY <1>1, Opened
<1>5. Base(h, Push(Top, Rest), owner, r)
    BY <1>4 DEF Under
<1>6. /\ Shape(Rest) /\ \A x \in Frames(Rest) : Waits(h, x, r)
      /\ Heaped(h, Closes(stack), owner, r, Mode)
      /\ Top.s \in Closes(stack) /\ Closes(Rest) = Closes(stack) \ {Top.s}
      /\ Rest # <<>> => Follows(Top, Head(Rest))
    BY ZenonT(60), <1>1, <1>2, <1>3, <1>5, BasePopClose
<1>7. Moves(h, Closes(stack), owner, r, h', Closes(stack) \ {Top.s}, owner, Mode)
    BY <1>1, <1>6, CloseEndMoves
<1>8. PICK q : /\ Heaped(h', Closes(Rest), owner, q, Mode)
               /\ SweepKept(h, h', r, q) /\ Keeps(h, h')
    BY <1>6, <1>7 DEF Moves
<1>9. \A x \in Frames(Rest) : Waits(h', x, q)
    BY <1>6, <1>8, WaitsKept
<1>10. Base(h', Rest, owner, q)
    BY <1>6, <1>8, <1>9 DEF Base
<1>11. LiterOK(h, Rest) /\ Written(Rest, unsent, wfailed) /\ Unsent(h, unsent)
    BY <1>1, <1>2, <1>4 DEF Under, LiterOK, Written
<1>12. h \in Heap /\ unsent \in SUBSET Sockets
    BY DEF IInv, TypeOK
<1>13. LiterOK(h', Rest)
    BY <1>8, <1>11, <1>12, LiterKept DEF Keeps
<1>14. Unsent(h', unsent)
    BY <1>8, <1>11, <1>12, UnsentKept
<1>15. Rest # <<>> => Idle(Head(Rest))
    BY <1>1, <1>6 DEF Follows, Idle
<1>16. Rest # <<>> => Runs(h', Head(Rest), q)
    BY <1>15, IdleRuns
<1>17. Under(h', stack', owner', q, unsent', wfailed')
    BY <1>1, <1>10, <1>11, <1>13, <1>14 DEF Under
<1> QED  BY <1>1, <1>16, <1>17, Stands

LEMMA CCloseListenLoop ==
    ASSUME IInv, LInv, CCloseListen
    PROVE  LInv'
<1>1. /\ stack # <<>> /\ Top.op = "cclose" /\ Top.pc = "listening"
      /\ owner' = owner /\ wfailed' = wfailed /\ unsent' = unsent
    BY DEF CCloseListen, At
<1>2. /\ Top \in Frame /\ Rest \in Seq(Frame) /\ FrameOK(Top)
    BY <1>1, Running
<1>3. Top.c \in Contexts
    BY <1>1, <1>2 DEF FrameOK
<1>4. PICK r : Under(h, Push(Top, Rest), owner, r, unsent, wfailed) /\ Runs(h, Top, r)
    BY <1>1, Opened
<1>5. /\ Base(h, Rest, owner, r) /\ Waits(h, Top, r)
      /\ Under(h, Rest, owner, r, unsent, wfailed)
      /\ Rest # <<>> => Follows(Top, Head(Rest))
    BY <1>1, <1>2, <1>4, UnderPop
<1>6. Heaped(h, Closes(Rest), owner, r, Mode)
    BY <1>5 DEF Base
<1>7. Top.s = Null \/ Top.s \in Listening(h, Top.c)
    BY <1>1, <1>3, <1>4 DEF Runs
<1>8. h.state[Top.c] # "none"
    BY <1>3, <1>5 DEF Waits, FrameAlive
<1>9. h \in Heap /\ unsent \in SUBSET Sockets
    BY DEF IInv, TypeOK
<1>10. CASE Top.s = Null
    <2>1. stack' = Push([Top EXCEPT !.pc = "closing", !.s = h.head[Top.c]], Rest) /\ h' = h
        BY <1>10 DEF CCloseListen
    <2>2. PICK f : f = [Top EXCEPT !.pc = "closing", !.s = h.head[Top.c]]
        OBVIOUS
    <2>3. f.op = "cclose" /\ f.pc = "closing" /\ f.s = h.head[Top.c] /\ f.c = Top.c
        BY <1>1, <1>2, <2>2 DEF Frame
    <2>4. f.s # Null => f.s \in Regular(h, Top.c)
        BY <1>3, <1>6, <2>3 DEF Heaped, Lists, Threaded, Ordered
    <2>5. f.s \in Sockets => h.type[f.s] # "free" /\ h.type[f.s] # "listen"
        BY <2>4, AddressesDiffer DEF Regular, Open
    <2>6. Waits(h, f, r)
        BY <1>8, <2>3, <2>5 DEF Waits, FrameAlive, Swept, Visiting
    <2>7. Rest # <<>> => Follows(f, Head(Rest))
        BY <1>1, <1>5, <2>3 DEF Follows
    <2>8. Under(h, Push(f, Rest), owner, r, unsent, wfailed)
        BY <1>2, <1>5, <2>3, <2>6, <2>7, UnderPush DEF Writing
    <2>9. Head(stack') = f /\ Idle(f)
        BY <1>2, <2>1, <2>2, <2>3, PushTop DEF Idle
    <2>10. Runs(h, f, r)
        BY <2>9, IdleRuns
    <2> QED  BY <1>1, <2>1, <2>2, <2>8, <2>9, <2>10, Stands
<1>11. CASE Top.s # Null
    <2>1. h' = ListenClose(h, Top.s) /\ stack' = Push([Top EXCEPT !.s = h.next[Top.s]], Rest)
        BY <1>11 DEF CCloseListen
    <2>2. /\ Top.s \in Sockets /\ Open(h, Top.s) /\ h.type[Top.s] = "listen"
          /\ h.ctx[Top.s] = Top.c /\ Top.s \in Listening(h, Top.c)
        BY <1>7, <1>11 DEF Listening
    <2>3. /\ Moves(h, Closes(Rest), owner, r, h', Closes(Rest), owner, Mode)
          /\ h'.type = h.type /\ h'.ctx = h.ctx
          /\ \A t \in Sockets \ {Top.s} : IsClosed(h', t) => IsClosed(h, t)
        BY <1>6, <2>1, <2>2, ListenCloseMoves
    <2>4. PICK q : /\ Heaped(h', Closes(Rest), owner, q, Mode)
                   /\ SweepKept(h, h', r, q) /\ Keeps(h, h')
        BY <2>3 DEF Moves
    <2>5. Under(h', Rest, owner, q, unsent, wfailed)
        BY <1>5, <1>9, <2>4, UnderMoves
    <2>6. Top.s \notin Closes(Rest)
        BY <1>6, <2>2 DEF Heaped, Stale, Dead, Open
    <2>7. Lists(h, Closes(Rest), r)
        BY <1>6 DEF Heaped
    <2>8. h.ctx[Top.s] \in Contexts /\ Top.s \in Sockets \ Closes(Rest)
        BY <1>3, <2>2, <2>6
    <2>9. h.next[Top.s] # Null =>
             /\ h.next[Top.s] # Top.s
             /\ \A c \in Contexts : Top.s \in Listening(h, c) => h.next[Top.s] \in Listening(h, c)
        BY <2>2, <2>7, <2>8, NextListed
    <2>10. h.next[Top.s] # Null => h.next[Top.s] \in Listening(h', Top.c)
        BY <1>3, <2>2, <2>3, <2>9 DEF Listening, Open
    <2>11. PICK f : f = [Top EXCEPT !.s = h.next[Top.s]]
        OBVIOUS
    <2>12. f.op = "cclose" /\ f.pc = "listening" /\ f.s = h.next[Top.s] /\ f.c = Top.c
        BY <1>1, <1>2, <2>11 DEF Frame
    <2>13. f.s \in Sockets => h'.type[f.s] # "free"
        BY <2>10, <2>12, AddressesDiffer DEF Listening, Open
    <2>14. h'.state[Top.c] # "none"
        BY <1>3, <1>8, <2>4 DEF Keeps
    <2>15. Waits(h', f, q)
        BY <2>12, <2>13, <2>14 DEF Waits, FrameAlive, Swept, Visiting
    <2>16. Rest # <<>> => Follows(f, Head(Rest))
        BY <1>1, <1>5, <2>12 DEF Follows
    <2>17. Under(h', Push(f, Rest), owner, q, unsent, wfailed)
        BY <1>2, <2>5, <2>12, <2>15, <2>16, UnderPush DEF Writing
    <2>18. Head(stack') = f
        BY <1>2, <2>1, <2>11, PushTop
    <2>19. Runs(h', f, q)
        BY <2>10, <2>12 DEF Runs
    <2> QED  BY <1>1, <2>1, <2>11, <2>17, <2>18, <2>19, Stands
<1> QED  BY <1>10, <1>11

\* The successor of a socket that is not a listener that is open.
LEMMA SuccessorAlive ==
    ASSUME NEW K, NEW own, NEW r, NEW g, Heaped(g, K, own, r, Mode), NEW s \in Sockets,
           g.type[s] # "free", g.type[s] = "listen" => IsClosed(g, s), g.next[s] # Null
    PROVE  /\ g.type[g.next[s]] # "free"
           /\ g.type[g.next[s]] = "listen" => IsClosed(g, g.next[s])
<1>1. Lists(g, K, r) /\ Stale(g, K) /\ Sound(g)
    BY DEF Heaped
<1>2. g.ctx[s] \in Contexts
    BY <1>1 DEF Sound
<1>3. CASE s \in K
    BY <1>1, <1>3 DEF Stale
<1>4. CASE s \notin K /\ IsClosed(g, s)
    <2>1. s \in Dead(g) \ K
        BY <1>4 DEF Dead
    <2>2. g.next[s] \in Dead(g)
        BY <1>1, <2>1 DEF Lists, Ordered
    <2> QED  BY <2>2 DEF Dead
<1>5. CASE s \notin K /\ ~IsClosed(g, s)
    <2>1. Open(g, s) /\ g.type[s] # "listen"
        BY <1>5 DEF Open
    <2>2. s \in Sockets \ K
        BY <1>5
    <2>3. Open(g, g.next[s]) /\ (g.type[g.next[s]] = "listen" <=> g.type[s] = "listen")
        BY <1>1, <1>2, <2>1, <2>2, NextListed
    <2> QED  BY <2>1, <2>3 DEF Open
<1> QED  BY <1>3, <1>4, <1>5

LEMMA CCloseSocketLoop ==
    ASSUME IInv, LInv, CCloseSocket
    PROVE  LInv'
<1>1. /\ stack # <<>> /\ Top.op = "cclose" /\ Top.pc = "closing"
      /\ owner' = owner /\ wfailed' = wfailed /\ unsent' = unsent
    BY DEF CCloseSocket, At
<1>2. /\ Top \in Frame /\ Rest \in Seq(Frame) /\ FrameOK(Top) /\ Top.s \in SocketPtr
    BY <1>1, Running DEF Frame
<1>3. Top.c \in Contexts
    BY <1>1, <1>2 DEF FrameOK
<1>4. PICK r : Under(h, Push(Top, Rest), owner, r, unsent, wfailed) /\ Runs(h, Top, r)
    BY <1>1, Opened
<1>5. /\ Base(h, Rest, owner, r) /\ Waits(h, Top, r)
      /\ Under(h, Rest, owner, r, unsent, wfailed)
      /\ Rest # <<>> => Follows(Top, Head(Rest))
    BY <1>1, <1>2, <1>4, UnderPop
<1>6. Heaped(h, Closes(Rest), owner, r, Mode)
    BY <1>5 DEF Base
<1>7. h.state[Top.c] # "none"
    BY <1>3, <1>5 DEF Waits, FrameAlive
<1>8. CASE Top.s = Null
    <2>1. stack' = Rest /\ h' = h
        BY <1>8 DEF CCloseSocket
    <2>2. Rest # <<>> => Idle(Head(Rest))
        BY <1>1, <1>5 DEF Follows, Idle
    <2>3. Rest # <<>> => Runs(h, Head(Rest), r)
        BY <2>2, IdleRuns
    <2> QED  BY <1>1, <1>5, <2>1, <2>3, Stands
<1>9. CASE Top.s # Null
    <2>1. SocketClose(Top.s, Push([Top EXCEPT !.s = h.next[Top.s]], Rest))
        BY <1>9 DEF CCloseSocket
    <2>2. /\ Top.s \in Sockets /\ h.type[Top.s] # "free"
          /\ h.type[Top.s] = "listen" => IsClosed(h, Top.s)
        BY <1>1, <1>2, <1>5, <1>9 DEF SocketPtr, Waits, FrameAlive, Visiting
    <2>3. PICK f : f = [Top EXCEPT !.s = h.next[Top.s]]
        OBVIOUS
    <2>4. f.op = "cclose" /\ f.pc = "closing" /\ f.s = h.next[Top.s] /\ f.c = Top.c
        BY <1>1, <1>2, <2>3 DEF Frame
    <2>5. f \in Frame
        <3>1. h.next[Top.s] \in SocketPtr
            BY <2>2 DEF IInv, TypeOK, Heap
        <3> QED  BY <1>2, <2>3, <3>1 DEF Frame
    <2>6. f.s \in Sockets => /\ h.type[f.s] # "free"
                             /\ h.type[f.s] = "listen" => IsClosed(h, f.s)
        BY <1>6, <2>2, <2>4, SuccessorAlive, AddressesDiffer
    <2>7. Waits(h, f, r)
        BY <1>7, <2>4, <2>6 DEF Waits, FrameAlive, Swept, Visiting
    <2>8. Rest # <<>> => Follows(f, Head(Rest))
        BY <1>1, <1>5, <2>4 DEF Follows
    <2>9. Under(h, Push(f, Rest), owner, r, unsent, wfailed)
        BY <1>2, <1>5, <2>4, <2>7, <2>8, UnderPush DEF Writing
    <2>10. PICK st : st = Push(f, Rest)
        OBVIOUS
    <2>11. st \in Seq(Frame) /\ Head(st) = f
        BY <1>2, <2>5, <2>10, PushType, PushTop
    <2>12. Resting(h, st, owner, unsent, wfailed)
        BY <2>9, <2>10 DEF Resting, Under
    <2>13. Calm(st)
        BY <2>4, <2>11 DEF Calm
    <2>14. SocketClose(Top.s, st)
        BY <2>1, <2>3, <2>10
    <2>15. ~IsClosed(h, Top.s) => Open(h, Top.s) /\ h.type[Top.s] # "listen"
        BY <2>2 DEF Open
    <2> QED  BY <1>1, <2>2, <2>11, <2>12, <2>13, <2>14, <2>15, SocketCloseLoop
<1> QED  BY <1>8, <1>9

-----------------------------------------------------------------------------
(* The tick.                                                               *)

\* A function goes on at another point.
LEMMA Relabel ==
    ASSUME NEW g, NEW t \in Seq(Frame), NEW f, NEW e, NEW own, NEW r, NEW un, NEW wf,
           Under(g, Push(f, t), own, r, un, wf), f.op \notin {"cb", "close"}, e.op = f.op,
           Waits(g, e, r), Writing(e) /\ e.s \in un => wf
    PROVE  Under(g, Push(e, t), own, r, un, wf)
<1>1. Frames(Push(f, t)) = Frames(t) \cup {f} /\ Frames(Push(e, t)) = Frames(t) \cup {e}
    BY PushFrames
<1>2. /\ Base(g, t, own, r) /\ Unsent(g, un) /\ Written(t, un, wf)
      /\ t = <<>> => f.op \in {"tick", "cclose"}
      /\ t # <<>> => Follows(f, Head(t))
    BY UnderPop
<1>3. t # <<>> => Follows(e, Head(t))
    BY <1>2 DEF Follows
<1>4. Base(g, Push(e, t), own, r)
    BY <1>2, <1>3, BasePush
<1>5. LiterOK(g, Push(e, t))
    BY <1>1 DEF Under, LiterOK
<1>6. Written(Push(e, t), un, wf)
    BY <1>1, <1>2 DEF Written
<1> QED  BY <1>2, <1>4, <1>5, <1>6 DEF Under

\* The same heap but for what epoll has reported.
LEMMA Reported ==
    ASSUME NEW g \in Heap, Sound(g), SameBut(g, h, {"ready", "liter"}), IInv,
           NEW K, NEW own, NEW r, Heaped(h, K, own, r, Mode), NEW un, Unsent(h, un)
    PROVE  Heaped(g, K, own, r, Mode) /\ Unsent(g, un)
<1>1. /\ g.type = h.type /\ g.poll = h.poll /\ g.ctx = h.ctx /\ g.prev = h.prev /\ g.low = h.low
    BY DEF SameBut, Fields
<1>2. SameBut(g, h, QuietFields)
    BY DEF SameBut, QuietFields
<1>3. Quiet(g, h)
    BY <1>1, <1>2 DEF Quiet
<1>4. Modes(g, Mode)
    <2>1. Modes(h, Mode)
        BY DEF Heaped
    <2>2. \A s \in Sockets : Open(g, s) <=> Open(h, s)
        BY <1>1 DEF Open, IsClosed
    <2> QED  BY <1>1, <2>1, <2>2 DEF Modes
<1>5. Heaped(g, K, own, r, Mode)
    BY <1>3, <1>4, QuietHeap
<1> QED  BY <1>1, <1>5 DEF Unsent

LEMMA HandleLowPrioLoop ==
    ASSUME IInv, LInv, HandleLowPrio
    PROVE  LInv'
<1>1. /\ stack # <<>> /\ Top.op = "tick"
      /\ owner' = owner /\ wfailed' = wfailed /\ unsent' = unsent
    BY DEF HandleLowPrio, At
<1>2. Top \in Frame /\ Rest \in Seq(Frame) /\ stack = Push(Top, Rest)
    BY <1>1, Running
<1>3. PICK r : Under(h, Push(Top, Rest), owner, r, unsent, wfailed)
    BY <1>1, Opened
<1>4. /\ Floor(stack) /\ Rest = <<>> /\ Heaped(h, {}, owner, r, Mode) /\ h.liter = Null
      /\ Under(h, stack, owner, r, unsent, wfailed)
    BY <1>1, <1>3, OnTop
<1>5. CASE h.lowHead # Null /\ h' = ServeQueue(h) /\ stack' = stack
    <2>1. /\ h'.liter = h.liter /\ \E q : Heaped(h', {}, owner, q, Mode)
          /\ h'.type = h.type
          /\ \A t \in Sockets : "W" \in h.poll[t] => "W" \in h'.poll[t]
        BY <1>4, <1>5, ServeQueueHeap
    <2>2. PICK q : Heaped(h', {}, owner, q, Mode)
        BY <2>1
    <2>3. Unsent(h', unsent)
        BY <1>4, <2>1 DEF Under, Unsent, IInv, TypeOK
    <2>4. stack \in Seq(Frame)
        BY DEF IInv, TypeOK
    <2>5. Under(h', stack, owner, q, unsent, wfailed)
        BY <1>4, <2>1, <2>2, <2>3, <2>4, UnderFloor
    <2>6. Idle(Head(stack))
        BY <1>1 DEF Idle, Top
    <2>7. Runs(h', Head(stack), q)
        BY <2>6, IdleRuns
    <2> QED  BY <1>1, <1>5, <2>5, <2>7, Stands
<1>6. CASE stack' = Push(Callback("pre", Null), Goto("wait")) /\ h' = h
    <2>1. PICK f : f = [Top EXCEPT !.pc = "wait"]
        OBVIOUS
    <2>2. f.op = "tick" /\ f.pc = "wait" /\ f.s = Top.s /\ f.c = Top.c
        BY <1>1, <1>2, <2>1 DEF Frame
    <2>3. f \in Frame
        <3>1. "wait" \in Pcs
            BY DEF Pcs
        <3> QED  BY <1>2, <2>1, <3>1 DEF Frame
    <2>4. Waits(h, Top, r)
        BY <1>1, <1>2, <1>3, UnderPop
    <2>5. Waits(h, f, r)
        BY <1>1, <2>2, <2>4 DEF Waits, FrameAlive, Swept, Visiting
    <2>6. Under(h, Push(f, Rest), owner, r, unsent, wfailed)
        BY <1>1, <1>2, <1>3, <2>2, <2>5, Relabel DEF Writing
    <2>7. PICK x : x = Callback("pre", Null)
        OBVIOUS
    <2>8. x.op = "cb" /\ x.pc = "pre" /\ x.s = Null /\ x.c = Null
        BY <2>7 DEF Callback
    <2>9. Waits(h, x, r)
        BY <2>8, AddressesDiffer DEF Waits, FrameAlive, Swept, Visiting
    <2>10. PICK t : t = Push(f, Rest)
        OBVIOUS
    <2>11. t \in Seq(Frame) /\ t # <<>> /\ Head(t) = f
        BY <1>2, <2>3, <2>10, PushType, PushTop
    <2>12. Follows(x, Head(t))
        BY <2>2, <2>8, <2>11 DEF Follows, CalledFrom
    <2>13. Under(h, t, owner, r, unsent, wfailed)
        BY <2>6, <2>10
    <2>14. Under(h, Push(x, t), owner, r, unsent, wfailed)
        BY <2>8, <2>9, <2>11, <2>12, <2>13, UnderPush DEF Writing
    <2>15. stack' = Push(x, t)
        BY <1>6, <2>1, <2>7, <2>10 DEF Goto
    <2>16. Head(stack') = x /\ Idle(x)
        BY <2>8, <2>11, <2>15, PushTop DEF Idle
    <2>17. Runs(h, x, r)
        BY <2>16, IdleRuns
    <2> QED  BY <1>1, <1>6, <2>14, <2>15, <2>16, <2>17, Stands
<1> QED  BY <1>5, <1>6 DEF HandleLowPrio

LEMMA WaitLoop ==
    ASSUME IInv, IInv', LInv, Wait
    PROVE  LInv'
<1>1. /\ stack # <<>> /\ Top.op = "tick" /\ stack' = Goto("poll")
      /\ owner' = owner /\ wfailed' = wfailed /\ unsent' = unsent
    BY DEF Wait, At
<1>2. Top \in Frame /\ Rest \in Seq(Frame) /\ stack = Push(Top, Rest) /\ stack \in Seq(Frame)
    BY <1>1, Running DEF IInv, TypeOK
<1>3. PICK r : Under(h, Push(Top, Rest), owner, r, unsent, wfailed)
    BY <1>1, Opened
<1>4. /\ Floor(stack) /\ Rest = <<>> /\ Heaped(h, {}, owner, r, Mode) /\ h.liter = Null
      /\ Under(h, stack, owner, r, unsent, wfailed)
    BY <1>1, <1>3, OnTop
<1>5. h' \in Heap /\ Sound(h') /\ h \in Heap
    BY DEF IInv, TypeOK
<1>6. PICK e : h' = [h EXCEPT !.ready = e]
    BY DEF Wait
<1>7. SameBut(h', h, {"ready", "liter"}) /\ h'.liter = h.liter
    <2>1. DOMAIN h = Fields
        BY <1>5, HeapFields
    <2> QED  BY <1>6, <2>1 DEF SameBut, Fields
<1>8. Heaped(h', {}, owner, r, Mode) /\ Unsent(h', unsent)
    BY <1>4, <1>5, <1>7, Reported DEF Under
<1>9. Under(h', stack, owner, r, unsent, wfailed)
    BY <1>2, <1>4, <1>7, <1>8, UnderFloor
<1>10. Under(h', Push(Top, Rest), owner, r, unsent, wfailed)
    BY <1>2, <1>9
<1>11. PICK f : f = [Top EXCEPT !.pc = "poll"]
    OBVIOUS
<1>12. f.op = "tick" /\ f.pc = "poll" /\ f.s = Top.s /\ f.c = Top.c
    BY <1>1, <1>2, <1>11 DEF Frame
<1>13. Waits(h', Top, r)
    BY <1>1, <1>2, <1>10, UnderPop
<1>14. Waits(h', f, r)
    BY <1>1, <1>12, <1>13 DEF Waits, FrameAlive, Swept, Visiting
<1>15. Under(h', Push(f, Rest), owner, r, unsent, wfailed)
    BY <1>1, <1>2, <1>10, <1>12, <1>14, Relabel DEF Writing
<1>16. stack' = Push(f, Rest)
    BY <1>1, <1>11 DEF Goto
<1>17. Head(stack') = f /\ Idle(f)
    BY <1>2, <1>12, <1>16, PushTop DEF Idle
<1>18. Runs(h', f, r)
    BY <1>17, IdleRuns
<1> QED  BY <1>1, <1>15, <1>16, <1>17, <1>18, Stands

LEMMA DispatchTimerLoop ==
    ASSUME IInv, IInv', LInv, DispatchTimer
    PROVE  LInv'
<1>1. /\ stack # <<>> /\ Top.op = "tick" /\ h' = [h EXCEPT !.liter = h.chead]
      /\ stack' = Push(Fr("sweep", "context", Null, Null, {}), stack)
      /\ owner' = owner /\ wfailed' = wfailed /\ unsent' = unsent
    BY DEF DispatchTimer, At
<1>2. Top \in Frame /\ Rest \in Seq(Frame) /\ stack = Push(Top, Rest) /\ stack \in Seq(Frame)
    BY <1>1, Running DEF IInv, TypeOK
<1>3. PICK r : Under(h, Push(Top, Rest), owner, r, unsent, wfailed)
    BY <1>1, Opened
<1>4. /\ Floor(stack) /\ Heaped(h, {}, owner, r, Mode)
      /\ Under(h, stack, owner, r, unsent, wfailed)
    BY <1>1, <1>3, OnTop
<1>5. h' \in Heap /\ Sound(h') /\ h \in Heap
    BY DEF IInv, TypeOK
<1>6. SameBut(h', h, {"ready", "liter"}) /\ h'.liter = h.chead /\ h'.state = h.state
    <2>1. DOMAIN h = Fields
        BY <1>5, HeapFields
    <2> QED  BY <1>1, <2>1 DEF SameBut, Fields
<1>7. Heaped(h', {}, owner, r, Mode) /\ Unsent(h', unsent)
    BY <1>4, <1>5, <1>6, Reported DEF Under
<1>8. Base(h', stack, owner, r)
    BY <1>2, <1>4, <1>7, FloorStands DEF Under
<1>9. PICK f : f = Fr("sweep", "context", Null, Null, {})
    OBVIOUS
<1>10. f.op = "sweep" /\ f.pc = "context" /\ f.s = Null /\ f.c = Null
    BY <1>9 DEF Fr
<1>11. Waits(h', f, r)
    BY <1>10, AddressesDiffer DEF Waits, FrameAlive, Swept, Visiting
<1>12. Follows(f, Head(stack))
    BY <1>1, <1>10 DEF Follows, Top
<1>13. Base(h', Push(f, stack), owner, r)
    BY <1>1, <1>2, <1>8, <1>10, <1>11, <1>12, BasePush
<1>14. Frames(Push(f, stack)) = Frames(stack) \cup {f}
    BY <1>2, PushFrames
<1>15. LiterOK(h', Push(f, stack))
    <2>1. h.chead # Null => h.state[h.chead] = "live"
        BY <1>4, LiveLinks DEF Heaped, ContextsOK
    <2> QED  BY <1>6, <1>10, <1>14, <2>1 DEF LiterOK
<1>16. Written(Push(f, stack), unsent, wfailed)
    BY <1>4, <1>10, <1>14 DEF Under, Written, Writing
<1>17. Under(h', Push(f, stack), owner, r, unsent, wfailed)
    BY <1>7, <1>13, <1>15, <1>16 DEF Under
<1>18. stack' = Push(f, stack) /\ Head(Push(f, stack)) = f /\ Idle(f)
    BY <1>1, <1>2, <1>9, <1>10, PushTop DEF Idle
<1>19. Runs(h', f, r)
    BY <1>18, IdleRuns
<1> QED  BY <1>1, <1>17, <1>18, <1>19, Stands

LEMMA PostLoop ==
    ASSUME IInv, LInv, Post
    PROVE  LInv'
<1>1. /\ stack # <<>> /\ Top.op = "tick" /\ h' = FreeClosed(h) /\ stack' = Rest
      /\ unsent' = {s \in unsent : h'.type[s] # "free"}
      /\ owner' = owner /\ \A s \in Sockets : h.ready[s] = {}
    BY DEF Post, At
<1>2. PICK r : Under(h, Push(Top, Rest), owner, r, unsent, wfailed)
    BY <1>1, Opened
<1>3. /\ Rest = <<>> /\ Heaped(h, {}, owner, r, Mode) /\ h.liter = Null
      /\ Unsent(h, unsent)
    BY <1>1, <1>2, OnTop DEF Under
<1>4. /\ h'.liter = h.liter /\ Heaped(h', {}, owner, r, Mode)
      /\ \A s \in Sockets : h'.type[s] = "free" \/ (h'.type[s] = h.type[s] /\ h'.poll[s] = h.poll[s])
    <2>1. PICK m : m = Mode
        OBVIOUS
    <2>2. PICK g : g = FreeClosed(h)
        OBVIOUS
    <2>3. Heaped(h, {}, owner, r, m) /\ \A s \in Sockets : h.ready[s] = {}
        BY <1>1, <1>3, <2>1
    <2>4. g.liter = h.liter /\ Heaped(g, {}, owner, r, m)
        BY <2>2, <2>3, FreeClosedHeap
    <2>5. Remains(h, g)
        BY <2>2, <2>3, FreeClosedHeap
    <2> QED  BY <1>1, <2>1, <2>2, <2>4, <2>5 DEF Remains
<1>5. Frames(<<>>) = {} /\ Closes(<<>>) = {}
    BY DEF Frames, Closes
<1>6. Base(h', <<>>, owner, r)
    BY <1>4, <1>5, ShapeEmpty DEF Base
<1>7. unsent \subseteq Sockets
    BY DEF IInv, TypeOK
<1>8. Unsent(h', unsent')
    BY <1>1, <1>3, <1>4, <1>7 DEF Unsent
<1>9. LiterOK(h', <<>>) /\ Written(<<>>, unsent', wfailed')
    BY <1>3, <1>4, <1>5 DEF LiterOK, Written
<1>10. Under(h', stack', owner', r, unsent', wfailed')
    BY <1>1, <1>3, <1>6, <1>8, <1>9 DEF Under
<1> QED  BY <1>1, <1>3, <1>10, Stands

LEMMA TickLoop ==
    ASSUME Tame, IInv, LInv, Tick
    PROVE  LInv'
<1>1. stack = <<>>
    BY DEF Tame, Tick, MayCall
<1>2. /\ stack' = Push(Fr("tick", "lowprio", Null, Null, {}), stack)
      /\ h' = h /\ owner' = owner /\ wfailed' = wfailed /\ unsent' = unsent
    BY <1>1 DEF Tick, TickStart, Caller
<1>3. PICK r : Under(h, stack, owner, r, unsent, wfailed)
    BY DEF LInv, Based, Under
<1>4. stack \in Seq(Frame)
    BY DEF IInv, TypeOK
<1>5. PICK f : f = Fr("tick", "lowprio", Null, Null, {})
    OBVIOUS
<1>6. f.op = "tick" /\ f.pc = "lowprio" /\ f.s = Null /\ f.c = Null
    BY <1>5 DEF Fr
<1>7. Waits(h, f, r)
    BY <1>6, AddressesDiffer DEF Waits, FrameAlive, Swept, Visiting
<1>8. Under(h, Push(f, stack), owner, r, unsent, wfailed)
    BY <1>1, <1>3, <1>4, <1>6, <1>7, UnderPush DEF Writing
<1>9. Head(Push(f, stack)) = f /\ Idle(f)
    BY <1>4, <1>6, PushTop DEF Idle
<1>10. Runs(h, f, r)
    BY <1>9, IdleRuns
<1> QED  BY <1>2, <1>5, <1>8, <1>9, <1>10, Stands

-----------------------------------------------------------------------------
(* The dispatch of a ready poll.                                           *)

\* A function that is called runs.
LEMMA Entered ==
    ASSUME NEW t \in Seq(Frame), NEW r, Under(h', t, owner', r, unsent', wfailed'), t # <<>>,
           NEW f, f.op # "close", stack' = Push(f, t), Follows(f, Head(t)),
           Waits(h', f, r), Runs(h', f, r), Writing(f) /\ f.s \in unsent' => wfailed'
    PROVE  LInv'
<1>1. Under(h', Push(f, t), owner', r, unsent', wfailed')
    BY UnderPush
<1>2. Head(Push(f, t)) = f
    BY PushTop
<1> QED  BY <1>1, <1>2, Stands

\* The callbacks that a tick, an accept loop or a dispatch makes.
LEMMA CalledBack ==
    ASSUME NEW name, NEW s, NEW x, x = Callback(name, s)
    PROVE  /\ x.op = "cb" /\ x.pc = name /\ x.s = s /\ x.c = Null
           /\ \A g, r : Runs(g, x, r)
           /\ \A g, r : (s \in Sockets => /\ g.type[s] # "free"
                                          /\ name \in {"on_data", "on_end", "on_writable"}
                                               => g.type[s] \in {"socket", "shut"})
                        => Waits(g, x, r)
<1>1. x.op = "cb" /\ x.pc = name /\ x.s = s /\ x.c = Null
    BY DEF Callback
<1>2. \A g, r : Runs(g, x, r)
    BY <1>1, IdleRuns DEF Idle
<1> QED  BY <1>1, <1>2, AddressesDiffer DEF Waits, FrameAlive, Swept, Visiting

\* A connecting socket is polled for reading once it has connected.
Connected(k, g, s) ==
    k = [PollChange([g EXCEPT !.ready[s] = {}], s, {"R"})
            EXCEPT !.type[s] = "socket", !.due[s] = @ \ {"short"}]

\* ... and it stays on its list.
LEMMA ConnectedHeap ==
    ASSUME NEW g, NEW own, NEW r, Heaped(g, {}, own, r, Mode), NEW s \in Sockets,
           Open(g, s), g.type[s] = "semi", NEW un \in SUBSET Sockets, Unsent(g, un),
           NEW k, Connected(k, g, s), Sound(k)
    PROVE  /\ Heaped(k, {}, own, r, Mode) /\ Unsent(k, un) /\ k.liter = g.liter
           /\ k.type[s] = "socket"
<1>1. g \in Heap /\ Sound(g) /\ Modes(g, Mode) /\ k \in Heap
    BY DEF Heaped, Sound
<1>2. DOMAIN g = Fields
    BY <1>1, HeapFields
<1>3. k = [[g EXCEPT !.ready[s] = {}] EXCEPT !.poll[s] = {"R"}, !.type[s] = "socket",
                                            !.due[s] = @ \ {"short"}]
    BY DEF Connected, PollChange
<1>4. /\ SameBut(k, g, {"ready", "poll", "type", "due"})
      /\ k.type = [g.type EXCEPT ![s] = "socket"] /\ k.poll = [g.poll EXCEPT ![s] = {"R"}]
    BY <1>2, <1>3 DEF SameBut, Fields
<1>5. /\ k.ctx = g.ctx /\ k.prev = g.prev /\ k.low = g.low /\ k.liter = g.liter
      /\ SameBut(k, g, QuietFields)
    BY <1>4 DEF SameBut, Fields, QuietFields
<1>6. g.type \in [Sockets -> PollTypes] /\ g.poll \in [Sockets -> SUBSET Directions]
    BY <1>1 DEF Heap
<1>7. /\ k.type[s] = "socket" /\ k.poll[s] = {"R"}
      /\ \A t \in Sockets \ {s} : k.type[t] = g.type[t] /\ k.poll[t] = g.poll[t]
    BY <1>4, <1>6
<1>8. Quiet(k, g)
    BY <1>1, <1>5, <1>7 DEF Quiet
<1>9. Modes(k, Mode)
    <2>1. g.low[s] # 1
        BY <1>1 DEF Modes
    <2>2. \A t \in Sockets : Open(k, t) <=> Open(g, t)
        BY <1>5, <1>7 DEF Open, IsClosed
    <2>3. ASSUME NEW t \in Sockets, Open(k, t)
          PROVE  /\ Mode.plain => k.low[t] = 0
                 /\ k.low[t] = 1 => k.type[t] \in {"socket", "shut"} /\ "R" \notin k.poll[t]
                 /\ k.type[t] = "listen" => k.poll[t] = {"R"}
        <3>1. CASE t = s
            <4>1. Mode.plain => g.low[s] = 0
                BY <1>1 DEF Modes
            <4> QED  BY <1>5, <1>7, <2>1, <3>1, <4>1
        <3>2. CASE t # s
            <4>1. Open(g, t) /\ k.type[t] = g.type[t] /\ k.poll[t] = g.poll[t] /\ k.low[t] = g.low[t]
                BY <1>5, <1>7, <2>2, <2>3, <3>2
            <4> QED  BY <1>1, <4>1 DEF Modes
        <3> QED  BY <3>1, <3>2
    <2> QED  BY <2>3 DEF Modes
<1>10. Heaped(k, {}, own, r, Mode)
    BY <1>8, <1>9, QuietHeap
<1>11. Unsent(k, un)
    BY <1>7 DEF Unsent
<1> QED  BY <1>5, <1>7, <1>10, <1>11

LEMMA DispatchPollLoop ==
    ASSUME IInv, IInv', LInv, NEW s \in Sockets, DispatchPoll(s)
    PROVE  LInv'
<1>1. /\ stack # <<>> /\ Top.op = "tick" /\ h.ready[s] # {}
      /\ owner' = owner /\ wfailed' = wfailed /\ unsent' = unsent
    BY DEF DispatchPoll, At
<1>2. Top \in Frame /\ Rest \in Seq(Frame) /\ stack = Push(Top, Rest) /\ stack \in Seq(Frame)
    BY <1>1, Running DEF IInv, TypeOK
<1>3. PICK r : Under(h, Push(Top, Rest), owner, r, unsent, wfailed)
    BY <1>1, Opened
<1>4. /\ Floor(stack) /\ Rest = <<>> /\ Heaped(h, {}, owner, r, Mode) /\ h.liter = Null
      /\ Under(h, stack, owner, r, unsent, wfailed)
    BY <1>1, <1>3, OnTop
<1>5. h' \in Heap /\ Sound(h') /\ h \in Heap /\ Sound(h) /\ Unsent(h, unsent)
    BY <1>4 DEF IInv, TypeOK, Under
<1>6. Open(h, s)
    BY <1>1, <1>5 DEF Sound
<1>7. PICK g : g = [h EXCEPT !.ready[s] = {}]
    OBVIOUS
<1>8. PICK ev : ev = (h.ready[s] \cap h.poll[s]) \cup (h.ready[s] \cap Conditions)
    OBVIOUS
<1>9. ASSUME h' = g
      PROVE  /\ Under(h', stack, owner, r, unsent, wfailed)
             /\ h'.type = h.type /\ h'.low = h.low /\ h'.poll = h.poll
             /\ \A t \in Sockets : Open(h', t) <=> Open(h, t)
    <2>1. DOMAIN h = Fields
        BY <1>5, HeapFields
    <2>2. SameBut(h', h, {"ready", "liter"}) /\ h'.liter = h.liter
        BY <1>7, <1>9, <2>1 DEF SameBut, Fields
    <2>3. Heaped(h', {}, owner, r, Mode) /\ Unsent(h', unsent)
        BY <1>4, <1>5, <2>2, Reported
    <2>4. Under(h', stack, owner, r, unsent, wfailed)
        BY <1>2, <1>4, <2>2, <2>3, UnderFloor
    <2>5. h'.type = h.type /\ h'.low = h.low /\ h'.poll = h.poll /\ h'.ctx = h.ctx /\ h'.prev = h.prev
        BY <2>2 DEF SameBut, Fields
    <2> QED  BY <2>4, <2>5 DEF Open, IsClosed
<1>10. CASE h' = g /\ stack' = stack
    <2>1. Idle(Head(stack))
        BY <1>1 DEF Idle, Top
    <2>2. Runs(h', Head(stack), r)
        BY <2>1, IdleRuns
    <2> QED  BY <1>1, <1>9, <1>10, <2>2, Stands
<1>11. CASE /\ h.type[s] \in {"listen", "semi"} /\ h' = g
            /\ stack' = Push(Fr("accept", "accept", s, Null, {}), stack)
    <2>1. PICK f : f = Fr("accept", "accept", s, Null, {})
        OBVIOUS
    <2>2. f.op = "accept" /\ f.pc = "accept" /\ f.s = s /\ f.c = Null
        BY <2>1 DEF Fr
    <2>3. Waits(h', f, r)
        BY <1>9, <1>11, <2>2, AddressesDiffer DEF Waits, FrameAlive, Swept, Visiting
    <2>4. Runs(h', f, r)
        BY <2>2, IdleRuns DEF Idle
    <2>5. Follows(f, Head(stack))
        BY <1>1, <2>2 DEF Follows, Top
    <2>6. Under(h', stack, owner', r, unsent', wfailed')
        BY <1>1, <1>9, <1>11
    <2> QED  BY <1>1, <1>2, <1>11, <2>1, <2>2, <2>3, <2>4, <2>5, <2>6, Entered DEF Writing
<1>12. CASE h' = g /\ stack' = Push(Callback("on_connect_error", s), stack)
    <2>1. PICK x : x = Callback("on_connect_error", s)
        OBVIOUS
    <2>2. h'.type[s] # "free"
        BY <1>6, <1>9, <1>12 DEF Open
    <2>3. x.op = "cb" /\ x.pc = "on_connect_error" /\ Runs(h', x, r) /\ Waits(h', x, r)
        BY <2>1, <2>2, CalledBack
    <2>4. Follows(x, Head(stack))
        BY <1>1, <2>3 DEF Follows, CalledFrom, Top
    <2>5. Under(h', stack, owner', r, unsent', wfailed')
        BY <1>1, <1>9, <1>12
    <2> QED  BY <1>1, <1>2, <1>12, <2>1, <2>3, <2>4, <2>5, Entered DEF Writing
<1>13. CASE /\ h.type[s] \in {"listen", "semi"} /\ h.poll[s] = {"W"}
            /\ h' = [PollChange(g, s, {"R"}) EXCEPT !.type[s] = "socket", !.due[s] = @ \ {"short"}]
            /\ stack' = Push(Callback("on_open", s), stack)
    <2>1. h.type[s] = "semi"
        BY <1>4, <1>6, <1>13 DEF Heaped, Modes
    <2>2. PICK k : k = h'
        OBVIOUS
    <2>3. Sound(k)
        BY <1>5, <2>2
    <2>4. Connected(k, h, s) /\ unsent \in SUBSET Sockets
        BY <1>7, <1>13, <2>2 DEF Connected, IInv, TypeOK
    <2>5. /\ Heaped(k, {}, owner, r, Mode) /\ Unsent(k, unsent) /\ k.liter = h.liter
          /\ k.type[s] = "socket"
        BY <1>4, <1>5, <1>6, <2>1, <2>3, <2>4, ConnectedHeap
    <2>6. Under(k, stack, owner, r, unsent, wfailed)
        BY <1>2, <1>4, <2>5, UnderFloor
    <2>7. PICK x : x = Callback("on_open", s)
        OBVIOUS
    <2>8. x.op = "cb" /\ x.pc = "on_open" /\ Runs(h', x, r) /\ Waits(h', x, r)
        BY <2>2, <2>5, <2>7, CalledBack
    <2>9. Follows(x, Head(stack))
        BY <1>1, <2>8 DEF Follows, CalledFrom, Top
    <2>10. Under(h', stack, owner', r, unsent', wfailed')
        BY <1>1, <2>2, <2>6
    <2> QED  BY <1>1, <1>2, <1>13, <2>7, <2>8, <2>9, <2>10, Entered DEF Writing
<1>14. CASE /\ h.type[s] \in {"socket", "shut"} /\ h' = g
            /\ stack' = Push(Fr("dispatch", "writable", s, Null, ev), stack)
    <2>1. PICK f : f = Fr("dispatch", "writable", s, Null, ev)
        OBVIOUS
    <2>2. f.op = "dispatch" /\ f.pc = "writable" /\ f.s = s /\ f.c = Null /\ f.ev = ev
        BY <2>1 DEF Fr
    <2>3. "R" \in ev => h.low[s] # 1
        BY <1>4, <1>6, <1>8 DEF Heaped, Modes, Conditions
    <2>4. Waits(h', f, r)
        BY <1>9, <1>14, <2>2, <2>3, AddressesDiffer DEF Waits, FrameAlive, Swept, Visiting
    <2>5. Runs(h', f, r)
        BY <1>6, <1>9, <1>14, <2>2 DEF Runs, Open
    <2>6. Follows(f, Head(stack))
        BY <1>1, <2>2 DEF Follows, Top
    <2>7. Under(h', stack, owner', r, unsent', wfailed')
        BY <1>1, <1>9, <1>14
    <2> QED  BY <1>1, <1>2, <1>14, <2>1, <2>2, <2>4, <2>5, <2>6, <2>7, Entered DEF Writing
<1> QED  BY <1>7, <1>8, <1>10, <1>11, <1>12, <1>13, <1>14 DEF DispatchPoll

LEMMA AcceptLoop ==
    ASSUME IInv, LInv, Accept
    PROVE  LInv'
<1>1. /\ stack # <<>> /\ Top.op = "accept"
      /\ owner' = owner /\ wfailed' = wfailed /\ unsent' = unsent
    BY DEF Accept, At
<1>2. /\ Top \in Frame /\ Rest \in Seq(Frame) /\ stack = Push(Top, Rest) /\ stack \in Seq(Frame)
      /\ Top.s \in Sockets
    BY <1>1, Running DEF IInv, TypeOK, FrameOK
<1>3. PICK r : Under(h, Push(Top, Rest), owner, r, unsent, wfailed)
    BY <1>1, Opened
<1>4. /\ Floor(Rest) /\ Head(Rest).op = "tick" /\ Rest # <<>> /\ Closes(stack) = {}
      /\ Heaped(h, {}, owner, r, Mode)
    BY <1>1, <1>3, OnFloor
<1>5. CASE stack' = Rest /\ h' = h
    <2>1. Under(h, Rest, owner, r, unsent, wfailed)
        BY <1>1, <1>2, <1>3, UnderPop
    <2>2. Runs(h, Head(Rest), r)
        BY <1>4, IdleRuns DEF Idle
    <2> QED  BY <1>1, <1>5, <2>1, <2>2, Stands
<1>6. ASSUME /\ ~IsClosed(h, Top.s) /\ h.type[Top.s] = "listen",
             NEW s \in Sockets, h.type[s] = "free",
             h' = NewSocket(h, h.ctx[Top.s], s, "socket", {"R"}),
             stack' = Push(Callback("on_open", s), stack)
      PROVE  LInv'
    <2>1. /\ Sound(h) /\ Covered(h, {}, owner, Mode.plain) /\ h \in Heap /\ h.ref \in [Contexts -> Int]
          /\ unsent \in SUBSET Sockets
        BY <1>4 DEF Heaped, IInv, TypeOK, Heap
    <2>2. PICK c : c = h.ctx[Top.s]
        OBVIOUS
    <2>3. c \in Contexts
        BY <1>2, <1>6, <2>1, <2>2 DEF Sound
    <2>4. Holding(h, {}, Top.s) /\ h.ctx[Top.s] = c
        BY <1>6, <2>2 DEF Holding
    <2>5. h.ref[c] >= 1
        BY <1>2, <2>1, <2>3, <2>4, HeldReferenced
    <2>6. h' = NewSocket(h, c, s, "socket", {"R"})
        BY <1>6, <2>2
    <2>7. {"R"} \in SUBSET Directions
        BY DEF Directions
    <2>8. Moves(h, {}, owner, r, h', {}, owner, Mode) /\ Open(h', s) /\ h'.type[s] = "socket"
        BY <1>4, <1>6, <2>3, <2>5, <2>6, <2>7, NewSocketMoves
    <2>9. PICK q : Heaped(h', {}, owner, q, Mode) /\ SweepKept(h, h', r, q) /\ Keeps(h, h')
        BY <2>8 DEF Moves
    <2>10. Under(h, stack, owner, r, unsent, wfailed)
        BY <1>2, <1>3
    <2>11. Under(h', stack, owner, q, unsent, wfailed)
        BY <1>4, <2>1, <2>9, <2>10, UnderMoves
    <2>12. PICK x : x = Callback("on_open", s)
        OBVIOUS
    <2>13. x.op = "cb" /\ x.pc = "on_open" /\ Runs(h', x, q) /\ Waits(h', x, q)
        BY <2>8, <2>12, CalledBack
    <2>14. Follows(x, Head(stack))
        BY <1>1, <2>13 DEF Follows, CalledFrom, Top
    <2>15. Under(h', stack, owner', q, unsent', wfailed')
        BY <1>1, <2>11
    <2> QED  BY <1>1, <1>2, <1>6, <2>12, <2>13, <2>14, <2>15, Entered DEF Writing
<1> QED  BY <1>5, <1>6 DEF Accept

-----------------------------------------------------------------------------
(* The dispatch of a connected socket.                                     *)

\* What a dispatch knows when it runs.
Dispatching(r) ==
    /\ Top \in Frame /\ Rest \in Seq(Frame) /\ Top.s \in Sockets
    /\ Floor(Rest) /\ Head(Rest).op = "tick" /\ Rest # <<>>
    /\ Heaped(h, {}, owner, r, Mode) /\ Under(h, Rest, owner, r, unsent, wfailed)
    /\ h.type[Top.s] \in {"socket", "shut"}
    /\ Top.pc \in {"writable", "readable", "recv"} => ~IsClosed(h, Top.s)
    /\ "R" \in Top.ev /\ Top.pc \in {"writable", "wrote", "readable"}
         => (Open(h, Top.s) => h.low[Top.s] # 1)
    /\ Top.c \in Contexts => h.state[Top.c] # "none"
    /\ Flagged /\ Top.pc = "wrote" /\ Top.s \in unsent => wfailed
    /\ h \in Heap /\ Sound(h) /\ unsent \in SUBSET Sockets /\ Unsent(h, unsent)

\* That is what the invariant says of a running dispatch.
LEMMA DispatchRuns ==
    ASSUME IInv, LInv, stack # <<>>, Top.op = "dispatch"
    PROVE  \E r : Dispatching(r)
<1>1. Top \in Frame /\ Rest \in Seq(Frame) /\ Top.s \in Sockets
    BY Running DEF FrameOK
<1>2. PICK r : Under(h, Push(Top, Rest), owner, r, unsent, wfailed) /\ Runs(h, Top, r)
    BY Opened
<1>3. Floor(Rest) /\ Head(Rest).op = "tick" /\ Rest # <<>> /\ Heaped(h, {}, owner, r, Mode)
    BY <1>2, OnFloor
<1>4. /\ Under(h, Rest, owner, r, unsent, wfailed) /\ Waits(h, Top, r)
      /\ Writing(Top) /\ Top.s \in unsent => wfailed
    BY <1>1, <1>2, UnderPop
<1>5. /\ h.type[Top.s] \in {"socket", "shut"}
      /\ Top.pc \in {"writable", "readable", "recv"} => ~IsClosed(h, Top.s)
    BY <1>1, <1>2 DEF Runs
<1>6. /\ "R" \in Top.ev /\ Top.pc \in {"writable", "wrote", "readable"}
           => (Open(h, Top.s) => h.low[Top.s] # 1)
      /\ Top.c \in Contexts => h.state[Top.c] # "none"
    BY <1>1, <1>4 DEF Waits, FrameAlive
<1>7. h \in Heap /\ Sound(h) /\ unsent \in SUBSET Sockets
    BY DEF IInv, TypeOK
<1>8. Unsent(h, unsent)
    BY <1>4 DEF Under
<1>9. Flagged /\ Top.pc = "wrote" /\ Top.s \in unsent => wfailed
    BY <1>4 DEF Writing
<1> QED  BY <1>1, <1>2, <1>3, <1>4, <1>5, <1>6, <1>7, <1>8, <1>9 DEF Dispatching

\* The dispatch goes on at another point.
LEMMA DispatchOn ==
    ASSUME NEW t \in Seq(Frame), t # <<>>, Head(t).op = "tick",
           NEW g, NEW own, NEW q, NEW un, NEW wf, Under(g, t, own, q, un, wf),
           NEW f, f.op = "dispatch", f.c \in Contexts => g.state[f.c] # "none",
           "R" \in f.ev /\ f.pc \in {"writable", "wrote", "readable"}
             => (Open(g, f.s) => g.low[f.s] # 1),
           Flagged /\ f.pc = "wrote" /\ f.s \in un => wf
    PROVE  Under(g, Push(f, t), own, q, un, wf)
<1>1. Waits(g, f, q)
    BY DEF Waits, FrameAlive, Swept, Visiting
<1>2. Follows(f, Head(t))
    BY DEF Follows
<1> QED  BY <1>1, <1>2, UnderPush DEF Writing

\* ... or makes a callback.
LEMMA DispatchCalls ==
    ASSUME NEW t \in Seq(Frame), NEW f \in Frame, NEW q,
           Under(h', Push(f, t), owner', q, unsent', wfailed'), f.op = "dispatch",
           f.pc \in {"received", "wrote", "ended", "error"},
           NEW name \in {"on_data", "on_end", "on_writable"}, name = "on_writable" <=> f.pc = "wrote",
           f.s \in Sockets, h'.type[f.s] \in {"socket", "shut"},
           name = "on_writable" => f.s \notin unsent',
           stack' = Push(Callback(name, f.s), Push(f, t))
    PROVE  LInv'
<1>1. PICK x : x = Callback(name, f.s)
    OBVIOUS
<1>2. /\ x.op = "cb" /\ x.pc = name /\ x.s = f.s /\ Runs(h', x, q)
      /\ (f.s \in Sockets => /\ h'.type[f.s] # "free"
                             /\ name \in {"on_data", "on_end", "on_writable"}
                                  => h'.type[f.s] \in {"socket", "shut"}) => Waits(h', x, q)
    BY <1>1, CalledBack
<1>3. Waits(h', x, q)
    BY <1>2
<1>4. PICK u : u = Push(f, t)
    OBVIOUS
<1>5. u \in Seq(Frame) /\ u # <<>> /\ Head(u) = f
    BY <1>4, PushType, PushTop
<1>6. Follows(x, Head(u))
    BY <1>2, <1>5 DEF Follows, CalledFrom
<1>7. Under(h', u, owner', q, unsent', wfailed') /\ stack' = Push(x, u)
    BY <1>1, <1>4
<1> QED  BY <1>2, <1>3, <1>5, <1>6, <1>7, Entered DEF Writing

\* The events that a connected socket is polled for.
LEMMA PolledHeap ==
    ASSUME NEW g, NEW K, NEW own, NEW r, Heaped(g, K, own, r, Mode), NEW s \in Sockets,
           g.type[s] \in {"socket", "shut"}, NEW d \in SUBSET Directions,
           "R" \in d => "R" \in g.poll[s] \/ g.low[s] # 1,
           NEW k, k = PollChange(g, s, d)
    PROVE  /\ Heaped(k, K, own, r, Mode) /\ k.liter = g.liter /\ k.type = g.type
           /\ k.low = g.low /\ k.due = g.due /\ k.state = g.state /\ k.ctx = g.ctx /\ k.prev = g.prev
           /\ k.poll[s] = d /\ \A t \in Sockets \ {s} : k.poll[t] = g.poll[t]
           /\ Quiet(k, g) /\ Modes(k, Mode)
           /\ \A t \in Sockets : Open(k, t) <=> Open(g, t)
<1>1. g \in Heap /\ Sound(g) /\ Modes(g, Mode)
    BY DEF Heaped, Sound
<1>2. DOMAIN g = Fields
    BY <1>1, HeapFields
<1>3. k = [g EXCEPT !.poll[s] = d]
    BY DEF PollChange
<1>4. SameBut(k, g, {"poll"}) /\ k.poll = [g.poll EXCEPT ![s] = d]
    BY <1>2, <1>3 DEF SameBut, Fields
<1>5. /\ k.liter = g.liter /\ k.type = g.type /\ k.low = g.low /\ k.due = g.due
      /\ k.state = g.state /\ k.ctx = g.ctx /\ k.prev = g.prev /\ SameBut(k, g, QuietFields)
    BY <1>4 DEF SameBut, Fields, QuietFields
<1>6. g.poll \in [Sockets -> SUBSET Directions]
    BY <1>1 DEF Heap
<1>7. k.poll[s] = d /\ \A t \in Sockets \ {s} : k.poll[t] = g.poll[t]
    BY <1>4, <1>6
<1>8. Sound(k)
    BY <1>1, PollChangeSound
<1>9. Quiet(k, g)
    BY <1>5, <1>8 DEF Quiet, Sound
<1>10. \A t \in Sockets : Open(k, t) <=> Open(g, t)
    BY <1>5 DEF Open, IsClosed
<1>11. Modes(k, Mode)
    <2>1. ASSUME NEW t \in Sockets, Open(k, t)
          PROVE  /\ Mode.plain => k.low[t] = 0
                 /\ k.low[t] = 1 => k.type[t] \in {"socket", "shut"} /\ "R" \notin k.poll[t]
                 /\ k.type[t] = "listen" => k.poll[t] = {"R"}
        <3>1. /\ Mode.plain => g.low[t] = 0
              /\ g.low[t] = 1 => g.type[t] \in {"socket", "shut"} /\ "R" \notin g.poll[t]
              /\ g.type[t] = "listen" => g.poll[t] = {"R"}
            BY <1>1, <1>10, <2>1 DEF Modes
        <3>2. CASE t = s
            BY <1>5, <1>7, <3>1, <3>2
        <3>3. CASE t # s
            BY <1>5, <1>7, <3>1, <3>3
        <3> QED  BY <3>2, <3>3
    <2> QED  BY <2>1 DEF Modes
<1>12. Heaped(k, K, own, r, Mode)
    BY <1>8, <1>9, <1>11, QuietHeap
<1> QED  BY <1>5, <1>7, <1>9, <1>10, <1>11, <1>12

LEMMA DispatchWritableLoop ==
    ASSUME IInv, LInv, DispatchWritable
    PROVE  LInv'
<1>1. /\ stack # <<>> /\ Top.op = "dispatch" /\ Top.pc = "writable"
      /\ owner' = owner /\ h' = h
    BY DEF DispatchWritable, At
<1>2. PICK r : Dispatching(r)
    BY <1>1, DispatchRuns
<1>3. /\ Top \in Frame /\ Rest \in Seq(Frame) /\ Top.s \in Sockets
      /\ Floor(Rest) /\ Head(Rest).op = "tick" /\ Rest # <<>>
      /\ Heaped(h, {}, owner, r, Mode) /\ Under(h, Rest, owner, r, unsent, wfailed)
      /\ Unsent(h, unsent)
    BY <1>2 DEF Dispatching
<1>4. CASE /\ wfailed' = FALSE /\ unsent' = unsent \ {Top.s}
           /\ stack' = Push(Callback("on_writable", Top.s), Goto("wrote"))
    <2>1. Unsent(h, unsent')
        BY <1>3, <1>4 DEF Unsent
    <2>2. Under(h, Rest, owner, r, unsent', wfailed')
        BY <1>3, <2>1, UnderFloor
    <2>3. PICK f : f = [Top EXCEPT !.pc = "wrote"]
        OBVIOUS
    <2>4. f.op = "dispatch" /\ f.pc = "wrote" /\ f.s = Top.s /\ f.c = Top.c /\ f.ev = Top.ev
        BY <1>1, <1>3, <2>3 DEF Frame
    <2>5. f \in Frame
        BY <1>3, <2>3 DEF Frame, Pcs
    <2>6. f.s \notin unsent'
        BY <1>4, <2>4
    <2>7. Under(h, Push(f, Rest), owner, r, unsent', wfailed')
        BY <1>1, <1>2, <1>3, <2>2, <2>4, <2>6, DispatchOn DEF Dispatching
    <2>8. stack' = Push(Callback("on_writable", f.s), Push(f, Rest))
        BY <1>4, <2>3, <2>4 DEF Goto
    <2>9. h'.type[f.s] \in {"socket", "shut"} /\ f.s \in Sockets
        BY <1>1, <1>2, <2>4 DEF Dispatching
    <2>10. Under(h', Push(f, Rest), owner', r, unsent', wfailed')
        BY <1>1, <2>7
    <2> QED  BY <1>3, <2>4, <2>5, <2>6, <2>8, <2>9, <2>10, DispatchCalls
<1>5. CASE stack' = Goto("readable") /\ wfailed' = wfailed /\ unsent' = unsent
    <2>1. PICK f : f = [Top EXCEPT !.pc = "readable"]
        OBVIOUS
    <2>2. f.op = "dispatch" /\ f.pc = "readable" /\ f.s = Top.s /\ f.c = Top.c /\ f.ev = Top.ev
        BY <1>1, <1>3, <2>1 DEF Frame
    <2>3. Under(h, Push(f, Rest), owner, r, unsent, wfailed)
        BY <1>1, <1>2, <1>3, <2>2, DispatchOn DEF Dispatching
    <2>4. Runs(h, f, r)
        BY <1>1, <1>2, <2>2 DEF Dispatching, Runs
    <2>5. stack' = Push(f, Rest) /\ Head(Push(f, Rest)) = f
        BY <1>3, <1>5, <2>1, PushTop DEF Goto
    <2> QED  BY <1>1, <1>5, <2>3, <2>4, <2>5, Stands
<1> QED  BY <1>4, <1>5 DEF DispatchWritable

\* The dispatch is done, and the tick goes on.
LEMMA DispatchDone ==
    ASSUME NEW q, Under(h', Rest, owner', q, unsent', wfailed'), Head(Rest).op = "tick",
           stack' = Rest
    PROVE  LInv'
<1>1. Runs(h', Head(Rest), q)
    BY IdleRuns DEF Idle
<1> QED  BY <1>1, Stands

LEMMA DispatchWroteLoop ==
    ASSUME IInv, LInv, DispatchWrote
    PROVE  LInv'
<1>1. /\ stack # <<>> /\ Top.op = "dispatch" /\ Top.pc = "wrote"
      /\ owner' = owner /\ wfailed' = wfailed /\ unsent' = unsent
    BY DEF DispatchWrote, At
<1>2. PICK r : Dispatching(r)
    BY <1>1, DispatchRuns
<1>3. /\ Top \in Frame /\ Rest \in Seq(Frame) /\ Top.s \in Sockets
      /\ Floor(Rest) /\ Head(Rest).op = "tick" /\ Rest # <<>>
      /\ Heaped(h, {}, owner, r, Mode) /\ Under(h, Rest, owner, r, unsent, wfailed)
      /\ Unsent(h, unsent) /\ unsent \in SUBSET Sockets /\ h \in Heap
      /\ h.type[Top.s] \in {"socket", "shut"} /\ (Flagged /\ Top.s \in unsent => wfailed)
    BY <1>1, <1>2 DEF Dispatching
<1>4. CASE IsClosed(h, Top.s) /\ stack' = Rest /\ h' = h
    <2>1. Under(h', Rest, owner', r, unsent', wfailed')
        BY <1>1, <1>3, <1>4
    <2> QED  BY <1>3, <1>4, <2>1, DispatchDone
<1>5. ASSUME ~IsClosed(h, Top.s), stack' = Goto("readable"),
             Under(h', Rest, owner, r, unsent, wfailed), h'.type = h.type, h'.low = h.low,
             h'.state = h.state, h'.ctx = h.ctx, h'.prev = h.prev
      PROVE  LInv'
    <2>1. PICK f : f = [Top EXCEPT !.pc = "readable"]
        OBVIOUS
    <2>2. f.op = "dispatch" /\ f.pc = "readable" /\ f.s = Top.s /\ f.c = Top.c /\ f.ev = Top.ev
        BY <1>1, <1>3, <2>1 DEF Frame
    <2>3. /\ f.c \in Contexts => h'.state[f.c] # "none"
          /\ "R" \in f.ev => (Open(h', f.s) => h'.low[f.s] # 1)
        BY <1>1, <1>2, <1>5, <2>2 DEF Dispatching, Open, IsClosed
    <2>4. Under(h', Push(f, Rest), owner, r, unsent, wfailed)
        BY <1>3, <1>5, <2>2, <2>3, DispatchOn
    <2>5. Runs(h', f, r)
        BY <1>3, <1>5, <2>2 DEF Runs, IsClosed
    <2>6. stack' = Push(f, Rest) /\ Head(Push(f, Rest)) = f
        BY <1>3, <1>5, <2>1, PushTop DEF Goto
    <2> QED  BY <1>1, <2>4, <2>5, <2>6, Stands
<1>6. CASE ~IsClosed(h, Top.s) /\ stack' = Goto("readable") /\ h' = h
    BY <1>3, <1>5, <1>6
<1>7. CASE /\ ~IsClosed(h, Top.s) /\ stack' = Goto("readable")
           /\ ~wfailed \/ h.type[Top.s] = "shut"
           /\ h' = PollChange(h, Top.s, h.poll[Top.s] \cap {"R"})
    <2>1. PICK d : d = h.poll[Top.s] \cap {"R"}
        OBVIOUS
    <2>2. d \in SUBSET Directions
        BY <1>3, <2>1 DEF Heap, Directions
    <2>3. "R" \in d => "R" \in h.poll[Top.s] \/ h.low[Top.s] # 1
        BY <2>1
    <2>4. h' = PollChange(h, Top.s, d)
        BY <1>7, <2>1
    <2>5. /\ Heaped(h', {}, owner, r, Mode) /\ h'.liter = h.liter /\ h'.type = h.type
          /\ h'.low = h.low /\ h'.state = h.state /\ h'.ctx = h.ctx /\ h'.prev = h.prev
          /\ \A t \in Sockets \ {Top.s} : h'.poll[t] = h.poll[t]
        BY <1>3, <2>2, <2>3, <2>4, PolledHeap
    <2>6. Flagged /\ Top.s \in unsent => h.type[Top.s] = "shut"
        BY <1>3, <1>7
    <2>7. Unsent(h', unsent)
        BY <1>3, <2>5, <2>6 DEF Unsent
    <2>8. Under(h', Rest, owner, r, unsent, wfailed)
        BY <1>3, <2>5, <2>7, UnderFloor
    <2> QED  BY <1>5, <1>7, <2>5, <2>8
<1>8. \/ IsClosed(h, Top.s) /\ stack' = Rest /\ h' = h
      \/ /\ ~IsClosed(h, Top.s) /\ stack' = Goto("readable")
         /\ \/ h' = h
            \/ /\ ~wfailed \/ h.type[Top.s] = "shut"
               /\ h' = PollChange(h, Top.s, h.poll[Top.s] \cap {"R"})
    BY DEF DispatchWrote
<1> QED  BY <1>4, <1>6, <1>7, <1>8

\* A dispatch that goes on in the same heap.
LEMMA DispatchGoes ==
    ASSUME NEW r, Dispatching(r), h' = h, owner' = owner, unsent' = unsent, wfailed' = wfailed,
           NEW f, f.op = "dispatch", f.s = Top.s, f.c = Top.c, f.pc \notin {"writable", "wrote", "readable"},
           f.pc = "recv" => ~IsClosed(h, Top.s), stack' = Push(f, Rest)
    PROVE  LInv'
<1>1. /\ Rest \in Seq(Frame) /\ Rest # <<>> /\ Head(Rest).op = "tick"
      /\ Under(h, Rest, owner, r, unsent, wfailed) /\ (f.c \in Contexts => h.state[f.c] # "none")
    BY DEF Dispatching
<1>2. Under(h, Push(f, Rest), owner, r, unsent, wfailed)
    BY <1>1, DispatchOn
<1>3. Runs(h, f, r)
    BY DEF Dispatching, Runs
<1>4. Head(Push(f, Rest)) = f
    BY <1>1, PushTop
<1> QED  BY <1>2, <1>3, <1>4, Stands

\* A socket served from the queue is read without a budget, once.
LEMMA LowReset ==
    ASSUME NEW g, NEW own, NEW r, Heaped(g, {}, own, r, Mode), NEW s \in Sockets, g.low[s] = 2,
           NEW un, Unsent(g, un), NEW k \in Heap, Sound(k), SameBut(k, g, {"low"}),
           k.low[s] = 0, \A t \in Sockets \ {s} : k.low[t] = g.low[t]
    PROVE  /\ Heaped(k, {}, own, r, Mode) /\ Unsent(k, un) /\ k.liter = g.liter
           /\ k.type = g.type /\ k.state = g.state /\ k.ctx = g.ctx /\ k.prev = g.prev
<1>1. g \in Heap /\ Modes(g, Mode)
    BY DEF Heaped, Sound
<1>2. /\ k.type = g.type /\ k.poll = g.poll /\ k.ctx = g.ctx /\ k.prev = g.prev
      /\ k.liter = g.liter /\ k.state = g.state /\ SameBut(k, g, QuietFields)
    BY DEF SameBut, Fields, QuietFields
<1>4. k.low[s] = 0 /\ \A t \in Sockets \ {s} : k.low[t] = g.low[t]
    OBVIOUS
<1>5. Quiet(k, g)
    BY <1>2, <1>4 DEF Quiet
<1>6. Modes(k, Mode)
    <2>1. \A t \in Sockets : Open(k, t) <=> Open(g, t)
        BY <1>2 DEF Open, IsClosed
    <2> QED  BY <1>1, <1>2, <1>4, <2>1 DEF Modes
<1>7. Heaped(k, {}, own, r, Mode)
    BY <1>5, <1>6, QuietHeap
<1> QED  BY <1>2, <1>7 DEF Unsent

LEMMA DispatchReadableLoop ==
    ASSUME IInv, IInv', LInv, DispatchReadable
    PROVE  LInv'
<1>1. /\ stack # <<>> /\ Top.op = "dispatch" /\ Top.pc = "readable"
      /\ owner' = owner /\ wfailed' = wfailed /\ unsent' = unsent
    BY DEF DispatchReadable, At
<1>2. PICK r : Dispatching(r)
    BY <1>1, DispatchRuns
<1>3. /\ Top \in Frame /\ Rest \in Seq(Frame) /\ Top.s \in Sockets
      /\ Floor(Rest) /\ Head(Rest).op = "tick" /\ Rest # <<>>
      /\ Heaped(h, {}, owner, r, Mode) /\ Under(h, Rest, owner, r, unsent, wfailed)
      /\ Unsent(h, unsent) /\ unsent \in SUBSET Sockets /\ h \in Heap
      /\ h.type[Top.s] \in {"socket", "shut"} /\ ~IsClosed(h, Top.s)
      /\ "R" \in Top.ev => h.low[Top.s] # 1
    BY <1>1, <1>2 DEF Dispatching, Open
<1>4. CASE stack' = Goto("eof") /\ h' = h
    <2>1. PICK f : f = [Top EXCEPT !.pc = "eof"]
        OBVIOUS
    <2>2. f.op = "dispatch" /\ f.pc = "eof" /\ f.s = Top.s /\ f.c = Top.c
        BY <1>1, <1>3, <2>1 DEF Frame
    <2>3. stack' = Push(f, Rest)
        BY <1>4, <2>1 DEF Goto
    <2> QED  BY <1>1, <1>2, <1>4, <2>2, <2>3, DispatchGoes
<1>5. CASE stack' = Goto("recv") /\ h' = h
    <2>1. PICK f : f = [Top EXCEPT !.pc = "recv"]
        OBVIOUS
    <2>2. f.op = "dispatch" /\ f.pc = "recv" /\ f.s = Top.s /\ f.c = Top.c
        BY <1>1, <1>3, <2>1 DEF Frame
    <2>3. stack' = Push(f, Rest)
        BY <1>5, <2>1 DEF Goto
    <2> QED  BY <1>1, <1>2, <1>3, <1>5, <2>2, <2>3, DispatchGoes
<1>6. CASE h.low[Top.s] = 2 /\ h' = [h EXCEPT !.low[Top.s] = 0] /\ stack' = Goto("recv")
    <2>1. PICK f : f = [Top EXCEPT !.pc = "recv"]
        OBVIOUS
    <2>2. f.op = "dispatch" /\ f.pc = "recv" /\ f.s = Top.s /\ f.c = Top.c
        BY <1>1, <1>3, <2>1 DEF Frame
    <2>3. stack' = Push(f, Rest)
        BY <1>6, <2>1 DEF Goto
    <2>4. /\ SameBut(h', h, {"low"}) /\ h.low[Top.s] = 2 /\ h'.low[Top.s] = 0
          /\ \A t \in Sockets \ {Top.s} : h'.low[t] = h.low[t]
        <3>1. DOMAIN h = Fields
            BY <1>3, HeapFields
        <3>2. h.low \in [Sockets -> 0..2]
            BY <1>3 DEF Heap
        <3>3. SameBut(h', h, {"low"}) /\ h'.low = [h.low EXCEPT ![Top.s] = 0]
            BY <1>6, <3>1 DEF SameBut, Fields
        <3> QED  BY <1>3, <1>6, <3>2, <3>3
    <2>5. h' \in Heap /\ Sound(h')
        BY DEF IInv, TypeOK
    <2>6. /\ Heaped(h', {}, owner, r, Mode) /\ Unsent(h', unsent) /\ h'.liter = h.liter
          /\ h'.type = h.type /\ h'.state = h.state /\ h'.ctx = h.ctx /\ h'.prev = h.prev
        BY <1>3, <2>4, <2>5, LowReset
    <2>7. Under(h', Rest, owner, r, unsent, wfailed)
        BY <1>3, <2>6, UnderFloor
    <2>8. f.c \in Contexts => h'.state[f.c] # "none"
        BY <1>2, <2>2, <2>6 DEF Dispatching
    <2>9. Under(h', Push(f, Rest), owner, r, unsent, wfailed)
        BY <1>3, <2>2, <2>7, <2>8, DispatchOn
    <2>10. Runs(h', f, r)
        BY <1>3, <2>2, <2>6 DEF Runs, IsClosed
    <2>11. Head(Push(f, Rest)) = f
        BY <1>3, PushTop
    <2> QED  BY <1>1, <2>3, <2>9, <2>10, <2>11, Stands
<1>7. CASE /\ "R" \in Top.ev /\ "lowprio" \in Calls
           /\ h' = EnterQueue(h, Top.s) /\ stack' = Rest
    <2>1. Open(h, Top.s) /\ h.low[Top.s] # 1 /\ ~Mode.plain
        BY <1>3, <1>7 DEF Open, Mode
    <2>2. /\ h'.liter = h.liter /\ \E q : Heaped(h', {}, owner, q, Mode)
          /\ h'.type = h.type
          /\ \A t \in Sockets : "W" \in h.poll[t] => "W" \in h'.poll[t]
        BY <1>3, <1>7, <2>1, EnterQueueHeap
    <2>3. PICK q : Heaped(h', {}, owner, q, Mode)
        BY <2>2
    <2>4. Unsent(h', unsent)
        BY <1>3, <2>2 DEF Unsent
    <2>5. Under(h', Rest, owner', q, unsent', wfailed')
        BY <1>1, <1>3, <2>2, <2>3, <2>4, UnderFloor
    <2> QED  BY <1>3, <1>7, <2>5, DispatchDone
<1>8. \/ stack' = Goto("eof") /\ h' = h
      \/ stack' = Goto("recv") /\ h' = h
      \/ h.low[Top.s] = 2 /\ h' = [h EXCEPT !.low[Top.s] = 0] /\ stack' = Goto("recv")
      \/ /\ "R" \in Top.ev /\ "lowprio" \in Calls
         /\ h' = EnterQueue(h, Top.s) /\ stack' = Rest
    BY DEF DispatchReadable
<1> QED  BY <1>4, <1>5, <1>6, <1>7, <1>8

\* The dispatch closes its socket.
LEMMA DispatchCloses ==
    ASSUME IInv, NEW r, Dispatching(r), SocketClose(Top.s, Rest),
           owner' = owner, unsent' = unsent, wfailed' = wfailed
    PROVE  LInv'
<1>1. Calm(Rest) /\ Rest \in Seq(Frame) /\ Top.s \in Sockets
    BY DEF Dispatching, Calm
<1>2. Resting(h, Rest, owner, unsent, wfailed)
    BY DEF Dispatching, Under, Resting
<1>3. ~IsClosed(h, Top.s) => Open(h, Top.s) /\ h.type[Top.s] # "listen"
    BY DEF Dispatching, Open
<1> QED  BY <1>1, <1>2, <1>3, SocketCloseLoop

LEMMA RecvLoop ==
    ASSUME IInv, LInv, Recv
    PROVE  LInv'
<1>1. /\ stack # <<>> /\ Top.op = "dispatch" /\ Top.pc = "recv"
      /\ owner' = owner /\ wfailed' = wfailed /\ unsent' = unsent
    BY DEF Recv, At
<1>2. PICK r : Dispatching(r)
    BY <1>1, DispatchRuns
<1>3. /\ Top \in Frame /\ Rest \in Seq(Frame) /\ Top.s \in Sockets
      /\ Head(Rest).op = "tick" /\ Rest # <<>> /\ Under(h, Rest, owner, r, unsent, wfailed)
      /\ h.type[Top.s] \in {"socket", "shut"}
      /\ Top.c \in Contexts => h.state[Top.c] # "none"
    BY <1>1, <1>2 DEF Dispatching
<1>4. CASE stack' = Push(Callback("on_data", Top.s), Goto("received")) /\ h' = h
    <2>1. PICK f : f = [Top EXCEPT !.pc = "received"]
        OBVIOUS
    <2>2. f.op = "dispatch" /\ f.pc = "received" /\ f.s = Top.s /\ f.c = Top.c
        BY <1>1, <1>3, <2>1 DEF Frame
    <2>3. f \in Frame
        BY <1>3, <2>1 DEF Frame, Pcs
    <2>4. Under(h, Push(f, Rest), owner, r, unsent, wfailed)
        BY <1>3, <2>2, DispatchOn
    <2>5. stack' = Push(Callback("on_data", f.s), Push(f, Rest))
        BY <1>4, <2>1, <2>2 DEF Goto
    <2>6. h'.type[f.s] \in {"socket", "shut"} /\ f.s \in Sockets
        BY <1>3, <1>4, <2>2
    <2>7. Under(h', Push(f, Rest), owner', r, unsent', wfailed')
        BY <1>1, <1>4, <2>4
    <2> QED  BY <1>3, <2>2, <2>3, <2>5, <2>6, <2>7, DispatchCalls
<1>5. CASE stack' = Push([Top EXCEPT !.pc = "eof", !.ev = @ \cup {"H"}], Rest) /\ h' = h
    <2>1. PICK f : f = [Top EXCEPT !.pc = "eof", !.ev = @ \cup {"H"}]
        OBVIOUS
    <2>2. f.op = "dispatch" /\ f.pc = "eof" /\ f.s = Top.s /\ f.c = Top.c
        BY <1>1, <1>3, <2>1 DEF Frame
    <2> QED  BY <1>1, <1>2, <1>5, <2>1, <2>2, DispatchGoes
<1>6. CASE SocketClose(Top.s, Rest)
    BY <1>1, <1>2, <1>6, DispatchCloses
<1>7. CASE stack' = Goto("eof") /\ h' = h
    <2>1. PICK f : f = [Top EXCEPT !.pc = "eof"]
        OBVIOUS
    <2>2. f.op = "dispatch" /\ f.pc = "eof" /\ f.s = Top.s /\ f.c = Top.c
        BY <1>1, <1>3, <2>1 DEF Frame
    <2>3. stack' = Push(f, Rest)
        BY <1>7, <2>1 DEF Goto
    <2> QED  BY <1>1, <1>2, <1>7, <2>2, <2>3, DispatchGoes
<1> QED  BY <1>4, <1>5, <1>6, <1>7 DEF Recv

LEMMA ReceivedLoop ==
    ASSUME IInv, LInv, ReceivedMore \/ ReceivedLast
    PROVE  LInv'
<1>1. /\ stack # <<>> /\ Top.op = "dispatch" /\ Top.pc = "received" /\ h' = h
      /\ owner' = owner /\ wfailed' = wfailed /\ unsent' = unsent
    BY DEF ReceivedMore, ReceivedLast, At
<1>2. PICK r : Dispatching(r)
    BY <1>1, DispatchRuns
<1>3. Top \in Frame
    BY <1>2 DEF Dispatching
<1>4. CASE ReceivedMore
    <2>1. PICK n : stack' = Push([Top EXCEPT !.pc = "recv", !.n = n], Rest)
        BY <1>4 DEF ReceivedMore
    <2>2. PICK f : f = [Top EXCEPT !.pc = "recv", !.n = n]
        OBVIOUS
    <2>3. f.op = "dispatch" /\ f.pc = "recv" /\ f.s = Top.s /\ f.c = Top.c
        BY <1>1, <1>3, <2>2 DEF Frame
    <2>4. ~IsClosed(h, Top.s)
        BY <1>4 DEF ReceivedMore
    <2>5. stack' = Push(f, Rest)
        BY <2>1, <2>2
    <2> QED  BY <1>1, <1>2, <2>3, <2>4, <2>5, DispatchGoes
<1>5. CASE ReceivedLast
    <2>1. PICK f : f = [Top EXCEPT !.pc = "eof"]
        OBVIOUS
    <2>2. f.op = "dispatch" /\ f.pc = "eof" /\ f.s = Top.s /\ f.c = Top.c
        BY <1>1, <1>3, <2>1 DEF Frame
    <2>3. stack' = Push(f, Rest)
        BY <1>5, <2>1 DEF ReceivedLast, Goto
    <2> QED  BY <1>1, <1>2, <2>2, <2>3, DispatchGoes
<1> QED  BY <1>4, <1>5

LEMMA DispatchEofLoop ==
    ASSUME IInv, LInv, DispatchEof
    PROVE  LInv'
<1>1. /\ stack # <<>> /\ Top.op = "dispatch" /\ Top.pc = "eof"
      /\ owner' = owner /\ wfailed' = wfailed /\ unsent' = unsent
    BY DEF DispatchEof, At
<1>2. PICK r : Dispatching(r)
    BY <1>1, DispatchRuns
<1>3. /\ Top \in Frame /\ Rest \in Seq(Frame) /\ Top.s \in Sockets
      /\ Floor(Rest) /\ Head(Rest).op = "tick" /\ Rest # <<>>
      /\ Heaped(h, {}, owner, r, Mode) /\ Under(h, Rest, owner, r, unsent, wfailed)
      /\ Unsent(h, unsent) /\ unsent \in SUBSET Sockets /\ h \in Heap
      /\ h.type[Top.s] \in {"socket", "shut"}
      /\ Top.c \in Contexts => h.state[Top.c] # "none"
    BY <1>1, <1>2 DEF Dispatching
<1>4. CASE stack' = Goto("error") /\ h' = h
    <2>1. PICK f : f = [Top EXCEPT !.pc = "error"]
        OBVIOUS
    <2>2. f.op = "dispatch" /\ f.pc = "error" /\ f.s = Top.s /\ f.c = Top.c
        BY <1>1, <1>3, <2>1 DEF Frame
    <2>3. stack' = Push(f, Rest)
        BY <1>4, <2>1 DEF Goto
    <2> QED  BY <1>1, <1>2, <1>4, <2>2, <2>3, DispatchGoes
<1>5. CASE stack' = Rest /\ h' = h
    <2>1. Under(h', Rest, owner', r, unsent', wfailed')
        BY <1>1, <1>3, <1>5
    <2> QED  BY <1>3, <1>5, <2>1, DispatchDone
<1>6. CASE SocketClose(Top.s, Rest)
    BY <1>1, <1>2, <1>6, DispatchCloses
<1>7. ASSUME NEW pc \in {"error", "ended"},
             stack' = Push(Callback("on_end", Top.s), Goto(pc)),
             Under(h', Rest, owner, r, unsent, wfailed), h'.type = h.type, h'.state = h.state
      PROVE  LInv'
    <2>1. PICK f : f = [Top EXCEPT !.pc = pc]
        OBVIOUS
    <2>2. f.op = "dispatch" /\ f.pc = pc /\ f.s = Top.s /\ f.c = Top.c
        BY <1>1, <1>3, <2>1 DEF Frame
    <2>3. f \in Frame
        BY <1>3, <2>1 DEF Frame, Pcs
    <2>4. Under(h', Push(f, Rest), owner, r, unsent, wfailed)
        BY <1>3, <1>7, <2>2, DispatchOn
    <2>5. stack' = Push(Callback("on_end", f.s), Push(f, Rest))
        BY <1>7, <2>1, <2>2 DEF Goto
    <2>6. h'.type[f.s] \in {"socket", "shut"} /\ f.s \in Sockets
        BY <1>3, <1>7, <2>2
    <2>7. Under(h', Push(f, Rest), owner', r, unsent', wfailed')
        BY <1>1, <2>4
    <2> QED  BY <1>3, <2>2, <2>3, <2>5, <2>6, <2>7, DispatchCalls
<1>8. CASE stack' = Push(Callback("on_end", Top.s), Goto("ended")) /\ h' = h
    BY <1>3, <1>7, <1>8
<1>9. CASE /\ h.type[Top.s] # "shut" /\ ~IsClosed(h, Top.s)
           /\ stack' = Push(Callback("on_end", Top.s), Goto("error"))
           /\ h' = PollChange(h, Top.s, h.poll[Top.s] \cap {"W"})
    <2>1. PICK d : d = h.poll[Top.s] \cap {"W"}
        OBVIOUS
    <2>2. d \in SUBSET Directions /\ "R" \notin d
        BY <1>3, <2>1 DEF Heap, Directions
    <2>3. h' = PollChange(h, Top.s, d)
        BY <1>9, <2>1
    <2>4. /\ Heaped(h', {}, owner, r, Mode) /\ h'.liter = h.liter /\ h'.type = h.type
          /\ h'.state = h.state /\ h'.poll[Top.s] = d
          /\ \A t \in Sockets \ {Top.s} : h'.poll[t] = h.poll[t]
        BY <1>3, <2>2, <2>3, PolledHeap
    <2>5. Unsent(h', unsent)
        BY <1>3, <2>1, <2>4 DEF Unsent
    <2>6. Under(h', Rest, owner, r, unsent, wfailed)
        BY <1>3, <2>4, <2>5, UnderFloor
    <2> QED  BY <1>7, <1>9, <2>4, <2>6
<1>10. \/ stack' = Goto("error") /\ h' = h
       \/ stack' = Rest /\ h' = h
       \/ SocketClose(Top.s, Rest)
       \/ stack' = Push(Callback("on_end", Top.s), Goto("ended")) /\ h' = h
       \/ /\ h.type[Top.s] # "shut" /\ ~IsClosed(h, Top.s)
          /\ stack' = Push(Callback("on_end", Top.s), Goto("error"))
          /\ h' = PollChange(h, Top.s, h.poll[Top.s] \cap {"W"})
    BY DEF DispatchEof
<1> QED  BY <1>4, <1>5, <1>6, <1>8, <1>9, <1>10

LEMMA DispatchEndLoop ==
    ASSUME IInv, LInv, DispatchEnd
    PROVE  LInv'
<1>1. /\ stack # <<>> /\ Top.op = "dispatch"
      /\ owner' = owner /\ wfailed' = wfailed /\ unsent' = unsent
    BY DEF DispatchEnd, At
<1>2. PICK r : Dispatching(r)
    BY <1>1, DispatchRuns
<1>3. CASE SocketClose(Top.s, Rest)
    BY <1>1, <1>2, <1>3, DispatchCloses
<1>4. CASE stack' = Rest /\ h' = h
    <2>1. Under(h', Rest, owner', r, unsent', wfailed') /\ Head(Rest).op = "tick"
        BY <1>1, <1>2, <1>4 DEF Dispatching
    <2> QED  BY <1>4, <2>1, DispatchDone
<1> QED  BY <1>3, <1>4 DEF DispatchEnd

-----------------------------------------------------------------------------
(* The timeout sweep.                                                      *)

\* What a sweep knows when it runs.
Sweeping(r) ==
    /\ Top \in Frame /\ Rest \in Seq(Frame) /\ Rest # <<>> /\ Head(Rest).op = "tick" /\ Floor(Rest)
    /\ Heaped(h, {}, owner, r, Mode) /\ Base(h, Rest, owner, r)
    /\ Waits(h, Top, r) /\ Runs(h, Top, r)
    /\ Unsent(h, unsent) /\ unsent \in SUBSET Sockets /\ Written(Rest, unsent, wfailed)
    /\ h \in Heap /\ Sound(h) /\ (h.liter # Null => h.liter \in Contexts /\ h.state[h.liter] # "none")
    /\ Top.s \in SocketPtr /\ FrameOK(Top)

\* That is what the invariant says of a running sweep.
LEMMA SweepRuns ==
    ASSUME IInv, LInv, stack # <<>>, Top.op = "sweep"
    PROVE  \E r : Sweeping(r)
<1>1. Top \in Frame /\ Rest \in Seq(Frame) /\ FrameOK(Top) /\ Top.s \in SocketPtr
    BY Running DEF Frame
<1>2. PICK r : Under(h, Push(Top, Rest), owner, r, unsent, wfailed) /\ Runs(h, Top, r)
    BY Opened
<1>3. Floor(Rest) /\ Head(Rest).op = "tick" /\ Rest # <<>> /\ Heaped(h, {}, owner, r, Mode)
    BY <1>2, OnFloor
<1>4. /\ Base(h, Rest, owner, r) /\ Waits(h, Top, r) /\ Unsent(h, unsent)
      /\ Written(Rest, unsent, wfailed)
    BY <1>1, <1>2, UnderPop
<1>5. h \in Heap /\ Sound(h) /\ unsent \in SUBSET Sockets
    BY DEF IInv, TypeOK
<1>6. h.liter # Null => h.liter \in Contexts /\ h.state[h.liter] # "none"
    <2>1. LiterOK(h, Push(Top, Rest))
        BY <1>2 DEF Under
    <2> QED  BY <1>5, <2>1 DEF LiterOK, Heap, ContextPtr
<1> QED  BY <1>1, <1>2, <1>3, <1>4, <1>5, <1>6 DEF Sweeping

\* Writes of the sweep: the timeouts that are due and the iterator of the loop.
LEMMA Timed ==
    ASSUME NEW g \in Heap, Sound(g), IInv, SameBut(g, h, {"due", "liter"}),
           NEW own, NEW r, Heaped(h, {}, own, r, Mode), NEW un, Unsent(h, un)
    PROVE  /\ Heaped(g, {}, own, r, Mode) /\ Unsent(g, un)
           /\ \A c \in Contexts : Regular(g, c) = Regular(h, c)
           /\ g.state = h.state /\ g.type = h.type /\ g.head = h.head
           /\ g.iter = h.iter
<1>1. /\ g.type = h.type /\ g.poll = h.poll /\ g.ctx = h.ctx /\ g.prev = h.prev /\ g.low = h.low
      /\ g.state = h.state /\ g.head = h.head /\ g.iter = h.iter
    BY DEF SameBut, Fields
<1>2. SameBut(g, h, QuietFields)
    BY DEF SameBut, QuietFields
<1>3. Quiet(g, h)
    BY <1>1, <1>2 DEF Quiet
<1>4. Modes(g, Mode)
    <2>1. Modes(h, Mode)
        BY DEF Heaped
    <2>2. \A s \in Sockets : Open(g, s) <=> Open(h, s)
        BY <1>1 DEF Open, IsClosed
    <2> QED  BY <1>1, <2>1, <2>2 DEF Modes
<1>5. Heaped(g, {}, own, r, Mode) /\ \A c \in Contexts : Regular(g, c) = Regular(h, c)
    BY <1>3, <1>4, QuietHeap
<1> QED  BY <1>1, <1>5 DEF Unsent

\* The sweep writes timeouts and iterators, and stays on its tick ...
LEMMA SweepOn ==
    ASSUME NEW r, Sweeping(r), owner' = owner, unsent' = unsent, wfailed' = wfailed,
           Heaped(h', {}, owner, r, Mode), Unsent(h', unsent),
           h'.liter # Null => h'.state[h'.liter] # "none",
           NEW f, f.op = "sweep", Waits(h', f, r)
    PROVE  Under(h', Push(f, Rest), owner', r, unsent', wfailed')
<1>1. /\ Rest \in Seq(Frame) /\ Rest # <<>> /\ Head(Rest).op = "tick" /\ Floor(Rest)
      /\ Base(h, Rest, owner, r) /\ Written(Rest, unsent, wfailed)
    BY DEF Sweeping
<1>2. Base(h', Rest, owner, r)
    BY <1>1, FloorStands
<1>3. Follows(f, Head(Rest))
    BY <1>1 DEF Follows
<1>4. Base(h', Push(f, Rest), owner, r)
    BY <1>1, <1>2, <1>3, BasePush
<1>5. Frames(Push(f, Rest)) = Frames(Rest) \cup {f}
    BY <1>1, PushFrames
<1>6. LiterOK(h', Push(f, Rest)) /\ Written(Push(f, Rest), unsent, wfailed)
    BY <1>1, <1>5 DEF LiterOK, Written, Writing
<1> QED  BY <1>4, <1>6 DEF Under

\* ... where it goes on ...
LEMMA SweepGoes ==
    ASSUME NEW r, Sweeping(r), owner' = owner, unsent' = unsent, wfailed' = wfailed,
           Heaped(h', {}, owner, r, Mode), Unsent(h', unsent),
           h'.liter # Null => h'.state[h'.liter] # "none",
           NEW f, f.op = "sweep", Waits(h', f, r), Runs(h', f, r), stack' = Push(f, Rest)
    PROVE  LInv'
<1>1. Under(h', Push(f, Rest), owner', r, unsent', wfailed')
    BY SweepOn
<1>2. Rest \in Seq(Frame)
    BY DEF Sweeping
<1>3. Head(Push(f, Rest)) = f
    BY <1>2, PushTop
<1> QED  BY <1>1, <1>3, Stands

\* ... or makes a callback.
LEMMA SweepCalls ==
    ASSUME NEW r, Sweeping(r), owner' = owner, unsent' = unsent, wfailed' = wfailed,
           Heaped(h', {}, owner, r, Mode), Unsent(h', unsent),
           h'.liter # Null => h'.state[h'.liter] # "none",
           NEW f \in Frame, f.op = "sweep", f.pc \in {"long", "step"}, Waits(h', f, r),
           NEW s \in Sockets, h'.type[s] # "free", NEW name \in {"on_timeout", "on_long_timeout"},
           stack' = Push(Callback(name, s), Push(f, Rest))
    PROVE  LInv'
<1>1. Rest \in Seq(Frame)
    BY DEF Sweeping
<1>2. Under(h', Push(f, Rest), owner', r, unsent', wfailed')
    BY SweepOn
<1>3. PICK x : x = Callback(name, s)
    OBVIOUS
<1>4. /\ x.op = "cb" /\ x.pc = name /\ Runs(h', x, r)
      /\ (s \in Sockets => /\ h'.type[s] # "free"
                           /\ name \in {"on_data", "on_end", "on_writable"}
                                => h'.type[s] \in {"socket", "shut"}) => Waits(h', x, r)
    BY <1>3, CalledBack
<1>5. Waits(h', x, r)
    BY <1>4
<1>6. PICK u : u = Push(f, Rest)
    OBVIOUS
<1>7. u \in Seq(Frame) /\ u # <<>> /\ Head(u) = f
    BY <1>1, <1>6, PushType, PushTop
<1>8. Follows(x, Head(u))
    BY <1>4, <1>7 DEF Follows, CalledFrom
<1>9. Under(h', u, owner', r, unsent', wfailed') /\ stack' = Push(x, u)
    BY <1>2, <1>3, <1>6
<1> QED  BY <1>4, <1>5, <1>7, <1>8, <1>9, Entered DEF Writing

LEMMA SweepContextLoop ==
    ASSUME IInv, IInv', LInv, SweepContext
    PROVE  LInv'
<1>1. /\ stack # <<>> /\ Top.op = "sweep" /\ Top.pc = "context"
      /\ owner' = owner /\ wfailed' = wfailed /\ unsent' = unsent
    BY DEF SweepContext, At
<1>2. PICK r : Sweeping(r)
    BY <1>1, SweepRuns
<1>3. /\ Top \in Frame /\ Rest \in Seq(Frame) /\ Heaped(h, {}, owner, r, Mode)
      /\ Unsent(h, unsent) /\ h \in Heap
      /\ h.liter # Null => h.liter \in Contexts /\ h.state[h.liter] # "none"
    BY <1>2 DEF Sweeping
<1>4. CASE h.liter = Null /\ stack' = Rest /\ h' = h
    <2>1. LiterOK(h, Rest)
        BY <1>4 DEF LiterOK
    <2>2. Under(h', Rest, owner', r, unsent', wfailed') /\ Head(Rest).op = "tick"
        BY <1>1, <1>2, <1>4, <2>1 DEF Sweeping, Under
    <2> QED  BY <1>4, <2>2, DispatchDone
<1>5. ASSUME h.liter # Null, NEW d, h' = [h EXCEPT !.due = d],
             stack' = Push([Top EXCEPT !.pc = "seek", !.c = h.liter, !.s = h.head[h.liter]], Rest)
      PROVE  LInv'
    <2>1. SameBut(h', h, {"due", "liter"}) /\ h'.liter = h.liter
        <3>1. DOMAIN h = Fields
            BY <1>3, HeapFields
        <3> QED  BY <1>5, <3>1 DEF SameBut, Fields
    <2>2. h' \in Heap /\ Sound(h')
        BY DEF IInv, TypeOK
    <2>3. /\ Heaped(h', {}, owner, r, Mode) /\ Unsent(h', unsent)
          /\ \A c \in Contexts : Regular(h', c) = Regular(h, c)
          /\ h'.state = h.state /\ h'.type = h.type /\ h'.head = h.head
        BY <1>3, <2>1, <2>2, Timed
    <2>4. PICK c \in Contexts : c = h.liter
        BY <1>3, <1>5
    <2>5. PICK f : f = [Top EXCEPT !.pc = "seek", !.c = h.liter, !.s = h.head[h.liter]]
        OBVIOUS
    <2>6. f.op = "sweep" /\ f.pc = "seek" /\ f.c = c /\ f.s = h.head[c]
        BY <1>1, <1>3, <2>4, <2>5 DEF Frame
    <2>7. Ordered(h.next, Regular(h, c), h.head[c], r)
        BY <1>3 DEF Heaped, Lists, Threaded
    <2>8. /\ h.head[c] = Null \/ h.head[c] \in Regular(h, c)
          /\ \A x \in Regular(h, c) : h.head[c] # Null /\ r[h.head[c]] <= r[x]
        <3>1. Null \notin Regular(h, c)
            BY AddressesDiffer DEF Regular
        <3> QED  BY <2>7, <3>1 DEF Ordered
    <2>9. f.s \in Sockets => h'.type[f.s] # "free"
        BY <2>3, <2>6, <2>8, AddressesDiffer DEF Regular, Open
    <2>10. h'.state[f.c] # "none"
        BY <1>3, <1>5, <2>3, <2>4, <2>6
    <2>11. Waits(h', f, r)
        BY <2>6, <2>9, <2>10 DEF Waits, FrameAlive, Swept, Visiting
    <2>12. Ahead(h', c, f.s, r)
        BY <2>3, <2>6, <2>8 DEF Ahead
    <2>13. Runs(h', f, r)
        BY <2>3, <2>6, <2>8, <2>12 DEF Runs
    <2>14. h'.liter # Null => h'.state[h'.liter] # "none"
        BY <1>3, <2>1, <2>3
    <2>15. stack' = Push(f, Rest)
        BY <1>5, <2>5
    <2> QED  BY <1>1, <1>2, <2>3, <2>6, <2>11, <2>13, <2>14, <2>15, SweepGoes
<1> QED  BY <1>4, <1>5 DEF SweepContext

\* A sweep that goes on with the successor of a socket that has nothing due.
LEMMA NextAhead ==
    ASSUME NEW g, NEW own, NEW r, Heaped(g, {}, own, r, Mode), NEW c \in Contexts,
           NEW s \in Sockets, s \in Regular(g, c), g.due[s] = {}, Ahead(g, c, s, r)
    PROVE  /\ g.next[s] = Null \/ g.next[s] \in Regular(g, c)
           /\ Ahead(g, c, g.next[s], r)
<1>1. Lists(g, {}, r) /\ Sound(g) /\ r \in [Sockets -> Int]
    BY DEF Heaped, Lists
<1>2. s \in Sockets \ {} /\ Open(g, s) /\ g.ctx[s] \in Contexts
    BY DEF Regular
<1>3. g.next[s] # Null =>
         /\ g.next[s] \in Regular(g, c)
         /\ \A x \in Regular(g, c) : x # s /\ r[s] <= r[x] => r[g.next[s]] <= r[x]
    <2>1. g.next[s] # Null => \A e \in Contexts : s \in Regular(g, e) =>
                 /\ g.next[s] \in Regular(g, e)
                 /\ \A x \in Regular(g, e) \ {} : x # s /\ r[s] <= r[x] => r[g.next[s]] <= r[x]
        BY <1>1, <1>2, NextListed
    <2> QED  BY <2>1
<1>4. Ordered(g.next, Regular(g, c), g.head[c], r)
    BY <1>1 DEF Lists, Threaded
<1>5. ASSUME NEW x \in Regular(g, c), g.due[x] # {}
      PROVE  g.next[s] # Null /\ r[g.next[s]] <= r[x]
    <2>1. r[s] <= r[x] /\ x # s
        BY <1>5 DEF Ahead
    <2>2. r[s] \in Int /\ r[x] \in Int
        BY <1>1 DEF Regular
    <2>3. r[s] < r[x]
        <3>1. r[s] = r[x] => s = x
            BY <1>4 DEF Ordered
        <3> QED  BY <2>1, <2>2, <3>1
    <2>4. g.next[s] # Null
        BY <1>4, <2>3 DEF Ordered
    <2> QED  BY <1>3, <2>1, <2>4
<1> QED  BY <1>3, <1>5 DEF Ahead

LEMMA SweepSeekLoop ==
    ASSUME IInv, IInv', LInv, SweepSeek
    PROVE  LInv'
<1>1. /\ stack # <<>> /\ Top.op = "sweep" /\ Top.pc = "seek"
      /\ owner' = owner /\ wfailed' = wfailed /\ unsent' = unsent
    BY DEF SweepSeek, At
<1>2. PICK r : Sweeping(r)
    BY <1>1, SweepRuns
<1>3. /\ Top \in Frame /\ Rest \in Seq(Frame) /\ Heaped(h, {}, owner, r, Mode)
      /\ Unsent(h, unsent) /\ h \in Heap /\ Sound(h) /\ unsent \in SUBSET Sockets
      /\ h.liter # Null => h.liter \in Contexts /\ h.state[h.liter] # "none"
      /\ Top.s \in SocketPtr /\ Waits(h, Top, r)
    BY <1>2 DEF Sweeping
<1>4. PICK c \in Contexts : c = Top.c
    BY <1>1, <1>2 DEF Sweeping, FrameOK
<1>5. (Top.s = Null \/ Top.s \in Regular(h, c)) /\ Ahead(h, c, Top.s, r) /\ h.state[c] # "none"
    BY <1>1, <1>2, <1>3, <1>4 DEF Sweeping, Runs, Waits, FrameAlive
<1>6. DOMAIN h = Fields /\ h' \in Heap /\ Sound(h')
    BY <1>3, HeapFields DEF IInv, TypeOK
<1>7. CASE /\ Top.s = Null /\ h.liter # Null
           /\ h' = [h EXCEPT !.iter[Top.c] = Null, !.liter = h.cnext[h.liter]]
           /\ stack' = Goto("context")
    <2>1. /\ SameBut(h', h, {"iter", "liter", "due"}) /\ h'.iter = [h.iter EXCEPT ![c] = Null]
          /\ h'.liter = h.cnext[h.liter] /\ h'.state = h.state /\ h'.type = h.type /\ h'.poll = h.poll
        BY <1>4, <1>6, <1>7 DEF SameBut, Fields
    <2>2. PICK v : v = Null
        OBVIOUS
    <2>3. Heaped(h', {}, owner, r, Mode)
        <3>1. h'.iter = [h.iter EXCEPT ![c] = v]
            BY <2>1, <2>2
        <3> QED  BY ZenonT(60), <1>3, <1>6, <2>1, <2>2, <3>1, IterHeap
    <2>4. Unsent(h', unsent)
        BY <1>3, <2>1 DEF Unsent
    <2>5. h'.liter # Null => h'.state[h'.liter] # "none"
        <3>1. PICK e \in Contexts : e = h.liter
            BY <1>3, <1>7
        <3>2. h.state[e] = "live" => (h.cnext[e] # Null => h.state[h.cnext[e]] = "live")
            BY <1>3, LiveLinks DEF Heaped, ContextsOK
        <3>3. h.state[e] = "closed" => (h.cnext[e] # Null => h.state[h.cnext[e]] = "closed")
            BY <1>3 DEF Heaped, ContextsOK, ClosedContexts, Ordered
        <3>4. h.state[e] \in {"live", "closed"}
            BY <1>3, <1>7, <3>1 DEF Heap
        <3> QED  BY <2>1, <3>1, <3>2, <3>3, <3>4
    <2>6. PICK f : f = [Top EXCEPT !.pc = "context"]
        OBVIOUS
    <2>7. f.op = "sweep" /\ f.pc = "context" /\ f.c = c /\ f.s = Null
        BY <1>1, <1>3, <1>4, <1>7, <2>6 DEF Frame
    <2>8. Waits(h', f, r)
        BY <1>5, <2>1, <2>7, AddressesDiffer DEF Waits, FrameAlive, Swept, Visiting
    <2>9. Runs(h', f, r)
        BY <2>7, IdleRuns DEF Idle
    <2>10. stack' = Push(f, Rest)
        BY <1>7, <2>6 DEF Goto
    <2> QED  BY <1>1, <1>2, <2>3, <2>4, <2>5, <2>7, <2>8, <2>9, <2>10, SweepGoes
<1>8. CASE /\ Top.s # Null /\ h.due[Top.s] = {} /\ h' = h
           /\ stack' = Push([Top EXCEPT !.s = h.next[Top.s]], Rest)
    <2>1. Top.s \in Sockets /\ Top.s \in Regular(h, c)
        BY <1>5, <1>8 DEF Regular
    <2>2. /\ h.next[Top.s] = Null \/ h.next[Top.s] \in Regular(h, c)
          /\ Ahead(h, c, h.next[Top.s], r)
        BY <1>3, <1>5, <1>8, <2>1, NextAhead
    <2>3. PICK f : f = [Top EXCEPT !.s = h.next[Top.s]]
        OBVIOUS
    <2>4. f.op = "sweep" /\ f.pc = "seek" /\ f.c = c /\ f.s = h.next[Top.s]
        BY <1>1, <1>3, <1>4, <2>3 DEF Frame
    <2>5. Waits(h, f, r)
        BY <1>5, <2>2, <2>4, AddressesDiffer DEF Waits, FrameAlive, Swept, Visiting, Regular, Open
    <2>6. Runs(h, f, r)
        BY <2>2, <2>4 DEF Runs
    <2>7. stack' = Push(f, Rest)
        BY <1>8, <2>3
    <2> QED  BY <1>1, <1>2, <1>3, <1>8, <2>4, <2>5, <2>6, <2>7, SweepGoes
<1>9. CASE /\ Top.s # Null
           /\ h' = [h EXCEPT !.iter[Top.c] = Top.s, !.due[Top.s] = @ \ {"short"}]
           /\ \/ stack' = Push(Callback("on_timeout", Top.s), Goto("long"))
              \/ stack' = Goto("long")
    <2>1. PICK s \in Sockets : s = Top.s
        BY <1>3, <1>9 DEF SocketPtr
    <2>2. /\ SameBut(h', h, {"iter", "liter", "due"}) /\ h'.iter = [h.iter EXCEPT ![c] = s]
          /\ h'.liter = h.liter /\ h'.state = h.state /\ h'.type = h.type /\ h'.poll = h.poll
          /\ h'.due = [h.due EXCEPT ![s] = @ \ {"short"}]
        BY <1>4, <1>6, <1>9, <2>1 DEF SameBut, Fields
    <2>3. s \in Regular(h, c)
        BY <1>5, <1>9, <2>1
    <2>4. /\ Heaped(h', {}, owner, r, Mode)
          /\ \A e \in Contexts : Regular(h', e) = Regular(h, e)
        BY <1>3, <1>6, <2>2, <2>3, IterHeap
    <2>5. Unsent(h', unsent)
        BY <1>3, <2>2 DEF Unsent
    <2>6. PICK f : f = [Top EXCEPT !.pc = "long"]
        OBVIOUS
    <2>7. f.op = "sweep" /\ f.pc = "long" /\ f.c = c /\ f.s = s
        BY <1>1, <1>3, <1>4, <2>1, <2>6 DEF Frame
    <2>8. SweptAt(h', c, s, {"long"}, r)
        <3>1. h.due \in [Sockets -> SUBSET {"short", "long"}] /\ h.iter \in [Contexts -> SocketPtr]
            BY <1>3 DEF Heap
        <3>2. h'.iter[c] = s /\ h'.due[s] \subseteq {"long"} /\ \A x \in Sockets : h'.due[x] \subseteq h.due[x]
            BY <2>2, <3>1
        <3>3. Regular(h', c) = Regular(h, c) /\ Regular(h, c) \subseteq Sockets
            BY <2>4 DEF Regular
        <3>4. Ahead(h', c, s, r)
            BY <1>5, <2>1, <3>2, <3>3 DEF Ahead
        <3>5. r[s] \in Int
            BY <1>3 DEF Heaped, Lists
        <3>6. r[s] <= r[h'.iter[c]]
            BY <3>2, <3>5
        <3> QED  BY <3>2, <3>4, <3>6 DEF SweptAt
    <2>9. h'.type[s] # "free"
        BY <2>2, <2>3 DEF Regular, Open
    <2>10. Waits(h', f, r)
        BY <1>5, <2>2, <2>7, <2>8, <2>9 DEF Waits, FrameAlive, Swept, Visiting, Left
    <2>11. h'.liter # Null => h'.state[h'.liter] # "none"
        BY <1>3, <2>2
    <2>12. Runs(h', f, r)
        BY <2>7, IdleRuns DEF Idle
    <2>13. f \in Frame
        BY <1>3, <2>6 DEF Frame, Pcs
    <2>14. \/ stack' = Push(Callback("on_timeout", s), Push(f, Rest))
           \/ stack' = Push(f, Rest)
        BY <1>9, <2>1, <2>6 DEF Goto
    <2>15. CASE stack' = Push(f, Rest)
        BY <1>1, <1>2, <2>4, <2>5, <2>7, <2>10, <2>11, <2>12, <2>15, SweepGoes
    <2>16. CASE stack' = Push(Callback("on_timeout", s), Push(f, Rest))
        BY <1>1, <1>2, <2>4, <2>5, <2>7, <2>9, <2>10, <2>11, <2>13, <2>16, SweepCalls
    <2> QED  BY <2>14, <2>15, <2>16
<1> QED  BY <1>7, <1>8, <1>9 DEF SweepSeek

LEMMA SweepLongLoop ==
    ASSUME IInv, IInv', LInv, SweepLong
    PROVE  LInv'
<1>1. /\ stack # <<>> /\ Top.op = "sweep" /\ Top.pc = "long"
      /\ owner' = owner /\ wfailed' = wfailed /\ unsent' = unsent
    BY DEF SweepLong, At
<1>2. PICK r : Sweeping(r)
    BY <1>1, SweepRuns
<1>3. /\ Top \in Frame /\ Rest \in Seq(Frame) /\ Heaped(h, {}, owner, r, Mode)
      /\ Unsent(h, unsent) /\ h \in Heap /\ Sound(h) /\ unsent \in SUBSET Sockets
      /\ h.liter # Null => h.liter \in Contexts /\ h.state[h.liter] # "none"
      /\ Waits(h, Top, r)
    BY <1>2 DEF Sweeping
<1>4. PICK c \in Contexts : c = Top.c
    BY <1>1, <1>2 DEF Sweeping, FrameOK
<1>5. PICK s \in Sockets : s = Top.s
    BY <1>1, <1>2 DEF Sweeping, FrameOK
<1>6. h.state[c] # "none" /\ SweptAt(h, c, s, {"long"}, r)
    BY <1>1, <1>3, <1>4, <1>5 DEF Waits, FrameAlive, Swept, Visiting, Left
<1>7. PICK f : f = [Top EXCEPT !.pc = "step"]
    OBVIOUS
<1>8. f.op = "sweep" /\ f.pc = "step" /\ f.c = c /\ f.s = s
    BY <1>1, <1>3, <1>4, <1>5, <1>7 DEF Frame
<1>9. CASE /\ h.iter[Top.c] = Top.s /\ h' = [h EXCEPT !.due[Top.s] = @ \ {"long"}]
           /\ stack' = Push(Callback("on_long_timeout", Top.s), Goto("step"))
    <2>1. DOMAIN h = Fields /\ h' \in Heap /\ Sound(h')
        BY <1>3, HeapFields DEF IInv, TypeOK
    <2>2. /\ SameBut(h', h, {"due", "liter"}) /\ h'.liter = h.liter
          /\ h'.due = [h.due EXCEPT ![s] = @ \ {"long"}]
        BY <1>5, <1>9, <2>1 DEF SameBut, Fields
    <2>3. /\ Heaped(h', {}, owner, r, Mode) /\ Unsent(h', unsent)
          /\ \A e \in Contexts : Regular(h', e) = Regular(h, e)
          /\ h'.state = h.state /\ h'.type = h.type /\ h'.iter = h.iter
        BY <1>3, <2>1, <2>2, Timed
    <2>4. SweptAt(h', c, s, {}, r)
        <3>1. h.due \in [Sockets -> SUBSET {"short", "long"}]
            BY <1>3 DEF Heap
        <3>2. h.iter[c] = s
            BY <1>4, <1>5, <1>9
        <3>3. h'.due[s] \subseteq {} /\ \A x \in Sockets : h'.due[x] \subseteq h.due[x]
            BY <1>6, <2>2, <3>1, <3>2 DEF SweptAt
        <3>4. Regular(h', c) = Regular(h, c) /\ Regular(h, c) \subseteq Sockets
            BY <2>3 DEF Regular
        <3>5. Ahead(h, c, h.iter[c], r)
            BY <1>6 DEF SweptAt
        <3>6. Ahead(h', c, h'.iter[c], r)
            BY <2>3, <3>3, <3>4, <3>5 DEF Ahead
        <3>7. s \in Regular(h', c) /\ h'.iter[c] # Null => r[s] <= r[h'.iter[c]]
            BY <1>6, <2>3, <3>4 DEF SweptAt
        <3> QED  BY <2>3, <3>2, <3>3, <3>6, <3>7 DEF SweptAt
    <2>5. Waits(h', f, r)
        BY <1>6, <1>8, <2>3, <2>4 DEF Waits, FrameAlive, Swept, Visiting, Left
    <2>6. h'.liter # Null => h'.state[h'.liter] # "none"
        BY <1>3, <2>2, <2>3
    <2>7. f \in Frame
        BY <1>3, <1>7 DEF Frame, Pcs
    <2>8. stack' = Push(Callback("on_long_timeout", s), Push(f, Rest)) /\ h'.type[s] # "free"
        <3>1. s \in Regular(h, c)
            BY <1>3, <1>4, <1>5, <1>9, AddressesDiffer DEF Heaped, Lists
        <3>2. h.type[s] # "free"
            BY <3>1 DEF Regular, Open
        <3> QED  BY <1>5, <1>7, <1>9, <2>3, <3>2 DEF Goto
    <2> QED  BY <1>1, <1>2, <1>8, <2>3, <2>5, <2>6, <2>7, <2>8, SweepCalls
<1>10. CASE /\ ~(h.iter[Top.c] = Top.s /\ "long" \in h.due[Top.s]) /\ stack' = Goto("step") /\ h' = h
    <2>1. SweptAt(h, c, s, {}, r)
        BY <1>4, <1>5, <1>6, <1>10 DEF SweptAt
    <2>2. Waits(h, f, r)
        BY <1>6, <1>8, <2>1 DEF Waits, FrameAlive, Swept, Visiting, Left
    <2>3. Runs(h, f, r)
        BY <1>8, IdleRuns DEF Idle
    <2>4. stack' = Push(f, Rest)
        BY <1>7, <1>10 DEF Goto
    <2> QED  BY <1>1, <1>2, <1>3, <1>8, <1>10, <2>2, <2>3, <2>4, SweepGoes
<1> QED  BY <1>9, <1>10 DEF SweepLong

LEMMA SweepStepLoop ==
    ASSUME IInv, LInv, SweepStep
    PROVE  LInv'
<1>1. /\ stack # <<>> /\ Top.op = "sweep" /\ Top.pc = "step" /\ h' = h
      /\ owner' = owner /\ wfailed' = wfailed /\ unsent' = unsent
    BY DEF SweepStep, At
<1>2. PICK r : Sweeping(r)
    BY <1>1, SweepRuns
<1>3. /\ Top \in Frame /\ Rest \in Seq(Frame) /\ Heaped(h, {}, owner, r, Mode)
      /\ Unsent(h, unsent) /\ h \in Heap
      /\ h.liter # Null => h.liter \in Contexts /\ h.state[h.liter] # "none"
      /\ Waits(h, Top, r)
    BY <1>2 DEF Sweeping
<1>4. PICK c \in Contexts : c = Top.c
    BY <1>1, <1>2 DEF Sweeping, FrameOK
<1>5. PICK s \in Sockets : s = Top.s
    BY <1>1, <1>2 DEF Sweeping, FrameOK
<1>6. h.state[c] # "none" /\ SweptAt(h, c, s, {}, r)
    BY <1>1, <1>3, <1>4, <1>5 DEF Waits, FrameAlive, Swept, Visiting, Left
<1>7. PICK p : p = IF h.iter[c] = s THEN h.next[s] ELSE h.iter[c]
    OBVIOUS
<1>8. h.iter[c] # Null => h.iter[c] \in Regular(h, c)
    BY <1>3 DEF Heaped, Lists
<1>9. (p = Null \/ p \in Regular(h, c)) /\ Ahead(h, c, p, r)
    <2>1. CASE h.iter[c] = s
        <3>1. s \in Regular(h, c)
            BY <1>8, <2>1, AddressesDiffer
        <3>2. h.due[s] = {} /\ Ahead(h, c, s, r)
            BY <1>6, <2>1 DEF SweptAt
        <3> QED  BY <1>3, <1>7, <2>1, <3>1, <3>2, NextAhead
    <2>2. CASE h.iter[c] # s
        BY <1>6, <1>7, <1>8, <2>2 DEF SweptAt
    <2> QED  BY <2>1, <2>2
<1>10. PICK f : f = [Top EXCEPT !.pc = "seek", !.s = p]
    OBVIOUS
<1>11. f.op = "sweep" /\ f.pc = "seek" /\ f.c = c /\ f.s = p
    BY <1>1, <1>3, <1>4, <1>10 DEF Frame
<1>12. Waits(h, f, r)
    BY <1>6, <1>9, <1>11, AddressesDiffer DEF Waits, FrameAlive, Swept, Visiting, Regular, Open
<1>13. Runs(h, f, r)
    BY <1>9, <1>11 DEF Runs
<1>14. stack' = Push(f, Rest)
    BY <1>4, <1>5, <1>7, <1>10 DEF SweepStep
<1> QED  BY <1>1, <1>2, <1>3, <1>11, <1>12, <1>13, <1>14, SweepGoes

-----------------------------------------------------------------------------
(* Callbacks and the calls they make.                                      *)

LEMMA ReturnLoop ==
    ASSUME Tame, IInv, LInv, Return
    PROVE  LInv'
<1>1. /\ stack # <<>> /\ Top.op = "cb" /\ h' = h
      /\ owner' = owner /\ wfailed' = wfailed /\ unsent' = unsent
    BY DEF Return
<1>2. /\ Top \in Frame /\ Rest \in Seq(Frame) /\ FrameOK(Top)
    BY <1>1, Running
<1>3. PICK r : Under(h, Push(Top, Rest), owner, r, unsent, wfailed)
    BY <1>1, Opened
<1>4. /\ Base(h, Rest, owner, r) /\ Waits(h, Top, r)
      /\ Under(h, Rest, owner, r, unsent, wfailed)
      /\ Writing(Top) /\ Top.s \in unsent => wfailed
      /\ Rest # <<>> /\ Follows(Top, Head(Rest))
    BY <1>1, <1>2, <1>3, UnderPop
<1>5. CalledFrom(Top, Head(Rest))
    BY <1>1, <1>4 DEF Follows
<1>6. CASE Head(Rest).op = "dispatch"
    <2>1. PICK d \in Frame, t \in Seq(Frame) : d = Head(Rest) /\ t = Tail(Rest) /\ Rest = Push(d, t)
        <3>1. /\ Head(Rest) \in Frame /\ Tail(Rest) \in Seq(Frame)
              /\ Rest = Push(Head(Rest), Tail(Rest))
            BY <1>2, <1>4 DEF Push
        <3> QED  BY <3>1
    <2>2. /\ Top.pc \in {"on_data", "on_end", "on_writable"}
          /\ d.pc \in {"received", "wrote", "ended", "error"}
          /\ Top.pc = "on_writable" <=> d.pc = "wrote"
          /\ "adopt" \notin Calls => Top.s = d.s
        BY <1>5, <1>6, <2>1 DEF CalledFrom
    <2>3. Top.s \in Sockets /\ Top.s # Null
        BY <1>1, <1>2, <2>2, AddressesDiffer DEF FrameOK
    <2>4. Under(h, Push(d, t), owner, r, unsent, wfailed)
        BY <1>4, <2>1
    <2>5. /\ Under(h, t, owner, r, unsent, wfailed) /\ Waits(h, d, r)
          /\ t = <<>> => d.op \in {"tick", "cclose"}
          /\ t # <<>> => Follows(d, Head(t))
        BY <1>6, <2>1, <2>4, UnderPop
    <2>6. t # <<>> /\ Head(t).op = "tick"
        BY <1>6, <2>1, <2>5 DEF Follows
    <2>7. PICK e : e = [d EXCEPT !.s = Top.s]
        OBVIOUS
    <2>8. e.op = "dispatch" /\ e.pc = d.pc /\ e.s = Top.s /\ e.c = d.c /\ e.ev = d.ev
        BY <1>6, <2>1, <2>7 DEF Frame
    <2>9. stack' = Push(e, t)
        BY <1>4, <1>6, <2>1, <2>3, <2>7 DEF Return
    <2>10. /\ d.c \in Contexts => h.state[d.c] # "none"
           /\ d.s \in Sockets /\ "R" \in d.ev /\ d.pc = "wrote" => (Open(h, d.s) => h.low[d.s] # 1)
        BY <1>6, <2>1, <2>5 DEF Waits, FrameAlive
    <2>11. "R" \in e.ev /\ e.pc \in {"writable", "wrote", "readable"}
             => (Open(h, e.s) => h.low[e.s] # 1)
        <3>1. CASE "adopt" \notin Calls
            BY <2>2, <2>3, <2>8, <2>10, <3>1
        <3>2. CASE "adopt" \in Calls
            <4>1. Mode.plain
                BY <3>2 DEF Tame, Mode
            <4>2. Modes(h, Mode)
                BY <1>4 DEF Base, Heaped
            <4> QED  BY <2>3, <2>8, <4>1, <4>2 DEF Modes
        <3> QED  BY <3>1, <3>2
    <2>12. Flagged /\ e.pc = "wrote" /\ e.s \in unsent => wfailed
        BY <1>1, <1>4, <2>2, <2>8 DEF Writing
    <2>13. Under(h, Push(e, t), owner, r, unsent, wfailed)
        BY <2>5, <2>6, <2>8, <2>10, <2>11, <2>12, DispatchOn
    <2>14. h.type[Top.s] \in {"socket", "shut"}
        BY <1>1, <1>4, <2>2, <2>3 DEF Waits, FrameAlive
    <2>15. Runs(h, e, r)
        BY <2>2, <2>8, <2>14 DEF Runs
    <2>16. Head(Push(e, t)) = e
        BY PushTop
    <2> QED  BY <1>1, <2>9, <2>13, <2>15, <2>16, Stands
<1>7. CASE Head(Rest).op # "dispatch"
    <2>1. stack' = Rest
        BY <1>7 DEF Return
    <2>2. Idle(Head(Rest))
        BY <1>5, <1>7 DEF CalledFrom, Idle
    <2>3. Runs(h, Head(Rest), r)
        BY <2>2, IdleRuns
    <2> QED  BY <1>1, <1>4, <2>1, <2>3, Stands
<1> QED  BY <1>6, <1>7

LEMMA CreateLoop ==
    ASSUME IInv, LInv, NEW c \in Contexts, Create(c)
    PROVE  LInv'
<1>1. /\ stack # <<>> => Top.op = "cb" /\ Top.n > 0
      /\ stack' = Caller /\ unsent' = unsent /\ wfailed' = wfailed
      /\ h.state[c] = "none" /\ h' = CreateContext(h, c) /\ owner' = owner \cup {c}
    BY DEF Create, MayCall
<1>2. ASSUME NEW r, Heaped(h, Closes(stack), owner, r, Mode)
      PROVE  Moves(h, Closes(stack), owner, r, h', Closes(stack), owner', Mode)
    BY <1>1, <1>2, CreateMoves
<1> QED  BY <1>1, <1>2, CallStep

LEMMA FreeLoop ==
    ASSUME IInv, LInv, NEW c \in Contexts, Free(c)
    PROVE  LInv'
<1>1. /\ stack # <<>> => Top.op = "cb" /\ Top.n > 0
      /\ stack' = Caller /\ unsent' = unsent /\ wfailed' = wfailed
      /\ c \in owner /\ h' = Unref(h, c) /\ owner' = owner \ {c}
    BY DEF Free, MayCall
<1>2. ASSUME NEW r, Heaped(h, Closes(stack), owner, r, Mode)
      PROVE  Moves(h, Closes(stack), owner, r, h', Closes(stack), owner', Mode)
    BY <1>1, <1>2, UnrefMoves
<1> QED  BY <1>1, <1>2, CallStep

\* A context that its creator holds is referenced.
LEMMA OwnedReferenced ==
    ASSUME NEW g, NEW K, NEW own, NEW r, NEW m, Heaped(g, K, own, r, m), NEW c \in Contexts, c \in own
    PROVE  g.ref[c] >= 1 /\ g.state[c] = "live"
<1>1. Covered(g, K, own, m.plain) /\ ContextsOK(g) /\ g \in Heap
    BY DEF Heaped, Sound
<1>2. g.ref \in [Contexts -> Int]
    BY <1>1 DEF Heap
<1>3. g.ref[c] >= 1
    BY <1>1, <1>2, HeldReferenced
<1>4. g.ref[c] \in Int
    BY <1>2
<1> QED  BY <1>1, <1>3, <1>4 DEF ContextsOK

LEMMA OpenSocketLoop ==
    ASSUME IInv, LInv, NEW c \in Contexts, NEW s \in Sockets, OpenSocket(c, s)
    PROVE  LInv'
<1>1. /\ stack # <<>> => Top.op = "cb" /\ Top.n > 0
      /\ stack' = Caller /\ unsent' = unsent /\ wfailed' = wfailed /\ owner' = owner
      /\ c \in owner /\ h.type[s] = "free"
      /\ h' = NewSocket(h, c, s, "listen", {"R"}) \/ h' = NewSocket(h, c, s, "semi", {"W"})
    BY DEF OpenSocket, MayCall
<1>2. ASSUME NEW r, Heaped(h, Closes(stack), owner, r, Mode)
      PROVE  Moves(h, Closes(stack), owner, r, h', Closes(stack), owner', Mode)
    <2>1. h.ref[c] >= 1
        BY <1>1, <1>2, OwnedReferenced
    <2>2. {"R"} \in SUBSET Directions /\ {"W"} \in SUBSET Directions
        BY DEF Directions
    <2>3. CASE h' = NewSocket(h, c, s, "listen", {"R"})
        BY <1>1, <1>2, <2>1, <2>2, <2>3, NewSocketMoves
    <2>4. CASE h' = NewSocket(h, c, s, "semi", {"W"})
        BY <1>1, <1>2, <2>1, <2>2, <2>4, NewSocketMoves
    <2> QED  BY <1>1, <2>3, <2>4
<1> QED  BY <1>1, <1>2, CallStep

LEMMA CloseListenLoop ==
    ASSUME IInv, LInv, NEW s \in Sockets, CloseListen(s)
    PROVE  LInv'
<1>1. /\ stack # <<>> => Top.op = "cb" /\ Top.n > 0
      /\ stack' = Caller /\ unsent' = unsent /\ wfailed' = wfailed /\ owner' = owner
      /\ Open(h, s) /\ h.type[s] = "listen" /\ h' = ListenClose(h, s)
    BY DEF CloseListen, MayCall
<1>2. ASSUME NEW r, Heaped(h, Closes(stack), owner, r, Mode)
      PROVE  Moves(h, Closes(stack), owner, r, h', Closes(stack), owner', Mode)
    BY <1>1, <1>2, ListenCloseMoves
<1> QED  BY <1>1, <1>2, CallStep

LEMMA DetachSocketLoop ==
    ASSUME IInv, LInv, NEW s \in Sockets, DetachSocket(s)
    PROVE  LInv'
<1>1. /\ stack # <<>> => Top.op = "cb" /\ Top.n > 0
      /\ stack' = Caller /\ unsent' = unsent /\ wfailed' = wfailed /\ owner' = owner
      /\ Open(h, s) /\ h.type[s] # "listen" /\ h' = Detach(h, s)
    BY DEF DetachSocket, MayCall
<1>2. ASSUME NEW r, Heaped(h, Closes(stack), owner, r, Mode)
      PROVE  Moves(h, Closes(stack), owner, r, h', Closes(stack), owner', Mode)
    BY <1>1, <1>2, DetachMoves
<1> QED  BY <1>1, <1>2, CallStep

\* The stack under a call.
LEMMA CallerUnder ==
    ASSUME IInv, LInv, stack # <<>> => Top.op = "cb" /\ Top.n > 0
    PROVE  \E r : Under(h, Caller, owner, r, unsent, wfailed)
<1>1. /\ \A x \in Frames(stack) : \E y \in Frames(Caller) : x.op = y.op
      /\ \A y \in Frames(Caller) : \E x \in Frames(stack) : SameFrame(y, x)
      /\ \A g, own, r : Base(g, stack, own, r) => Base(g, Caller, own, r)
    BY CallerStack
<1>2. PICK r : Base(h, stack, owner, r)
    BY DEF LInv, Based
<1>3. Base(h, Caller, owner, r)
    BY <1>1, <1>2
<1>4. LiterOK(h, Caller)
    BY <1>1 DEF LInv, LiterOK
<1>5. Written(Caller, unsent, wfailed)
    BY <1>1 DEF LInv, Written, Writing, SameFrame
<1> QED  BY <1>3, <1>4, <1>5 DEF Under, LInv

LEMMA CloseLoop ==
    ASSUME IInv, LInv, NEW s \in Sockets, Close(s)
    PROVE  LInv'
<1>1. /\ stack # <<>> => Top.op = "cb" /\ Top.n > 0
      /\ unsent' = unsent /\ wfailed' = wfailed /\ owner' = owner
      /\ Open(h, s) /\ h.type[s] # "listen" /\ SocketClose(s, Caller)
    BY DEF Close, MayCall
<1>2. /\ Caller \in Seq(Frame) /\ (Caller # <<>> => Head(Caller).op = "cb")
    BY <1>1, CallerStack
<1>3. Resting(h, Caller, owner, unsent, wfailed)
    BY <1>1, CallerUnder DEF Resting, Under
<1>4. Calm(Caller)
    BY <1>2 DEF Calm
<1> QED  BY <1>1, <1>2, <1>3, <1>4, SocketCloseLoop

LEMMA CloseContextLoop ==
    ASSUME IInv, LInv, NEW c \in Contexts, CloseContext(c)
    PROVE  LInv'
<1>1. /\ stack # <<>> => Top.op = "cb" /\ Top.n > 0
      /\ unsent' = unsent /\ wfailed' = wfailed /\ owner' = owner /\ h' = h
      /\ c \in owner
      /\ stack' = Push(Fr("cclose", "listening", h.lhead[c], c, {}), Caller)
    BY DEF CloseContext, MayCall
<1>2. /\ Caller \in Seq(Frame) /\ (Caller # <<>> => Head(Caller).op = "cb")
    BY <1>1, CallerStack
<1>3. PICK r : Under(h, Caller, owner, r, unsent, wfailed)
    BY <1>1, CallerUnder
<1>4. Heaped(h, Closes(Caller), owner, r, Mode)
    BY <1>3 DEF Under, Base
<1>5. h.state[c] = "live"
    BY <1>1, <1>4, OwnedReferenced
<1>6. h.lhead[c] # Null => h.lhead[c] \in Listening(h, c)
    BY <1>4 DEF Heaped, Lists, Threaded, Ordered
<1>7. PICK f : f = Fr("cclose", "listening", h.lhead[c], c, {})
    OBVIOUS
<1>8. f.op = "cclose" /\ f.pc = "listening" /\ f.s = h.lhead[c] /\ f.c = c
    BY <1>7 DEF Fr
<1>9. f.s \in Sockets => h.type[f.s] # "free"
    BY <1>6, <1>8, AddressesDiffer DEF Listening, Open
<1>10. Waits(h, f, r)
    BY <1>5, <1>8, <1>9 DEF Waits, FrameAlive, Swept, Visiting
<1>11. Caller # <<>> => Follows(f, Head(Caller))
    BY <1>2, <1>8 DEF Follows
<1>12. Under(h, Push(f, Caller), owner, r, unsent, wfailed)
    BY <1>2, <1>3, <1>8, <1>10, <1>11, UnderPush DEF Writing
<1>13. Runs(h, f, r)
    BY <1>6, <1>8 DEF Runs
<1>14. Head(Push(f, Caller)) = f
    BY <1>2, PushTop
<1> QED  BY <1>1, <1>7, <1>12, <1>13, <1>14, Stands

\* The calls that change what a socket polls for, and whether it was shut down.
PollWritten(k, g, s, d, v) ==
    /\ SameBut(k, g, {"poll", "paused", "type"})
    /\ k.poll = [g.poll EXCEPT ![s] = d] /\ k.type = [g.type EXCEPT ![s] = v]

\* The fields that the calls below write: one poll, with a type or a pause.
LEMMA PollWrites ==
    ASSUME NEW g \in Heap, NEW s \in Sockets, NEW d, NEW v, NEW b, NEW k,
           \/ k = [PollChange(g, s, d) EXCEPT !.type[s] = v]
           \/ v = g.type[s] /\ k = [PollChange(g, s, d) EXCEPT !.paused[s] = b]
           \/ v = g.type[s] /\ k = PollChange([g EXCEPT !.paused[s] = b], s, d)
           \/ v = g.type[s] /\ k = PollChange(g, s, d)
           \/ v = g.type[s] /\ d = g.poll[s] /\ k = [g EXCEPT !.paused[s] = b]
    PROVE  PollWritten(k, g, s, d, v)
<1>1. DOMAIN g = Fields
    BY HeapFields
<1>2. /\ g.type = [g.type EXCEPT ![s] = g.type[s]]
      /\ g.poll = [g.poll EXCEPT ![s] = g.poll[s]]
    BY DEF Heap
<1>3. CASE k = [PollChange(g, s, d) EXCEPT !.type[s] = v]
    BY <1>1, <1>3 DEF PollChange, PollWritten, SameBut, Fields
<1>4. CASE v = g.type[s] /\ k = [PollChange(g, s, d) EXCEPT !.paused[s] = b]
    BY <1>1, <1>2, <1>4 DEF PollChange, PollWritten, SameBut, Fields
<1>5. CASE v = g.type[s] /\ k = PollChange([g EXCEPT !.paused[s] = b], s, d)
    BY <1>1, <1>2, <1>5 DEF PollChange, PollWritten, SameBut, Fields
<1>6. CASE v = g.type[s] /\ k = PollChange(g, s, d)
    BY <1>1, <1>2, <1>6 DEF PollChange, PollWritten, SameBut, Fields
<1>7. CASE v = g.type[s] /\ d = g.poll[s] /\ k = [g EXCEPT !.paused[s] = b]
    BY <1>1, <1>2, <1>7 DEF PollWritten, SameBut, Fields
<1> QED  BY <1>3, <1>4, <1>5, <1>6, <1>7

\* Such a write leaves a heap and keeps what the frames rely on.
LEMMA PollWrittenMoves ==
    ASSUME NEW g, NEW K, NEW own, NEW r, Heaped(g, K, own, r, Mode), NEW s \in Sockets,
           NEW d, NEW v, NEW k, Sound(k), PollWritten(k, g, s, d, v),
           g.type[s] \notin {"free", "listen"},
           v = g.type[s] \/ (g.type[s] \in {"socket", "semi"} /\ v = "shut"),
           v = "socket" /\ "W" \in g.poll[s] => "W" \in d,
           "R" \in d => "R" \in g.poll[s] \/ Mode.plain
    PROVE  Moves(g, K, own, r, k, K, own, Mode)
<1>1. Sound(g) /\ Modes(g, Mode)
    BY DEF Heaped
<1>2. g \in Heap /\ k \in Heap
    BY <1>1 DEF Sound
<1>3. /\ k.type[s] = v /\ k.poll[s] = d
      /\ \A t \in Sockets \ {s} : k.type[t] = g.type[t] /\ k.poll[t] = g.poll[t]
    BY <1>2 DEF PollWritten, Heap
<1>4. k.low = g.low /\ k.due = g.due /\ k.liter = g.liter /\ k.ctx = g.ctx /\ k.prev = g.prev
    BY DEF PollWritten, SameBut, Fields
<1>5. SameBut(k, g, QuietFields)
    BY DEF PollWritten, SameBut, QuietFields
<1>6. Quiet(k, g)
    BY <1>2, <1>3, <1>4, <1>5 DEF Quiet
<1>7. Modes(k, Mode)
    <2>1. SUFFICES ASSUME NEW t \in Sockets, Open(k, t)
                   PROVE  /\ Mode.plain => k.low[t] = 0
                          /\ k.low[t] = 1 => k.type[t] \in {"socket", "shut"} /\ "R" \notin k.poll[t]
                          /\ k.type[t] = "listen" => k.poll[t] = {"R"}
        BY DEF Modes
    <2>2. Open(g, t)
        BY <1>3, <1>4, <2>1 DEF Open, IsClosed
    <2>3. /\ Mode.plain => g.low[t] = 0
          /\ g.low[t] = 1 => g.type[t] \in {"socket", "shut"} /\ "R" \notin g.poll[t]
          /\ g.type[t] = "listen" => g.poll[t] = {"R"}
        BY <1>1, <2>2 DEF Modes
    <2>4. CASE t = s
        BY <1>3, <1>4, <2>3, <2>4
    <2>5. CASE t # s
        BY <1>3, <1>4, <2>3, <2>5
    <2> QED  BY <2>4, <2>5
<1>8. \A t \in Sockets :
         \/ k.type[t] = g.type[t] /\ (g.type[t] = "socket" /\ "W" \in g.poll[t] => "W" \in k.poll[t])
         \/ g.type[t] \in {"socket", "semi"} /\ k.type[t] = "shut"
    BY <1>3
<1> QED  BY <1>4, <1>6, <1>7, <1>8, QuietMoves

LEMMA PollCallLoop ==
    ASSUME IInv, IInv', LInv, stack # <<>> => Top.op = "cb" /\ Top.n > 0, stack' = Caller,
           owner' = owner, NEW s \in Sockets, NEW d, NEW v, PollWritten(h', h, s, d, v),
           h.type[s] \notin {"free", "listen"},
           v = h.type[s] \/ (h.type[s] \in {"socket", "semi"} /\ v = "shut"),
           v = "socket" /\ "W" \in h.poll[s] => "W" \in d,
           "R" \in d => "R" \in h.poll[s] \/ Mode.plain
    PROVE  /\ Based(h', stack', owner') /\ LiterOK(h', stack')
           /\ Unsent(h', unsent)
           /\ unsent' = unsent /\ wfailed' = wfailed => LInv'
<1>1. Sound(h')
    BY DEF IInv
<1>2. ASSUME NEW r, Heaped(h, Closes(stack), owner, r, Mode)
      PROVE  Moves(h, Closes(stack), owner, r, h', Closes(stack), owner', Mode)
    BY <1>1, <1>2, PollWrittenMoves
<1> QED  BY <1>2, CallStep

LEMMA ShutdownLoop ==
    ASSUME IInv, IInv', LInv, NEW s \in Sockets, Shutdown(s)
    PROVE  LInv'
<1>1. /\ stack # <<>> => Top.op = "cb" /\ Top.n > 0
      /\ stack' = Caller /\ unsent' = unsent /\ wfailed' = wfailed /\ owner' = owner
      /\ h.type[s] \in {"socket", "semi"}
    BY DEF Shutdown, MayCall
<1>2. PICK d : d = h.poll[s] \cap {"R"}
    OBVIOUS
<1>3. h \in Heap
    BY DEF IInv, TypeOK
<1>4. PollWritten(h', h, s, d, "shut")
    BY <1>2, <1>3, PollWrites DEF Shutdown
<1>5. "R" \in d => "R" \in h.poll[s]
    BY <1>2
<1> QED  BY <1>1, <1>4, <1>5, PollCallLoop

LEMMA WriteFailedLoop ==
    ASSUME Tame, IInv, IInv', LInv, NEW s \in Sockets, WriteFailed(s)
    PROVE  LInv'
<1>1. /\ stack # <<>> => Top.op = "cb" /\ Top.n > 0
      /\ stack' = Caller /\ unsent' = unsent \cup {s} /\ owner' = owner
      /\ h.type[s] = "socket" /\ h' = PollChange(h, s, {"R", "W"})
      /\ Calls \cap {"write", "write2"} # {} /\ (Flagged => wfailed')
    BY DEF WriteFailed, MayCall, Flagged
<1>2. h \in Heap
    BY DEF IInv, TypeOK
<1>3. PollWritten(h', h, s, {"R", "W"}, "socket")
    BY <1>1, <1>2, PollWrites
<1>4. Mode.plain
    BY <1>1 DEF Tame, Mode
<1>5. Based(h', stack', owner') /\ LiterOK(h', stack') /\ Unsent(h', unsent)
    BY <1>1, <1>3, <1>4, PollCallLoop
<1>6. h'.type[s] = "socket" /\ "W" \in h'.poll[s]
    BY <1>2, <1>3 DEF PollWritten, Heap
<1>7. Unsent(h', unsent')
    BY <1>1, <1>5, <1>6 DEF Unsent
<1>8. Written(stack', unsent', wfailed')
    BY <1>1 DEF Written, Writing
<1> QED  BY <1>5, <1>7, <1>8 DEF LInv

LEMMA PauseLoop ==
    ASSUME Tame, IInv, IInv', LInv, NEW s \in Sockets, Pause(s)
    PROVE  LInv'
<1>1. /\ stack # <<>> => Top.op = "cb" /\ Top.n > 0
      /\ stack' = Caller /\ unsent' = unsent /\ wfailed' = wfailed /\ owner' = owner
      /\ h.type[s] \in {"socket", "shut", "semi"}
    BY DEF Pause, Pausable, MayCall
<1>2. h \in Heap
    BY DEF IInv, TypeOK
<1>3. h' = [PollChange(h, s, {"W"}) EXCEPT !.paused[s] = TRUE]
    BY DEF Pause
<1>4. PollWritten(h', h, s, {"W"}, h.type[s])
    BY <1>2, <1>3, PollWrites
<1> QED  BY <1>1, <1>4, PollCallLoop

LEMMA ResumeLoop ==
    ASSUME Tame, IInv, IInv', LInv, NEW s \in Sockets, Resume(s)
    PROVE  LInv'
<1>1. /\ stack # <<>> => Top.op = "cb" /\ Top.n > 0
      /\ stack' = Caller /\ unsent' = unsent /\ wfailed' = wfailed /\ owner' = owner
      /\ h.type[s] \in {"socket", "shut", "semi"} /\ "pause" \in Calls
    BY DEF Resume, Pausable, MayCall
<1>2. h \in Heap
    BY DEF IInv, TypeOK
<1>3. Mode.plain
    BY <1>1 DEF Tame, Mode
<1>4. CASE IsClosed(h, s)
    <2>1. h' = [h EXCEPT !.paused[s] = FALSE]
        BY <1>4 DEF Resume
    <2>2. PollWritten(h', h, s, h.poll[s], h.type[s])
        BY <1>2, <2>1, PollWrites
    <2> QED  BY <1>1, <2>2, PollCallLoop
<1>5. CASE ~IsClosed(h, s)
    <2>1. PICK d : d = IF h.type[s] = "shut" THEN {"R"} ELSE {"R", "W"}
        OBVIOUS
    <2>2. h' = PollChange([h EXCEPT !.paused[s] = FALSE], s, d)
        BY <1>5, <2>1 DEF Resume
    <2>3. PollWritten(h', h, s, d, h.type[s])
        BY <1>2, <2>2, PollWrites
    <2>4. h.type[s] = "socket" /\ "W" \in h.poll[s] => "W" \in d
        BY <2>1
    <2> QED  BY <1>1, <1>3, <2>3, <2>4, PollCallLoop
<1> QED  BY <1>4, <1>5

\* us_socket_context_adopt_socket.
Adopts == {"on_open", "on_data", "on_end", "on_writable", "on_timeout", "on_long_timeout"}

\* What a callback that upgrades its socket s into n stands on.
Upgrading(r, s, n, c) ==
    /\ Top \in Frame /\ Rest \in Seq(Frame) /\ Rest # <<>> /\ Top.op = "cb" /\ Top.s = s
    /\ Top.pc \in Adopts /\ CalledFrom(Top, Head(Rest))
    /\ Under(h, Rest, owner, r, unsent, wfailed) /\ Waits(h, Top, r)
    /\ Writing(Top) /\ s \in unsent => wfailed
    /\ s \in Sockets /\ Open(h, s) /\ h.type[s] = "socket" /\ (n = s \/ h.type[n] = "free")
    /\ "adopt" \in Calls /\ Mode.plain /\ c \in owner
    /\ unsent \in SUBSET Sockets /\ Unsent(h, unsent)
    /\ h' = Adopt(h, c, s, n)
    /\ unsent' = IF s \in unsent THEN (unsent \ {s}) \cup {n} ELSE unsent
    /\ wfailed' = wfailed /\ owner' = owner

\* What the invariant says of a callback that adopts its socket.
LEMMA AdoptStarts ==
    ASSUME Tame, IInv, LInv, NEW c \in Contexts, NEW n \in Sockets, AdoptSocket(c, n)
    PROVE  \E r : Upgrading(r, Top.s, n, c)
<1>1. /\ stack # <<>> /\ Top.op = "cb" /\ "adopt" \in Calls /\ c \in owner
      /\ Top.pc \in Adopts
      /\ Open(h, Top.s) /\ h.type[Top.s] = "socket" /\ (n = Top.s \/ h.type[n] = "free")
      /\ h' = Adopt(h, c, Top.s, n)
      /\ unsent' = IF Top.s \in unsent THEN (unsent \ {Top.s}) \cup {n} ELSE unsent
      /\ wfailed' = wfailed /\ owner' = owner
    BY DEF AdoptSocket, MayCall, Adopts
<1>2. /\ Top \in Frame /\ Rest \in Seq(Frame) /\ FrameOK(Top)
    BY <1>1, Running
<1>3. PICK r : Under(h, Push(Top, Rest), owner, r, unsent, wfailed)
    BY <1>1, Opened
<1>4. /\ Base(h, Rest, owner, r) /\ Waits(h, Top, r)
      /\ Under(h, Rest, owner, r, unsent, wfailed) /\ Unsent(h, unsent)
      /\ Writing(Top) /\ Top.s \in unsent => wfailed
      /\ Rest # <<>> /\ Follows(Top, Head(Rest))
    BY <1>1, <1>2, <1>3, UnderPop
<1>5. CalledFrom(Top, Head(Rest))
    BY <1>1, <1>4 DEF Follows
<1>6. Top.s \in Sockets
    BY <1>1, <1>2 DEF FrameOK, Adopts
<1>7. Mode.plain
    BY <1>1 DEF Tame, Mode
<1>8. unsent \in SUBSET Sockets
    BY DEF IInv, TypeOK
<1> QED  BY <1>1, <1>2, <1>4, <1>5, <1>6, <1>7, <1>8 DEF Upgrading

\* The heap after it, and what the functions below make of it.
Upgraded(r, q, s, n) ==
    /\ Heaped(h', {}, owner, q, Mode) /\ SweepKept(h, h', r, q) /\ h'.liter = h.liter /\ Unsent(h', unsent')
    /\ h'.type[n] = "socket"
    /\ \A t \in Sockets \ {s} : h.type[t] # "free" => h'.type[t] = h.type[t]
    /\ \A e \in Contexts : h.state[e] # "none" => h'.state[e] # "none"

\* Leaving one context, moving and joining the other leaves a heap.
LEMMA UpgradedHeap ==
    ASSUME NEW r, NEW s, NEW n \in Sockets, NEW c \in Contexts, Upgrading(r, s, n, c),
           Heaped(h, {}, owner, r, Mode)
    PROVE  \E q : Upgraded(r, q, s, n)
<1>1. /\ s \in Sockets /\ Open(h, s) /\ h.type[s] = "socket" /\ (n = s \/ h.type[n] = "free")
      /\ Mode.plain /\ c \in owner /\ h' = Adopt(h, c, s, n)
      /\ unsent \in SUBSET Sockets /\ Unsent(h, unsent)
      /\ unsent' = IF s \in unsent THEN (unsent \ {s}) \cup {n} ELSE unsent
    BY DEF Upgrading
<1>2. PICK g : g = Adopt(h, c, s, n)
    OBVIOUS
<1>3. PICK m : m = Mode
    OBVIOUS
<1>4. m.plain /\ Heaped(h, {}, owner, r, m)
    BY <1>1, <1>3
<1>5. /\ g.liter = h.liter /\ \E q : Heaped(g, {}, owner, q, m) /\ SweepKept(h, g, r, q)
      /\ Open(g, n) /\ g.type[n] = "socket" /\ g.poll[n] = h.poll[s]
      /\ \A t \in Sockets \ {s, n} : g.poll[t] = h.poll[t]
      /\ \A t \in Sockets \ {s} : h.type[t] # "free" => g.type[t] = h.type[t]
      /\ \A e \in Contexts : h.state[e] # "none" => g.state[e] # "none"
    BY <1>1, <1>2, <1>4, AdoptHeap
<1>6. Unsent(g, unsent')
    <2>1. SUFFICES ASSUME NEW x \in unsent'
                   PROVE  /\ g.type[x] \in {"socket", "shut"}
                          /\ Flagged /\ g.type[x] = "socket" => "W" \in g.poll[x]
        BY DEF Unsent
    <2>2. \A t \in unsent : /\ h.type[t] \in {"socket", "shut"}
                            /\ Flagged /\ h.type[t] = "socket" => "W" \in h.poll[t]
        BY <1>1 DEF Unsent
    <2>3. CASE x = n /\ s \in unsent
        BY <1>1, <1>5, <2>2, <2>3
    <2>4. CASE x \in unsent /\ x # s
        <3>1. x \in Sockets /\ x # n
            BY <1>1, <2>2, <2>4
        <3> QED  BY <1>5, <2>2, <2>4, <3>1
    <2> QED  BY <1>1, <2>1, <2>3, <2>4
<1>7. PICK q : Heaped(g, {}, owner, q, m) /\ SweepKept(h, g, r, q)
    BY <1>5
<1>8. h' = g
    BY <1>1, <1>2
<1> QED  BY <1>3, <1>5, <1>6, <1>7, <1>8 DEF Upgraded

\* A sweep that waits for a callback visits a socket.
LEMMA OnSweep ==
    ASSUME NEW f, f.pc \in Adopts, NEW g, g.op = "sweep", CalledFrom(f, g)
    PROVE  Visiting(g)
    BY DEF Adopts, CalledFrom, Visiting

\* ... and needs nothing of that socket but what its iterator has passed.
LEMMA SweepWaits ==
    ASSUME NEW g, NEW k, NEW r, NEW q, NEW f, f.op = "sweep", Visiting(f), Waits(g, f, r),
           SweepKept(g, k, r, q), f.c \in Contexts => k.state[f.c] # "none"
    PROVE  Waits(k, f, q)
<1>1. Left(f.pc) \in SUBSET {"short", "long"}
    BY DEF Left
<1>2. Swept(k, f, q)
    BY <1>1 DEF Waits, Swept, SweepKept
<1>3. FrameAlive(k, f)
    BY DEF FrameAlive
<1> QED  BY <1>2, <1>3 DEF Waits

\* The function that made the callback still has what it relies on.
LEMMA UpgradedFrame ==
    ASSUME NEW r, NEW s, NEW n \in Sockets, NEW c \in Contexts, Upgrading(r, s, n, c),
           NEW q, Upgraded(r, q, s, n),
           NEW g \in Frame, g = Head(Rest), g.op \in {"accept", "dispatch", "sweep"},
           NEW t \in Seq(Frame), Rest = Push(g, t), Floor(t)
    PROVE  Under(h', Rest, owner, q, unsent', wfailed)
<1>1. Under(h, Push(g, t), owner, r, unsent, wfailed)
    BY DEF Upgrading
<1>2. /\ Base(h, t, owner, r) /\ Waits(h, g, r)
      /\ g.op # "sweep" => Under(h, t, owner, r, unsent, wfailed)
      /\ Writing(g) /\ g.s \in unsent => wfailed
      /\ t # <<>> => Follows(g, Head(t))
    BY <1>1, UnderPop
<1>3. t # <<>> /\ Head(t).op = "tick"
    BY FloorBase
<1>4. /\ Heaped(h', {}, owner, q, Mode) /\ SweepKept(h, h', r, q)
      /\ h'.liter = h.liter /\ Unsent(h', unsent')
      /\ \A x \in Sockets \ {s} : h.type[x] # "free" => h'.type[x] = h.type[x]
      /\ \A e \in Contexts : h.state[e] # "none" => h'.state[e] # "none"
    BY DEF Upgraded
<1>5. g.op # "sweep" => Under(h', t, owner, q, unsent', wfailed)
    BY <1>2, <1>4, UnderFloor
<1>6. /\ h.type[s] = "socket" /\ Mode.plain /\ CalledFrom(Top, g) /\ Top.op = "cb"
      /\ Writing(Top) /\ s \in unsent => wfailed
      /\ unsent' = IF s \in unsent THEN (unsent \ {s}) \cup {n} ELSE unsent
    BY DEF Upgrading
<1>7. g.c \in Contexts => h'.state[g.c] # "none"
    BY <1>2, <1>4 DEF Waits, FrameAlive
<1>8. CASE g.op = "accept"
    <2>1. g.s \in Sockets => h.type[g.s] \in {"listen", "semi", "shut"}
        BY <1>2, <1>8 DEF Waits, FrameAlive
    <2>2. g.s \in Sockets => h'.type[g.s] \in {"listen", "semi", "shut"}
        BY <1>4, <1>6, <2>1
    <2>3. Waits(h', g, q)
        BY <1>7, <1>8, <2>2 DEF Waits, FrameAlive, Swept, Visiting
    <2> QED  BY <1>2, <1>3, <1>5, <1>8, <2>3, UnderPush DEF Writing
<1>9. CASE g.op = "dispatch"
    <2>1. "R" \in g.ev /\ g.pc \in {"writable", "wrote", "readable"} /\ g.s \in Sockets
             => (Open(h', g.s) => h'.low[g.s] # 1)
        BY <1>4, <1>6 DEF Heaped, Modes
    <2>2. Waits(h', g, q)
        BY <1>7, <1>9, <2>1 DEF Waits, FrameAlive, Swept, Visiting
    <2>3. Writing(g) /\ g.s \in unsent' => wfailed
        <3>1. Writing(g) => Writing(Top)
            BY <1>6, <1>9 DEF Writing, CalledFrom
        <3> QED  BY <1>2, <1>6, <3>1
    <2> QED  BY <1>2, <1>3, <1>5, <1>9, <2>2, <2>3, UnderPush
<1>10. CASE g.op = "sweep"
    <2>1. Visiting(g)
        BY <1>6, <1>10, OnSweep DEF Upgrading
    <2>2. Waits(h', g, q)
        <3>1. Waits(h, g, r) /\ SweepKept(h, h', r, q)
            BY <1>2, <1>4
        <3> QED  BY <1>7, <1>10, <2>1, <3>1, SweepWaits
    <2>3. Base(h', t, owner, q)
        BY <1>2, <1>4, FloorStands
    <2>4. Base(h', Push(g, t), owner, q)
        BY <1>2, <1>3, <1>10, <2>2, <2>3, BasePush
    <2>5. Frames(Push(g, t)) = Frames(t) \cup {g}
        BY PushFrames
    <2>6. LiterOK(h', Push(g, t))
        BY <1>1, <1>4, <1>10, <2>5 DEF LiterOK, Under, Heaped, Sound, Heap, ContextPtr, Base
    <2>7. Written(Push(g, t), unsent', wfailed)
        <3>1. \A x \in Frames(t) : x.op = "tick"
            BY FloorBase
        <3> QED  BY <1>10, <2>5, <3>1 DEF Written, Writing
    <2> QED  BY <1>4, <2>4, <2>6, <2>7 DEF Under
<1> QED  BY <1>8, <1>9, <1>10

\* The whole call; the dispatch under the callback will get the new address.
LEMMA AdoptSocketLoop ==
    ASSUME Tame, IInv, LInv, NEW c \in Contexts, NEW n \in Sockets, AdoptSocket(c, n)
    PROVE  LInv'
<1>1. PICK r, s : Upgrading(r, s, n, c)
    BY AdoptStarts
<1>2. /\ Top \in Frame /\ Rest \in Seq(Frame) /\ Rest # <<>> /\ Top.op = "cb" /\ Top.s = s
      /\ Top.pc \in Adopts /\ CalledFrom(Top, Head(Rest))
      /\ Under(h, Rest, owner, r, unsent, wfailed) /\ Waits(h, Top, r)
      /\ Writing(Top) /\ s \in unsent => wfailed
      /\ s \in Sockets /\ (n = s \/ h.type[n] = "free") /\ "adopt" \in Calls
      /\ unsent \in SUBSET Sockets /\ Unsent(h, unsent)
      /\ unsent' = IF s \in unsent THEN (unsent \ {s}) \cup {n} ELSE unsent
      /\ wfailed' = wfailed /\ owner' = owner
    BY <1>1 DEF Upgrading
<1>3. PICK g \in Frame, t \in Seq(Frame) : g = Head(Rest) /\ t = Tail(Rest) /\ Rest = Push(g, t)
    <2>1. /\ Head(Rest) \in Frame /\ Tail(Rest) \in Seq(Frame)
          /\ Rest = Push(Head(Rest), Tail(Rest))
        BY <1>2 DEF Push
    <2> QED  BY <2>1
<1>4. g.op \in {"tick", "accept", "dispatch", "sweep"}
    BY <1>2, <1>3 DEF CalledFrom, Adopts
<1>5. Base(h, Rest, owner, r)
    BY <1>2 DEF Under
<1>6. \E q : Upgraded(r, q, s, n) /\ Under(h', Rest, owner, q, unsent', wfailed)
    <2>1. CASE g.op = "tick"
        <3>1. Floor(Rest)
            BY <1>2, <1>3, <1>5, <2>1, OnTick DEF Base
        <3>2. Heaped(h, {}, owner, r, Mode)
            BY <1>2, <1>5, <3>1, FloorBase DEF Base
        <3>3. PICK q : Upgraded(r, q, s, n)
            BY <1>1, <3>2, UpgradedHeap
        <3>4. Heaped(h', {}, owner, q, Mode) /\ h'.liter = h.liter /\ Unsent(h', unsent')
            BY <3>3 DEF Upgraded
        <3>5. Under(h', Rest, owner, q, unsent', wfailed)
            BY <1>2, <3>1, <3>4, UnderFloor
        <3> QED  BY <3>3, <3>5
    <2>2. CASE g.op \in {"accept", "dispatch", "sweep"}
        <3>1. Under(h, Push(g, t), owner, r, unsent, wfailed)
            BY <1>2, <1>3
        <3>2. /\ Base(h, t, owner, r) /\ (t = <<>> => g.op \in {"tick", "cclose"})
              /\ t # <<>> => Follows(g, Head(t))
            BY <1>3, <2>2, <3>1, UnderPop
        <3>3. t # <<>> /\ Head(t).op = "tick"
            BY <2>2, <3>2 DEF Follows
        <3>4. Floor(t)
            BY <3>2, <3>3, OnTick DEF Base
        <3>5. Heaped(h, {}, owner, r, Mode)
            BY <3>2, <3>4, FloorBase DEF Base
        <3>6. PICK q : Upgraded(r, q, s, n)
            BY <1>1, <3>5, UpgradedHeap
        <3>7. Under(h', Rest, owner, q, unsent', wfailed)
            BY <1>1, <1>3, <2>2, <3>4, <3>6, UpgradedFrame
        <3> QED  BY <3>6, <3>7
    <2> QED  BY <1>4, <2>1, <2>2
<1>7. PICK q : Upgraded(r, q, s, n) /\ Under(h', Rest, owner, q, unsent', wfailed)
    BY <1>6
<1>8. PICK x : x = [[Top EXCEPT !.n = @ - 1] EXCEPT !.s = n]
    OBVIOUS
<1>9. x.op = "cb" /\ x.pc = Top.pc /\ x.s = n /\ x.c = Top.c
    BY <1>2, <1>8 DEF Frame
<1>10. stack' = Push(x, Rest)
    <2>1. stack # <<>>
        BY DEF AdoptSocket
    <2>2. Caller = Push([Top EXCEPT !.n = @ - 1], Rest)
        BY <2>1 DEF Caller
    <2>3. Head(Caller) = [Top EXCEPT !.n = @ - 1]
        BY <1>2, <2>2, PushTop
    <2> QED  BY <1>8, <2>3 DEF AdoptSocket
<1>11. Waits(h', x, q)
    <2>1. x.c \in Contexts => h'.state[x.c] # "none"
        BY <1>2, <1>7, <1>9 DEF Waits, FrameAlive, Upgraded
    <2>2. h'.type[x.s] = "socket"
        BY <1>7, <1>9 DEF Upgraded
    <2> QED  BY <1>9, <2>1, <2>2 DEF Waits, FrameAlive, Swept, Visiting
<1>12. Follows(x, Head(Rest))
    BY <1>2, <1>9 DEF Follows, CalledFrom
<1>13. Writing(x) /\ x.s \in unsent' => wfailed
    <2>1. Writing(x) <=> Writing(Top)
        BY <1>2, <1>9 DEF Writing
    <2>2. n \in unsent => n = s
        BY <1>2 DEF Unsent
    <2> QED  BY <1>2, <1>9, <2>1, <2>2
<1>14. Under(h', Push(x, Rest), owner, q, unsent', wfailed)
    BY <1>2, <1>7, <1>9, <1>11, <1>12, <1>13, UnderPush
<1>15. Head(Push(x, Rest)) = x /\ Idle(x)
    BY <1>2, <1>9, PushTop DEF Idle
<1>16. Runs(h', x, q)
    BY <1>15, IdleRuns
<1> QED  BY <1>2, <1>10, <1>14, <1>15, <1>16, Stands

\* A new loop has an empty heap and an empty stack.
LEMMA InitLInv == Init => LInv
<1>1. SUFFICES ASSUME Init
               PROVE  LInv
    OBVIOUS
<1>2. /\ h = EmptyHeap /\ stack = <<>> /\ owner = {} /\ unsent = {}
    BY <1>1 DEF Init
<1>3. PICK e : e = stack
    OBVIOUS
<1>4. Frames(e) = {} /\ Closes(e) = {}
    <2>1. Frames(<<>>) = {}
        BY DEF Frames
    <2> QED  BY <1>2, <1>3, <2>1 DEF Closes
<1>5. PICK r : Heaped(EmptyHeap, {}, {}, r, Mode)
    BY EmptyHeapped
<1>6. Shape(stack)
    BY <1>2, ShapeEmpty
<1>7. Base(h, stack, owner, r)
    <2>1. Heaped(h, Closes(stack), owner, r, Mode)
        BY <1>2, <1>3, <1>4, <1>5
    <2> QED  BY <1>3, <1>4, <1>6, <2>1 DEF Base
<1>8. Based(h, stack, owner)
    BY <1>2, <1>7 DEF Based
<1>9. h.liter = Null
    BY <1>2 DEF EmptyHeap
<1> QED  BY <1>2, <1>3, <1>4, <1>8, <1>9 DEF LInv, LiterOK, Unsent, Written

\* Every step of the loop keeps the invariant.
LEMMA LoopStepLInv ==
    ASSUME Tame, IInv, IInv', LInv, LoopStep
    PROVE  LInv'
<1>1. CASE CloseReturn
    BY <1>1, CloseReturnLoop
<1>2. CASE CCloseListen
    BY <1>2, CCloseListenLoop
<1>3. CASE CCloseSocket
    BY <1>3, CCloseSocketLoop
<1>4. CASE HandleLowPrio
    BY <1>4, HandleLowPrioLoop
<1>5. CASE Wait
    BY <1>5, WaitLoop
<1>6. CASE DispatchTimer
    BY <1>6, DispatchTimerLoop
<1>7. CASE Post
    BY <1>7, PostLoop
<1>8. ASSUME NEW s \in Sockets, DispatchPoll(s)
      PROVE  LInv'
    BY <1>8, DispatchPollLoop
<1>9. CASE Accept
    BY <1>9, AcceptLoop
<1>10. CASE DispatchWritable
    BY <1>10, DispatchWritableLoop
<1>11. CASE DispatchWrote
    BY <1>11, DispatchWroteLoop
<1>12. CASE DispatchReadable
    BY <1>12, DispatchReadableLoop
<1>13. CASE Recv
    BY <1>13, RecvLoop
<1>14. CASE ReceivedMore \/ ReceivedLast
    BY <1>14, ReceivedLoop
<1>15. CASE DispatchEof
    BY <1>15, DispatchEofLoop
<1>16. CASE DispatchEnd
    BY <1>16, DispatchEndLoop
<1>17. CASE SweepContext
    BY <1>17, SweepContextLoop
<1>18. CASE SweepSeek
    BY <1>18, SweepSeekLoop
<1>19. CASE SweepLong
    BY <1>19, SweepLongLoop
<1>20. CASE SweepStep
    BY <1>20, SweepStepLoop
<1>21. CASE Return
    BY <1>21, ReturnLoop
<1>22. CASE Tick
    BY <1>22, TickLoop
<1> QED  BY <1>1, <1>2, <1>3, <1>4, <1>5, <1>6, <1>7, <1>8, <1>9, <1>10, <1>11, <1>12, <1>13,
            <1>14, <1>15, <1>16, <1>17, <1>18, <1>19, <1>20, <1>21, <1>22 DEF LoopStep

\* Every call of the program keeps it.
LEMMA CallLInv ==
    ASSUME Tame, IInv, IInv', LInv, Call
    PROVE  LInv'
<1>1. ASSUME NEW c \in Contexts, Create(c) \/ Free(c) \/ CloseContext(c)
      PROVE  LInv'
    BY <1>1, CreateLoop, FreeLoop, CloseContextLoop
<1>2. ASSUME NEW c \in Contexts, NEW s \in Sockets, OpenSocket(c, s) \/ AdoptSocket(c, s)
      PROVE  LInv'
    BY <1>2, OpenSocketLoop, AdoptSocketLoop
<1>3. ASSUME NEW s \in Sockets, Close(s) \/ CloseListen(s) \/ DetachSocket(s)
      PROVE  LInv'
    BY <1>3, CloseLoop, CloseListenLoop, DetachSocketLoop
<1>4. ASSUME NEW s \in Sockets, Shutdown(s) \/ WriteFailed(s) \/ Pause(s) \/ Resume(s)
      PROVE  LInv'
    BY <1>4, ShutdownLoop, WriteFailedLoop, PauseLoop, ResumeLoop
<1> QED  BY <1>1, <1>2, <1>3, <1>4 DEF Call

\* Every step of the loop and every call of a tame program keeps it.
LEMMA NextLInv ==
    ASSUME Tame, IInv, LInv, [Next]_vars
    PROVE  LInv'
<1>1. IInv'
    BY NextIInv
<1>2. CASE LoopStep
    BY <1>1, <1>2, LoopStepLInv
<1>3. CASE Call
    BY <1>1, <1>3, CallLInv
<1>4. CASE UNCHANGED vars
    <2>1. h' = h /\ stack' = stack /\ owner' = owner /\ unsent' = unsent /\ wfailed' = wfailed
        BY <1>4 DEF vars
    <2> QED  BY <2>1 DEF LInv, Based, Written
<1> QED  BY <1>2, <1>3, <1>4 DEF Next, Exit

\* LInv is an invariant of every tame program, beside IInv.
THEOREM LInvHolds == Tame => (Spec => [](IInv /\ LInv))
<1>1. Init => IInv /\ LInv
    BY InitIInv, InitLInv
<1>2. ASSUME Tame
      PROVE  (IInv /\ LInv) /\ [Next]_vars => (IInv /\ LInv)'
    BY <1>2, NextIInv, NextLInv
<1>3. ASSUME Tame
      PROVE  Spec => [](IInv /\ LInv)
    BY <1>1, <1>2, <1>3, PTL DEF Spec
<1> QED  BY <1>3

-----------------------------------------------------------------------------
(* What the invariant says of the heap and the stack.                      *)

\* The heap and the stack of the invariant, with the rank named.
LEMMA InvHeap ==
    ASSUME IInv, LInv
    PROVE  \E r : /\ Base(h, stack, owner, r) /\ Heaped(h, Closes(stack), owner, r, Mode)
                  /\ stack # <<>> => Runs(h, Top, r)
                  /\ Closes(stack) \subseteq Dead(h)
                  /\ \A s \in Sockets : Closing(s) <=> s \in Closes(stack)
<1>1. PICK r : Base(h, stack, owner, r) /\ (stack # <<>> => Runs(h, Head(stack), r))
    BY DEF LInv, Based
<1>2. Heaped(h, Closes(stack), owner, r, Mode)
    BY <1>1 DEF Base
<1>3. Closes(stack) \subseteq Dead(h)
    BY <1>2 DEF Heaped, Stale
<1>4. \A s \in Sockets : Closing(s) <=> s \in Closes(stack)
    BY DEF Closing, Closes, Frames
<1> QED  BY <1>1, <1>2, <1>3, <1>4 DEF Top

\* The sockets are finitely many.
LEMMA SocketsFinite == IsFiniteSet(Sockets) /\ Null \notin Sockets
    BY DistinctAddresses

\* A threaded list of sockets is well linked and is its chain.
LEMMA ThreadedChain ==
    ASSUME NEW S \in SUBSET Sockets, NEW p, NEW r \in [Sockets -> Int],
           Threaded(h.next, h.prev, S, p, r)
    PROVE  WellLinked(p) /\ Chain(h, p) = S
<1>1. /\ Walk(h.next, Sockets, p) = S
      /\ p # Null => h.prev[p] = Null
      /\ \A x \in S : /\ h.next[x] # Null => h.prev[h.next[x]] = x
                      /\ x \notin Walk(h.next, Sockets, h.next[x])
    BY SocketsFinite, ThreadedWalk
<1>2. \A q : Chain(h, q) = Walk(h.next, Sockets, q)
    BY ChainsAreWalks
<1> QED  BY <1>1, <1>2 DEF WellLinked

\* The lists are threaded through the sockets that belong there.
LEMMA InvListsExact ==
    ASSUME IInv, LInv
    PROVE  /\ ListsExact
           /\ \A c \in Contexts :
                 /\ Chain(h, h.head[c]) = {s \in Members(c) : h.type[s] # "listen" /\ h.low[s] # 1}
                 /\ Chain(h, h.lhead[c]) = {s \in Members(c) : h.type[s] = "listen"}
<1>1. PICK r : Heaped(h, Closes(stack), owner, r, Mode) /\ Closes(stack) \subseteq Dead(h)
    BY InvHeap
<1>2. PICK K : K = Closes(stack)
    OBVIOUS
<1>3. Lists(h, K, r) /\ K \subseteq Dead(h)
    BY <1>1, <1>2 DEF Heaped
<1>4. ASSUME NEW c \in Contexts
      PROVE  /\ Regular(h, c) \ K = {s \in Members(c) : h.type[s] # "listen" /\ h.low[s] # 1}
             /\ Listening(h, c) \ K = {s \in Members(c) : h.type[s] = "listen"}
    BY <1>3 DEF Regular, Listening, Members, Dead, Open
<1>5. ASSUME NEW c \in Contexts
      PROVE  /\ WellLinked(h.head[c]) /\ Chain(h, h.head[c]) = Regular(h, c) \ K
             /\ WellLinked(h.lhead[c]) /\ Chain(h, h.lhead[c]) = Listening(h, c) \ K
    <2>1. /\ Threaded(h.next, h.prev, Regular(h, c) \ K, h.head[c], r)
          /\ Threaded(h.next, h.prev, Listening(h, c) \ K, h.lhead[c], r)
          /\ r \in [Sockets -> Int]
        BY <1>3 DEF Lists
    <2>2. Regular(h, c) \ K \in SUBSET Sockets /\ Listening(h, c) \ K \in SUBSET Sockets
        BY DEF Regular, Listening
    <2> QED  BY <2>1, <2>2, ThreadedChain
<1> QED  BY <1>4, <1>5 DEF ListsExact

\* ... and the queue through those in state 1.
LEMMA InvQueueExact ==
    ASSUME IInv, LInv
    PROVE  QueueExact
<1>1. PICK r : Heaped(h, Closes(stack), owner, r, Mode) /\ Closes(stack) \subseteq Dead(h)
    BY InvHeap
<1>2. PICK K : K = Closes(stack)
    OBVIOUS
<1>3. Lists(h, K, r) /\ K \subseteq Dead(h) /\ Modes(h, Mode)
    BY <1>1, <1>2 DEF Heaped
<1>4. Queued(h) \ K = {s \in Sockets : Open(h, s) /\ h.low[s] = 1}
    <2>1. \A s \in Sockets : Open(h, s) /\ h.low[s] = 1 => h.type[s] # "listen" /\ s \notin K
        BY <1>3 DEF Modes, Dead, Open
    <2> QED  BY <2>1 DEF Queued
<1>5. Threaded(h.next, h.prev, Queued(h) \ K, h.lowHead, r) /\ r \in [Sockets -> Int]
    BY <1>3 DEF Lists
<1>6. Queued(h) \ K \in SUBSET Sockets
    BY DEF Queued
<1>7. WellLinked(h.lowHead) /\ Chain(h, h.lowHead) = Queued(h) \ K
    BY <1>5, <1>6, ThreadedChain
<1> QED  BY <1>4, <1>7 DEF QueueExact

\* The closed list reaches what is closed and not being closed.
LEMMA InvClosedExact ==
    ASSUME IInv, LInv
    PROVE  ClosedExact
<1>1. PICK r : /\ Heaped(h, Closes(stack), owner, r, Mode)
               /\ \A s \in Sockets : Closing(s) <=> s \in Closes(stack)
    BY InvHeap
<1>2. PICK K : K = Closes(stack)
    OBVIOUS
<1>3. Ordered(h.next, Dead(h) \ K, h.closed, r) /\ r \in [Sockets -> Int]
    BY <1>1, <1>2 DEF Heaped, Lists
<1>4. Dead(h) \ K \in SUBSET Sockets
    BY DEF Dead
<1>5. Walk(h.next, Sockets, h.closed) = Dead(h) \ K
    BY <1>3, <1>4, SocketsFinite, WholeWalk
<1>6. Chain(h, h.closed) = Dead(h) \ K
    BY <1>5, ChainsAreWalks
<1>7. Dead(h) \ K = {s \in Sockets : h.type[s] # "free" /\ IsClosed(h, s) /\ ~Closing(s)}
    BY <1>1, <1>2 DEF Dead
<1> QED  BY <1>6, <1>7 DEF ClosedExact

\* The holders of a context, counted apart.
LEMMA HoldersCounted ==
    ASSUME IInv, LInv, NEW c \in Contexts
    PROVE  /\ Holders(h, Closes(stack), owner, c) = ({c} \cap owner) \cup (Members(c) \cup Closings(c))
           /\ Cardinality(Holders(h, Closes(stack), owner, c)) =
                Cardinality({c} \cap owner) + Cardinality(Members(c)) + Cardinality(Closings(c))
<1>1. /\ Closes(stack) \subseteq Dead(h)
      /\ \A s \in Sockets : Closing(s) <=> s \in Closes(stack)
    BY InvHeap
<1>2. PICK K : K = Closes(stack)
    OBVIOUS
<1>3. Holders(h, K, owner, c) = ({c} \cap owner) \cup (Members(c) \cup Closings(c))
    <2>1. \A s \in Sockets : Holding(h, K, s) <=> Open(h, s) \/ Closing(s)
        BY <1>1, <1>2 DEF Holding, Dead, Open
    <2>2. {s \in Sockets : Holding(h, K, s) /\ h.ctx[s] = c} = Members(c) \cup Closings(c)
        BY <2>1 DEF Members, Closings
    <2> QED  BY <2>2 DEF Holders
<1>4. Members(c) \cap Closings(c) = {}
    BY <1>1 DEF Members, Closings, Dead, Open
<1>5. ({c} \cap owner) \cap (Members(c) \cup Closings(c)) = {}
    BY AddressesDiffer DEF Members, Closings
<1>6. IsFiniteSet(Members(c)) /\ IsFiniteSet(Closings(c))
    <2>1. Members(c) \subseteq Sockets /\ Closings(c) \subseteq Sockets
        BY DEF Members, Closings
    <2> QED  BY <2>1, SocketsFinite, FS_Subset
<1>7. IsFiniteSet({c} \cap owner)
    <2>1. {c} \cap owner \subseteq {c}
        OBVIOUS
    <2>2. IsFiniteSet({c})
        BY FS_Singleton
    <2> QED  BY <2>1, <2>2, FS_Subset
<1>8. /\ Cardinality(Members(c)) \in Nat /\ Cardinality(Closings(c)) \in Nat
      /\ Cardinality({c} \cap owner) \in Nat
    BY <1>6, <1>7, FS_CardinalityType
<1>9. /\ IsFiniteSet(Members(c) \cup Closings(c))
      /\ Cardinality(Members(c) \cup Closings(c)) = Cardinality(Members(c)) + Cardinality(Closings(c))
    <2>1. Cardinality({}) = 0
        BY FS_EmptySet
    <2>2. PICK A, B : A = Members(c) /\ B = Closings(c)
        OBVIOUS
    <2>3. IsFiniteSet(A) /\ IsFiniteSet(B) /\ A \cap B = {}
        BY <1>4, <1>6, <2>2
    <2>4. /\ IsFiniteSet(A \cup B)
          /\ Cardinality(A \cup B) = Cardinality(A) + Cardinality(B) - Cardinality(A \cap B)
        BY <2>3, FS_Union
    <2>5. Cardinality(A \cap B) = 0
        BY <2>1, <2>3
    <2> QED  BY <1>8, <2>2, <2>4, <2>5
<1>10. Cardinality(({c} \cap owner) \cup (Members(c) \cup Closings(c))) =
          Cardinality({c} \cap owner) + Cardinality(Members(c)) + Cardinality(Closings(c))
    <2>1. Cardinality({}) = 0
        BY FS_EmptySet
    <2>2. PICK A, B : A = {c} \cap owner /\ B = Members(c) \cup Closings(c)
        OBVIOUS
    <2>3. IsFiniteSet(A) /\ IsFiniteSet(B) /\ A \cap B = {}
        BY <1>5, <1>7, <1>9, <2>2
    <2>4. Cardinality(A \cup B) = Cardinality(A) + Cardinality(B) - Cardinality(A \cap B)
        BY <2>3, FS_Union
    <2>5. Cardinality(A \cap B) = 0
        BY <2>1, <2>3
    <2> QED  BY <1>8, <1>9, <2>2, <2>4, <2>5
<1> QED  BY <1>2, <1>3, <1>10

\* Nothing is queued, so the count is exact.
LEMMA InvRefExact ==
    ASSUME IInv, LInv, "lowprio" \notin Calls
    PROVE  RefExact
<1>1. PICK r : Heaped(h, Closes(stack), owner, r, Mode)
    BY InvHeap
<1>2. Covered(h, Closes(stack), owner, Mode.plain) /\ ContextsOK(h) /\ Mode.plain
    BY <1>1 DEF Heaped, Mode
<1>3. ASSUME NEW c \in Contexts
      PROVE  LET holders == Cardinality({c} \cap owner) + Cardinality(Members(c))
                            + Cardinality(Closings(c))
             IN  h.ref[c] = holders /\ (h.state[c] = "live" <=> holders > 0)
    <2>1. h.ref[c] = Cardinality(Holders(h, Closes(stack), owner, c))
        BY <1>2 DEF Covered
    <2>2. Cardinality(Holders(h, Closes(stack), owner, c)) \in Nat
        BY HoldersFinite
    <2>3. h.ref[c] = Cardinality({c} \cap owner) + Cardinality(Members(c)) + Cardinality(Closings(c))
        BY <2>1, HoldersCounted
    <2>4. h.state[c] = "live" <=> h.ref[c] # 0
        BY <1>2 DEF ContextsOK
    <2>5. h.ref[c] \in Nat
        BY <2>1, <2>2
    <2>6. h.ref[c] # 0 <=> h.ref[c] > 0
        BY <2>5
    <2> QED  BY <2>3, <2>4, <2>6
<1> QED  BY <1>3 DEF RefExact

\* The count covers the holders, so a context with one is live.
LEMMA InvNoEarlyFree ==
    ASSUME IInv, LInv
    PROVE  NoEarlyFree
<1>1. PICK r : /\ Heaped(h, Closes(stack), owner, r, Mode) /\ Closes(stack) \subseteq Dead(h)
               /\ \A s \in Sockets : Closing(s) <=> s \in Closes(stack)
    BY InvHeap
<1>2. Covered(h, Closes(stack), owner, Mode.plain) /\ ContextsOK(h) /\ h \in Heap
    BY <1>1 DEF Heaped, Sound
<1>3. h.ref \in [Contexts -> Int]
    BY <1>2 DEF Heap
<1>4. ASSUME NEW c \in Contexts, c \in owner \/ Members(c) # {} \/ Closings(c) # {}
      PROVE  h.state[c] = "live"
    <2>1. c \in owner \/ \E s \in Sockets : Holding(h, Closes(stack), s) /\ h.ctx[s] = c
        BY <1>1, <1>4 DEF Members, Closings, Holding, Dead, Open
    <2>2. h.ref[c] >= 1
        BY <1>2, <1>3, <2>1, HeldReferenced
    <2>3. h.ref[c] \in Int
        BY <1>3
    <2> QED  BY <1>2, <2>2, <2>3 DEF ContextsOK
<1> QED  BY <1>4 DEF NoEarlyFree

\* Every frame keeps what its function needs in its locals.
LEMMA StackFrames ==
    ASSUME IInv, NEW i \in 1..Len(stack)
    PROVE  FrameOK(stack[i])
<1>1. /\ stack \in Seq(Frame) /\ stack # <<>>
      /\ FrameOK(Head(stack)) /\ Tail(stack) \in Seq(Parked)
    BY DEF IInv, TypeOK, StackOK
<1>2. CASE i = 1
    BY <1>1, <1>2
<1>3. CASE i # 1
    <2>1. i - 1 \in 1..Len(Tail(stack)) /\ stack[i] = Tail(stack)[i - 1]
        BY <1>1, <1>3
    <2>2. Tail(stack)[i - 1] \in Parked
        BY <1>1, <2>1
    <2> QED  BY <2>1, <2>2 DEF Parked
<1> QED  BY <1>2, <1>3

\* What the frames rely on is there, and so are the contexts of the sockets.
LEMMA InvNoDangling ==
    ASSUME IInv, LInv
    PROVE  NoDangling
<1>1. PICK r : /\ Base(h, stack, owner, r) /\ Heaped(h, Closes(stack), owner, r, Mode)
               /\ stack # <<>> => Runs(h, Top, r)
    BY InvHeap
<1>2. Shape(stack) /\ \A f \in Frames(stack) : FrameAlive(h, f)
    BY <1>1 DEF Base, Waits
<1>3. stack \in Seq(Frame) /\ h \in Heap
    BY DEF IInv, TypeOK
<1>4. \A c \in Contexts : h.iter[c] # Null => h.type[h.iter[c]] # "free"
    BY <1>1 DEF Heaped, Lists, Regular, Open
<1>5. ASSUME NEW i \in 1..Len(stack)
      PROVE  /\ stack[i].s # Null /\ ~Overwritten(i) /\ ~Compared(i)
                   => h.type[stack[i].s] # "free"
             /\ stack[i].c # Null => h.state[stack[i].c] # "none"
    <2>1. stack[i] \in Frame /\ stack[i] \in Frames(stack)
        BY <1>3 DEF Frames
    <2>2. stack[i].s \in SocketPtr /\ stack[i].c \in ContextPtr
        BY <2>1 DEF Frame
    <2>3. FrameAlive(h, stack[i])
        BY <1>2, <2>1
    <2>4. stack[i].c # Null => h.state[stack[i].c] # "none"
        BY <2>2, <2>3 DEF FrameAlive, ContextPtr
    <2>5. ASSUME stack[i].s \in Sockets, stack[i].op = "dispatch", ~Overwritten(i)
          PROVE  h.type[stack[i].s] # "free"
        <3>1. CASE i = 1
            <4>1. Top = stack[i] /\ stack # <<>>
                BY <1>3, <3>1 DEF Top
            <4> QED  BY <1>1, <2>5, <4>1 DEF Runs
        <3>2. CASE i # 1
            <4>1. PICK j \in 1..Len(stack) : j = i - 1 /\ j # Len(stack) /\ i = j + 1 /\ i > 1
                <5>1. i \in Int /\ Len(stack) \in Nat /\ 1 <= i /\ i <= Len(stack)
                    BY <1>3
                <5> QED  BY <3>2, <5>1
            <4>2. Follows(stack[j], stack[i])
                BY <1>2, <4>1 DEF Shape
            <4>3. stack[j].op = "cb"
                BY <2>5, <4>2 DEF Follows
            <4> QED  BY <2>5, <4>1, <4>3 DEF Overwritten
        <3> QED  BY <3>1, <3>2
    <2>6. stack[i].s \in Sockets /\ stack[i].op # "dispatch" /\ ~Visiting(stack[i])
             => h.type[stack[i].s] # "free"
        BY <2>3 DEF FrameAlive
    <2>7. ASSUME stack[i].s \in Sockets, Visiting(stack[i]), ~Compared(i)
          PROVE  h.type[stack[i].s] # "free"
        <3>1. stack[i].c \in Contexts
            BY <1>5, <2>7, StackFrames DEF FrameOK, Visiting
        <3>2. h.iter[stack[i].c] = stack[i].s
            BY <2>7 DEF Compared, Visiting
        <3>3. h.iter[stack[i].c] # Null
            BY <2>7, <3>2, AddressesDiffer
        <3> QED  BY <1>4, <3>1, <3>2, <3>3
    <2>8. stack[i].s # Null => stack[i].s \in Sockets
        BY <2>2 DEF SocketPtr
    <2> QED  BY <2>4, <2>5, <2>6, <2>7, <2>8
<1>6. h.liter # Null => h.state[h.liter] # "none"
    BY DEF LInv, LiterOK
<1>7. \A s \in Sockets : h.type[s] # "free" => h.state[h.ctx[s]] # "none"
    BY <1>1 DEF Heaped, Homes
<1> QED  BY <1>4, <1>5, <1>6, <1>7 DEF NoDangling

\* A sweep at the end has passed every socket that is due.
LEMMA InvNoTimeoutSkipped ==
    ASSUME IInv, LInv
    PROVE  NoTimeoutSkipped
<1>1. SUFFICES ASSUME At("sweep", "seek"), Top.s = Null
               PROVE  \A s \in Chain(h, h.head[Top.c]) : h.due[s] = {}
    BY DEF NoTimeoutSkipped
<1>2. PICK r : /\ Heaped(h, Closes(stack), owner, r, Mode) /\ (stack # <<>> => Runs(h, Top, r))
    BY InvHeap
<1>3. stack # <<>> /\ Top.op = "sweep" /\ Top.pc = "seek"
    BY <1>1 DEF At
<1>4. Top.c \in Contexts
    BY <1>3, Running DEF FrameOK
<1>5. \A x \in Regular(h, Top.c) : h.due[x] = {}
    BY <1>1, <1>2, <1>3, <1>4 DEF Runs, Ahead
<1>6. PICK K : K = Closes(stack)
    OBVIOUS
<1>7. /\ Threaded(h.next, h.prev, Regular(h, Top.c) \ K, h.head[Top.c], r)
      /\ r \in [Sockets -> Int]
    BY <1>2, <1>4, <1>6 DEF Heaped, Lists
<1>8. Regular(h, Top.c) \ K \in SUBSET Sockets
    BY DEF Regular
<1>9. Chain(h, h.head[Top.c]) = Regular(h, Top.c) \ K
    BY <1>7, <1>8, ThreadedChain
<1> QED  BY <1>5, <1>9

\* A socket with a short write has kept its writable poll.
LEMMA InvUnsentIsPolled ==
    ASSUME IInv, LInv, Flagged
    PROVE  UnsentIsPolled
    BY DEF LInv, Unsent, UnsentIsPolled

-----------------------------------------------------------------------------
(* Callbacks are made on open sockets.                                     *)

\* What CallbackOnOpen says of one step.
Heeds ==
    \A s \in Sockets :
         /\ Len(stack') > Len(stack) /\ stack'[1].op = "cb" /\ stack'[1].s = s
         => IF stack'[1].pc = "on_close" THEN Open(h, s)
            ELSE /\ h'.type[s] # "free" /\ ~IsClosed(h', s)

\* A call makes the stack one frame longer.
LEMMA PushLength ==
    ASSUME NEW f, NEW t \in Seq(Frame)
    PROVE  Push(f, t)[1] = f /\ Len(Push(f, t)) = Len(t) + 1 /\ Len(t) \in Nat
    BY DEF Push

\* A step that makes the stack no longer makes no callback.
LEMMA NoLonger ==
    ASSUME NEW m \in Nat, NEW n \in Nat, Len(stack') = m, Len(stack) = n, m <= n
    PROVE  Heeds
<1>1. ~(m > n)
    OBVIOUS
<1> QED  BY <1>1 DEF Heeds

\* Nor does one in which the running function goes on or returns ...
LEMMA HeedsAt ==
    ASSUME IInv, stack # <<>>, stack' = Rest \/ stack' = stack \/ \E f : stack' = Push(f, Rest)
    PROVE  Heeds
<1>1. Rest \in Seq(Frame) /\ stack = Push(Top, Rest)
    BY Running
<1>2. Len(stack) = Len(Rest) + 1 /\ Len(Rest) \in Nat
    BY <1>1, PushLength
<1>3. CASE stack' = Rest
    BY <1>2, <1>3, NoLonger
<1>4. CASE stack' = stack \/ \E f : stack' = Push(f, Rest)
    <2>1. Len(stack') = Len(stack)
        BY <1>1, <1>2, <1>4, PushLength
    <2> QED  BY <1>2, <2>1, NoLonger
<1> QED  BY <1>3, <1>4

\* ... or calls a function of the loop.
LEMMA HeedsFunction ==
    ASSUME NEW f, NEW t \in Seq(Frame), f.op # "cb", stack' = Push(f, t)
    PROVE  Heeds
<1>1. stack'[1] = f
    BY PushLength
<1> QED  BY <1>1 DEF Heeds

\* A callback needs its socket open.
LEMMA HeedsCallback ==
    ASSUME NEW name, NEW x, NEW t \in Seq(Frame), stack' = Push(Callback(name, x), t),
           x \in Sockets => IF name = "on_close" THEN Open(h, x)
                            ELSE h'.type[x] # "free" /\ ~IsClosed(h', x)
    PROVE  Heeds
<1>1. stack'[1] = Callback(name, x)
    BY PushLength
<1>2. Callback(name, x).s = x /\ Callback(name, x).pc = name
    BY DEF Callback
<1> QED  BY <1>1, <1>2 DEF Heeds

\* A call that does not call back.
LEMMA HeedsCaller ==
    ASSUME IInv, stack # <<>> => Top.op = "cb" /\ Top.n > 0, stack' = Caller
    PROVE  Heeds
<1>1. CASE stack = <<>>
    <2>1. stack' = stack /\ Len(stack) \in Nat
        BY <1>1 DEF Caller, IInv, TypeOK
    <2> QED  BY <2>1, NoLonger
<1>2. CASE stack # <<>>
    <2>1. \E f : stack' = Push(f, Rest)
        BY <1>2 DEF Caller
    <2> QED  BY <1>2, <2>1, HeedsAt
<1> QED  BY <1>1, <1>2

\* us_socket_close calls on_close if the socket was open.
LEMMA HeedsClose ==
    ASSUME IInv, NEW st \in Seq(Frame), Len(st) <= Len(stack), NEW s, SocketClose(s, st),
           s \in Sockets /\ ~IsClosed(h, s) => Open(h, s)
    PROVE  Heeds
<1>1. Len(st) \in Nat /\ Len(stack) \in Nat
    BY DEF IInv, TypeOK
<1>2. CASE stack' = st
    BY <1>1, <1>2, NoLonger
<1>3. CASE /\ ~IsClosed(h, s)
           /\ stack' = Push(Callback("on_close", s), Push(Fr("close", "closed", s, Null, {}), st))
    <2>1. CASE s \in Sockets
        <3>1. "close" \in Ops /\ "closed" \in Pcs
            BY DEF Ops, Pcs
        <3>2. s \in SocketPtr /\ Null \in ContextPtr /\ {} \in SUBSET (Directions \cup Conditions)
            BY <2>1 DEF SocketPtr, ContextPtr
        <3>3. Push(Fr("close", "closed", s, Null, {}), st) \in Seq(Frame)
            BY <3>1, <3>2, FrType, PushType
        <3> QED  BY <1>3, <2>1, <3>3, HeedsCallback
    <2>2. CASE s \notin Sockets
        <3>1. PICK u : u = Push(Fr("close", "closed", s, Null, {}), st)
            OBVIOUS
        <3>2. u \in Seq({Fr("close", "closed", s, Null, {})} \cup Frame)
            BY <3>1 DEF Push
        <3>3. stack'[1] = Callback("on_close", s)
            BY <1>3, <3>1, <3>2 DEF Push
        <3>4. stack'[1].s = s
            BY <3>3 DEF Callback
        <3> QED  BY <2>2, <3>4 DEF Heeds
    <2> QED  BY <2>1, <2>2
<1> QED  BY <1>2, <1>3 DEF SocketClose

\* A function that goes on does not make the stack longer.
LEMMA RestLength ==
    ASSUME IInv, stack # <<>>
    PROVE  /\ Rest \in Seq(Frame) /\ Len(Rest) <= Len(stack)
           /\ \A f \in Frame : Push(f, Rest) \in Seq(Frame) /\ Len(Push(f, Rest)) <= Len(stack)
<1>1. Rest \in Seq(Frame) /\ stack = Push(Top, Rest)
    BY Running
<1>2. Len(stack) = Len(Rest) + 1 /\ Len(Rest) \in Nat
    BY <1>1, PushLength
<1>3. \A f \in Frame : Push(f, Rest) \in Seq(Frame) /\ Len(Push(f, Rest)) = Len(Rest) + 1
    BY <1>1, PushType, PushLength
<1> QED  BY <1>1, <1>2, <1>3

\* The functions that close; us_socket_context_close reads its successors
\* before the callbacks, and finds them allocated by NoDangling.
LEMMA HeedsCloses ==
    ASSUME IInv, LInv, CloseReturn \/ CCloseListen \/ CCloseSocket
    PROVE  Heeds
<1>1. CASE CloseReturn
    BY <1>1, HeedsAt DEF CloseReturn, At
<1>2. CASE CCloseListen
    <2>1. stack # <<>> /\ \E f : stack' = Push(f, Rest)
        BY <1>2 DEF CCloseListen, At
    <2> QED  BY <2>1, HeedsAt
<1>3. CASE CCloseSocket
    <2>1. stack # <<>> /\ Top.op = "cclose" /\ Top.pc = "closing"
        BY <1>3 DEF CCloseSocket, At
    <2>2. /\ Top \in Frame /\ Top.s \in SocketPtr
        BY <2>1, Running DEF Frame
    <2>3. CASE stack' = Rest
        BY <2>1, <2>3, HeedsAt
    <2>4. CASE Top.s # Null /\ SocketClose(Top.s, Push([Top EXCEPT !.s = h.next[Top.s]], Rest))
        <3>1. Top.s \in Sockets
            BY <2>2, <2>4 DEF SocketPtr
        <3>2. h.next[Top.s] \in SocketPtr
            BY <3>1 DEF IInv, TypeOK, Heap
        <3>3. PICK f \in Frame : f = [Top EXCEPT !.s = h.next[Top.s]]
            BY <2>2, <3>2 DEF Frame
        <3>4. Push(f, Rest) \in Seq(Frame) /\ Len(Push(f, Rest)) <= Len(stack)
            BY <2>1, RestLength
        <3>5. SocketClose(Top.s, Push(f, Rest))
            BY <2>4, <3>3
        <3>6. h.type[Top.s] # "free"
            <4>1. NoDangling
                BY InvNoDangling
            <4>2. PICK i : i = 1
                OBVIOUS
            <4>3. i \in 1..Len(stack) /\ stack[i] = Top
                BY <2>1, <4>2 DEF IInv, TypeOK, Top
            <4>4. ~Overwritten(i) /\ ~Compared(i)
                BY <2>1, <4>2, <4>3 DEF Overwritten, Compared
            <4> QED  BY <2>4, <4>1, <4>3, <4>4 DEF NoDangling
        <3> QED  BY <3>4, <3>5, <3>6, HeedsClose DEF Open
    <2> QED  BY <1>3, <2>3, <2>4 DEF CCloseSocket
<1> QED  BY <1>1, <1>2, <1>3

\* The tick itself calls back with no socket.
LEMMA HeedsTick ==
    ASSUME IInv, LInv, HandleLowPrio \/ Wait \/ DispatchTimer \/ Post \/ Tick
    PROVE  Heeds
<1>1. stack \in Seq(Frame)
    BY DEF IInv, TypeOK
<1>2. CASE HandleLowPrio
    <2>1. stack # <<>> /\ Top.op = "tick"
        BY <1>2 DEF HandleLowPrio, At
    <2>2. CASE stack' = stack
        BY <2>1, <2>2, HeedsAt
    <2>3. CASE stack' = Push(Callback("pre", Null), Goto("wait"))
        <3>1. "wait" \in Pcs
            BY DEF Pcs
        <3>2. Goto("wait") \in Seq(Frame)
            BY <2>1, <3>1, TickGoto, ParkedOK
        <3> QED  BY <2>3, <3>2, HeedsCallback, AddressesDiffer
    <2> QED  BY <1>2, <2>2, <2>3 DEF HandleLowPrio
<1>3. CASE Wait
    <2>1. stack # <<>> /\ \E f : stack' = Push(f, Rest)
        BY <1>3 DEF Wait, At, Goto
    <2> QED  BY <2>1, HeedsAt
<1>4. CASE DispatchTimer
    <2>1. Fr("sweep", "context", Null, Null, {}).op # "cb"
        BY DEF Fr
    <2> QED  BY <1>1, <1>4, <2>1, HeedsFunction DEF DispatchTimer
<1>5. CASE Post
    BY <1>5, HeedsAt DEF Post, At
<1>6. CASE Tick
    <2>1. Fr("tick", "lowprio", Null, Null, {}).op # "cb"
        BY DEF Fr
    <2>2. Caller \in Seq(Frame)
        BY <1>6, CallerStack DEF Tick, MayCall
    <2> QED  BY <1>6, <2>1, <2>2, HeedsFunction DEF Tick, TickStart
<1> QED  BY <1>2, <1>3, <1>4, <1>5, <1>6

\* A function goes on at another point.
LEMMA GotoStack ==
    ASSUME IInv, stack # <<>>, NEW pc \in Pcs
    PROVE  Goto(pc) \in Seq(Frame)
<1>1. Top \in Frame /\ Rest \in Seq(Frame)
    BY Running
<1>2. [Top EXCEPT !.pc = pc] \in Frame
    BY <1>1 DEF Frame
<1> QED  BY <1>1, <1>2, PushType DEF Goto

\* A ready poll belongs to an open socket.
LEMMA HeedsPoll ==
    ASSUME IInv, LInv, NEW s \in Sockets, DispatchPoll(s)
    PROVE  Heeds
<1>1. /\ stack # <<>> /\ stack \in Seq(Frame) /\ h \in Heap /\ Open(h, s)
    BY DEF DispatchPoll, At, IInv, TypeOK, Sound
<1>2. PICK g : g = [h EXCEPT !.ready[s] = {}]
    OBVIOUS
<1>3. PICK ev : ev = (h.ready[s] \cap h.poll[s]) \cup (h.ready[s] \cap Conditions)
    OBVIOUS
<1>4. DOMAIN h = Fields
    BY <1>1, HeapFields
<1>5. g.type = h.type /\ g.prev = h.prev /\ g.ctx = h.ctx /\ DOMAIN g = Fields
    BY <1>2, <1>4 DEF Fields
<1>6. CASE stack' = stack
    BY <1>1, <1>6, HeedsAt
<1>7. CASE \/ stack' = Push(Fr("accept", "accept", s, Null, {}), stack)
           \/ stack' = Push(Fr("dispatch", "writable", s, Null, ev), stack)
    <2>1. \A op, pc, e : Fr(op, pc, s, Null, e).op = op
        BY DEF Fr
    <2>2. PICK f : f.op # "cb" /\ stack' = Push(f, stack)
        BY <1>7, <2>1
    <2> QED  BY <1>1, <2>2, HeedsFunction
<1>8. CASE h' = g /\ stack' = Push(Callback("on_connect_error", s), stack)
    <2>1. h'.type[s] # "free" /\ ~IsClosed(h', s)
        BY <1>1, <1>5, <1>8 DEF Open, IsClosed
    <2> QED  BY <1>1, <1>8, <2>1, HeedsCallback
<1>9. CASE /\ h' = [PollChange(g, s, {"R"}) EXCEPT !.type[s] = "socket", !.due[s] = @ \ {"short"}]
           /\ stack' = Push(Callback("on_open", s), stack)
    <2>1. h'.type = [g.type EXCEPT ![s] = "socket"] /\ h'.prev = g.prev /\ h'.ctx = g.ctx
        BY <1>5, <1>9 DEF PollChange, Fields
    <2>2. h.type \in [Sockets -> PollTypes]
        BY <1>1 DEF Heap
    <2>3. h'.type[s] # "free" /\ ~IsClosed(h', s)
        BY <1>1, <1>5, <2>1, <2>2 DEF Open, IsClosed
    <2> QED  BY <1>1, <1>9, <2>3, HeedsCallback
<1> QED  BY <1>2, <1>3, <1>6, <1>7, <1>8, <1>9 DEF DispatchPoll

\* An accepted socket is open.
LEMMA HeedsAccept ==
    ASSUME IInv, LInv, Accept
    PROVE  Heeds
<1>1. stack # <<>> /\ Top.op = "accept"
    BY DEF Accept, At
<1>2. stack \in Seq(Frame) /\ Top.s \in Sockets
    BY <1>1, Running DEF IInv, TypeOK, FrameOK
<1>3. PICK r : Under(h, Push(Top, Rest), owner, r, unsent, wfailed)
    BY <1>1, Opened
<1>4. Heaped(h, {}, owner, r, Mode)
    BY <1>1, <1>3, OnFloor
<1>5. CASE stack' = Rest
    BY <1>1, <1>5, HeedsAt
<1>6. ASSUME /\ ~IsClosed(h, Top.s) /\ h.type[Top.s] = "listen",
             NEW s \in Sockets, h.type[s] = "free",
             h' = NewSocket(h, h.ctx[Top.s], s, "socket", {"R"}),
             stack' = Push(Callback("on_open", s), stack)
      PROVE  Heeds
    <2>1. /\ Sound(h) /\ Covered(h, {}, owner, Mode.plain) /\ h \in Heap /\ h.ref \in [Contexts -> Int]
        BY <1>4 DEF Heaped, IInv, TypeOK, Heap
    <2>2. PICK c : c = h.ctx[Top.s]
        OBVIOUS
    <2>3. c \in Contexts
        BY <1>2, <1>6, <2>1, <2>2 DEF Sound
    <2>4. Holding(h, {}, Top.s) /\ h.ctx[Top.s] = c
        BY <1>6, <2>2 DEF Holding
    <2>5. h.ref[c] >= 1
        BY <1>2, <2>1, <2>3, <2>4, HeldReferenced
    <2>6. h' = NewSocket(h, c, s, "socket", {"R"})
        BY <1>6, <2>2
    <2>7. {"R"} \in SUBSET Directions
        BY DEF Directions
    <2>8. Open(h', s)
        BY <1>4, <1>6, <2>3, <2>5, <2>6, <2>7, NewSocketMoves
    <2> QED  BY <1>2, <1>6, <2>8, HeedsCallback DEF Open
<1> QED  BY <1>5, <1>6 DEF Accept

\* The dispatch asks whether its socket is closed before each callback.
LEMMA HeedsDispatch ==
    ASSUME IInv, LInv,
           DispatchWritable \/ DispatchWrote \/ DispatchReadable \/ Recv \/ ReceivedMore
             \/ ReceivedLast \/ DispatchEof \/ DispatchEnd
    PROVE  Heeds
<1>1. stack # <<>> /\ Top.op = "dispatch"
    BY DEF DispatchWritable, DispatchWrote, DispatchReadable, Recv, ReceivedMore, ReceivedLast,
           DispatchEof, DispatchEnd, At
<1>2. PICK r : Dispatching(r)
    BY <1>1, DispatchRuns
<1>3. /\ Top.s \in Sockets /\ h.type[Top.s] \in {"socket", "shut"} /\ h \in Heap
      /\ Top.pc \in {"writable", "readable", "recv"} => ~IsClosed(h, Top.s)
    BY <1>2 DEF Dispatching
<1>4. CASE stack' = Rest \/ \E f : stack' = Push(f, Rest)
    BY <1>1, <1>4, HeedsAt
<1>5. \A pc : Goto(pc) = Push([Top EXCEPT !.pc = pc], Rest)
    BY DEF Goto
<1>6. CASE SocketClose(Top.s, Rest)
    <2>1. Rest \in Seq(Frame) /\ Len(Rest) <= Len(stack)
        BY <1>1, RestLength
    <2>2. ~IsClosed(h, Top.s) => Open(h, Top.s)
        BY <1>3 DEF Open
    <2> QED  BY <1>6, <2>1, <2>2, HeedsClose
<1>7. ASSUME NEW name, NEW pc \in Pcs, name # "on_close",
             stack' = Push(Callback(name, Top.s), Goto(pc)),
             ~IsClosed(h', Top.s), h'.type = h.type
      PROVE  Heeds
    <2>1. Goto(pc) \in Seq(Frame)
        BY <1>1, GotoStack
    <2>2. h'.type[Top.s] # "free"
        BY <1>3, <1>7
    <2> QED  BY <1>7, <2>1, <2>2, HeedsCallback
<1>8. "wrote" \in Pcs /\ "received" \in Pcs /\ "error" \in Pcs /\ "ended" \in Pcs
    BY DEF Pcs
<1>9. CASE DispatchWritable
    <2>1. Top.pc = "writable" /\ h' = h
        BY <1>9 DEF DispatchWritable, At
    <2>2. \/ stack' = Push(Callback("on_writable", Top.s), Goto("wrote"))
          \/ stack' = Goto("readable")
        BY <1>9 DEF DispatchWritable
    <2>3. CASE stack' = Push(Callback("on_writable", Top.s), Goto("wrote"))
        BY <1>3, <1>7, <1>8, <2>1, <2>3
    <2> QED  BY <1>4, <1>5, <2>2, <2>3
<1>10. CASE DispatchWrote
    BY <1>4, <1>5, <1>10 DEF DispatchWrote
<1>11. CASE DispatchReadable
    BY <1>4, <1>5, <1>11 DEF DispatchReadable
<1>12. CASE Recv
    <2>1. Top.pc = "recv"
        BY <1>12 DEF Recv, At
    <2>2. \/ stack' = Push(Callback("on_data", Top.s), Goto("received")) /\ h' = h
          \/ \E f : stack' = Push(f, Rest)
          \/ SocketClose(Top.s, Rest)
        BY <1>5, <1>12 DEF Recv
    <2>3. CASE stack' = Push(Callback("on_data", Top.s), Goto("received")) /\ h' = h
        BY <1>3, <1>7, <1>8, <2>1, <2>3
    <2> QED  BY <1>4, <1>6, <2>2, <2>3
<1>13. CASE ReceivedMore \/ ReceivedLast
    BY <1>4, <1>5, <1>13 DEF ReceivedMore, ReceivedLast
<1>14. CASE DispatchEof
    <2>1. \/ stack' = Goto("error")
          \/ stack' = Rest
          \/ SocketClose(Top.s, Rest)
          \/ /\ ~IsClosed(h, Top.s)
             /\ h' = PollChange(h, Top.s, h.poll[Top.s] \cap {"W"}) \/ h' = h
             /\ \E pc \in {"error", "ended"} : stack' = Push(Callback("on_end", Top.s), Goto(pc))
        BY <1>14 DEF DispatchEof
    <2>2. CASE /\ ~IsClosed(h, Top.s)
               /\ h' = PollChange(h, Top.s, h.poll[Top.s] \cap {"W"}) \/ h' = h
               /\ \E pc \in {"error", "ended"} : stack' = Push(Callback("on_end", Top.s), Goto(pc))
        <3>1. DOMAIN h = Fields
            BY <1>3, HeapFields
        <3>2. h'.type = h.type /\ h'.prev = h.prev /\ h'.ctx = h.ctx
            BY <2>2, <3>1 DEF PollChange, Fields
        <3>3. ~IsClosed(h', Top.s)
            BY <2>2, <3>2 DEF IsClosed
        <3>4. PICK pc \in Pcs : stack' = Push(Callback("on_end", Top.s), Goto(pc))
            BY <1>8, <2>2
        <3> QED  BY <1>7, <3>2, <3>3, <3>4
    <2> QED  BY <1>4, <1>5, <1>6, <2>1, <2>2
<1>15. CASE DispatchEnd
    BY <1>4, <1>6, <1>15 DEF DispatchEnd
<1> QED  BY <1>9, <1>10, <1>11, <1>12, <1>13, <1>14, <1>15

\* The sweep calls back on members of the list of its context only.
LEMMA HeedsSweep ==
    ASSUME IInv, LInv, SweepContext \/ SweepSeek \/ SweepLong \/ SweepStep
    PROVE  Heeds
<1>1. stack # <<>> /\ Top.op = "sweep"
    BY DEF SweepContext, SweepSeek, SweepLong, SweepStep, At
<1>2. PICK r : Sweeping(r)
    BY <1>1, SweepRuns
<1>3. Heaped(h, {}, owner, r, Mode) /\ Runs(h, Top, r) /\ h \in Heap /\ Top.s \in SocketPtr
    BY <1>2 DEF Sweeping
<1>4. CASE stack' = Rest \/ \E f : stack' = Push(f, Rest)
    BY <1>1, <1>4, HeedsAt
<1>5. \A pc : Goto(pc) = Push([Top EXCEPT !.pc = pc], Rest)
    BY DEF Goto
<1>6. ASSUME NEW name, NEW pc \in Pcs, name # "on_close", NEW s \in Sockets, NEW c \in Contexts,
             s \in Regular(h, c), stack' = Push(Callback(name, s), Goto(pc)),
             h'.type = h.type, h'.prev = h.prev, h'.ctx = h.ctx
      PROVE  Heeds
    <2>1. Goto(pc) \in Seq(Frame)
        BY <1>1, GotoStack
    <2>2. h'.type[s] # "free" /\ ~IsClosed(h', s)
        BY <1>6 DEF Regular, Open, IsClosed
    <2> QED  BY <1>6, <2>1, <2>2, HeedsCallback
<1>7. "long" \in Pcs /\ "step" \in Pcs
    BY DEF Pcs
<1>8. DOMAIN h = Fields
    BY <1>3, HeapFields
<1>9. CASE SweepContext
    BY <1>4, <1>9 DEF SweepContext
<1>10. CASE SweepSeek
    <2>1. Top.pc = "seek"
        BY <1>10 DEF SweepSeek, At
    <2>2. \/ \E f : stack' = Push(f, Rest)
          \/ /\ Top.s # Null
             /\ h' = [h EXCEPT !.iter[Top.c] = Top.s, !.due[Top.s] = @ \ {"short"}]
             /\ stack' = Push(Callback("on_timeout", Top.s), Goto("long"))
        BY <1>5, <1>10 DEF SweepSeek
    <2>3. CASE /\ Top.s # Null
               /\ h' = [h EXCEPT !.iter[Top.c] = Top.s, !.due[Top.s] = @ \ {"short"}]
               /\ stack' = Push(Callback("on_timeout", Top.s), Goto("long"))
        <3>1. PICK c \in Contexts : c = Top.c
            BY <1>1, <1>2, <2>1 DEF Sweeping, FrameOK
        <3>2. PICK s \in Sockets : s = Top.s
            BY <1>3, <2>3 DEF SocketPtr
        <3>3. s \in Regular(h, c)
            BY <1>1, <1>3, <2>1, <2>3, <3>1, <3>2 DEF Runs
        <3>4. h'.type = h.type /\ h'.prev = h.prev /\ h'.ctx = h.ctx
            BY <1>8, <2>3 DEF Fields
        <3>5. stack' = Push(Callback("on_timeout", s), Goto("long"))
            BY <2>3, <3>2
        <3> QED  BY <1>6, <1>7, <3>3, <3>4, <3>5
    <2> QED  BY <1>4, <2>2, <2>3
<1>11. CASE SweepLong
    <2>1. Top.pc = "long"
        BY <1>11 DEF SweepLong, At
    <2>2. \/ \E f : stack' = Push(f, Rest)
          \/ /\ h.iter[Top.c] = Top.s
             /\ h' = [h EXCEPT !.due[Top.s] = @ \ {"long"}]
             /\ stack' = Push(Callback("on_long_timeout", Top.s), Goto("step"))
        BY <1>5, <1>11 DEF SweepLong
    <2>3. CASE /\ h.iter[Top.c] = Top.s
               /\ h' = [h EXCEPT !.due[Top.s] = @ \ {"long"}]
               /\ stack' = Push(Callback("on_long_timeout", Top.s), Goto("step"))
        <3>1. PICK c \in Contexts : c = Top.c
            BY <1>1, <1>2, <2>1 DEF Sweeping, FrameOK
        <3>2. PICK s \in Sockets : s = Top.s
            BY <1>1, <1>2, <2>1 DEF Sweeping, FrameOK
        <3>3. h.iter[c] = s
            BY <2>3, <3>1, <3>2
        <3>4. s \in Regular(h, c)
            BY <1>3, <3>3, AddressesDiffer DEF Heaped, Lists
        <3>5. h'.type = h.type /\ h'.prev = h.prev /\ h'.ctx = h.ctx
            BY <1>8, <2>3 DEF Fields
        <3>6. stack' = Push(Callback("on_long_timeout", s), Goto("step"))
            BY <2>3, <3>2
        <3> QED  BY <1>6, <1>7, <3>4, <3>5, <3>6
    <2> QED  BY <1>4, <2>2, <2>3
<1>12. CASE SweepStep
    BY <1>4, <1>12 DEF SweepStep
<1> QED  BY <1>9, <1>10, <1>11, <1>12

\* A return makes no callback.
LEMMA HeedsReturn ==
    ASSUME IInv, Return
    PROVE  Heeds
<1>1. stack # <<>> /\ Rest \in Seq(Frame) /\ Len(Rest) <= Len(stack)
    BY RestLength DEF Return
<1>2. CASE stack' = Rest
    BY <1>1, <1>2, HeedsAt
<1>3. CASE Rest # <<>> /\ stack' = Push([Head(Rest) EXCEPT !.s = Top.s], Tail(Rest))
    <2>1. PICK t \in Seq(Frame) : t = Tail(Rest) /\ Rest = Push(Head(Rest), t)
        <3>1. /\ Head(Rest) \in Frame /\ Tail(Rest) \in Seq(Frame)
              /\ Rest = Push(Head(Rest), Tail(Rest))
            BY <1>1, <1>3 DEF Push
        <3> QED  BY <3>1
    <2>2. PICK f : f = [Head(Rest) EXCEPT !.s = Top.s]
        OBVIOUS
    <2>3. stack' = Push(f, t)
        BY <1>3, <2>1, <2>2
    <2>4. Len(Rest) = Len(t) + 1
        BY <2>1, PushLength
    <2>5. Len(stack') = Len(t) + 1
        BY <2>3, PushLength
    <2>6. Len(stack') = Len(Rest) /\ Len(Rest) \in Nat /\ Len(stack) \in Nat
        BY <1>1, <2>4, <2>5 DEF IInv, TypeOK
    <2> QED  BY <1>1, <2>6, NoLonger
<1> QED  BY <1>2, <1>3 DEF Return

\* The program closes sockets it holds.
LEMMA HeedsCall ==
    ASSUME IInv, LInv, Call
    PROVE  Heeds
<1>1. CASE \/ \E c \in Contexts : Create(c) \/ Free(c)
           \/ \E c \in Contexts, s \in Sockets : OpenSocket(c, s)
           \/ \E s \in Sockets : \/ CloseListen(s) \/ DetachSocket(s) \/ Shutdown(s)
                                 \/ WriteFailed(s) \/ Pause(s) \/ Resume(s)
    <2>1. (stack # <<>> => Top.op = "cb" /\ Top.n > 0) /\ stack' = Caller
        BY <1>1 DEF Create, Free, OpenSocket, CloseListen, DetachSocket, Shutdown, WriteFailed,
                    Pause, Resume, Pausable, MayCall
    <2> QED  BY <2>1, HeedsCaller
<1>2. ASSUME NEW c \in Contexts, CloseContext(c)
      PROVE  Heeds
    <2>1. Caller \in Seq(Frame)
        BY <1>2, CallerStack DEF CloseContext, MayCall
    <2>2. PICK f : f = Fr("cclose", "listening", h.lhead[c], c, {})
        OBVIOUS
    <2>3. f.op # "cb" /\ stack' = Push(f, Caller)
        BY <1>2, <2>2 DEF CloseContext, Fr
    <2> QED  BY <2>1, <2>3, HeedsFunction
<1>3. ASSUME NEW s \in Sockets, Close(s)
      PROVE  Heeds
    <2>1. /\ stack # <<>> => Top.op = "cb" /\ Top.n > 0
          /\ Open(h, s) /\ SocketClose(s, Caller)
        BY <1>3 DEF Close, MayCall
    <2>2. Caller \in Seq(Frame)
        BY <2>1, CallerStack
    <2>3. Len(Caller) <= Len(stack)
        <3>1. CASE stack = <<>>
            BY <3>1 DEF Caller
        <3>2. CASE stack # <<>>
            <4>1. Rest \in Seq(Frame) /\ stack = Push(Top, Rest)
                BY <3>2, Running
            <4>2. PICK f : Caller = Push(f, Rest)
                BY <3>2 DEF Caller
            <4>3. Len(stack) = Len(Rest) + 1 /\ Len(Caller) = Len(Rest) + 1 /\ Len(Rest) \in Nat
                BY <4>1, <4>2, PushLength
            <4> QED  BY <4>3
        <3> QED  BY <3>1, <3>2
    <2> QED  BY <2>1, <2>2, <2>3, HeedsClose
<1>4. ASSUME NEW c \in Contexts, NEW n \in Sockets, AdoptSocket(c, n)
      PROVE  Heeds
    <2>1. stack # <<>> /\ \E f : stack' = Push(f, Rest)
        BY <1>4 DEF AdoptSocket
    <2> QED  BY <2>1, HeedsAt
<1> QED  BY <1>1, <1>2, <1>3, <1>4 DEF Call

\* Every step calls back on open sockets only.
LEMMA NextHeeds ==
    ASSUME IInv, LInv, [Next]_vars
    PROVE  [Heeds]_vars
<1>1. CASE LoopStep
    BY <1>1, HeedsCloses, HeedsTick, HeedsPoll, HeedsAccept, HeedsDispatch, HeedsSweep, HeedsReturn
       DEF LoopStep
<1>2. CASE Call
    BY <1>2, HeedsCall
<1>3. CASE Exit \/ UNCHANGED vars
    BY <1>3 DEF Exit
<1> QED  BY <1>1, <1>2, <1>3 DEF Next

-----------------------------------------------------------------------------
(* The theorems about tame programs.                                       *)

\* The lists of a context hold exactly its open sockets that are not queued,
\* whatever the callbacks call in the middle of a close or of a sweep
\* (context.c:88-179, 766-814).
THEOREM ListsExactHolds == Tame => (Spec => []ListsExact)
<1> ASSUME Tame PROVE Spec => []ListsExact
    <2>1. IInv /\ LInv => ListsExact
        BY InvListsExact
    <2> QED  BY <2>1, LInvHolds, PTL
<1> QED  OBVIOUS

\* The low-priority queue holds exactly the sockets in state 1, each once
\* (loop.c:152-169, 361-381).
THEOREM QueueExactHolds == Tame => (Spec => []QueueExact)
<1> ASSUME Tame PROVE Spec => []QueueExact
    <2>1. IInv /\ LInv => QueueExact
        BY InvQueueExact
    <2> QED  BY <2>1, LInvHolds, PTL
<1> QED  OBVIOUS

\* No closed socket leaks and none is freed under its on_close: the closed list
\* holds exactly the sockets whose close has finished (loop.c:209-231).
THEOREM ClosedExactHolds == Tame => (Spec => []ClosedExact)
<1> ASSUME Tame PROVE Spec => []ClosedExact
    <2>1. IInv /\ LInv => ClosedExact
        BY InvClosedExact
    <2> QED  BY <2>1, LInvHolds, PTL
<1> QED  OBVIOUS

\* In a program that queues nothing the reference count of a context is the
\* number of its holders, and it is on the closed list once there is none
\* (context.c:336-349).
THEOREM RefExactHolds == Tame /\ "lowprio" \notin Calls => (Spec => []RefExact)
<1> ASSUME Tame, "lowprio" \notin Calls PROVE Spec => []RefExact
    <2>1. IInv /\ LInv => RefExact
        BY InvRefExact
    <2> QED  BY <2>1, LInvHolds, PTL
<1> QED  OBVIOUS

\* A context outlives its creator's handle, its sockets and the closes in
\* progress, also where the count is too high (context.c:336-349).
THEOREM NoEarlyFreeHolds == Tame => (Spec => []NoEarlyFree)
<1> ASSUME Tame PROVE Spec => []NoEarlyFree
    <2>1. IInv /\ LInv => NoEarlyFree
        BY InvNoEarlyFree
    <2> QED  BY <2>1, LInvHolds, PTL
<1> QED  OBVIOUS

\* No function on the stack, no iterator of the sweep and no socket points to
\* freed memory (loop.c:95-143, 209-231; context.c:64-86).
THEOREM NoDanglingHolds == Tame => (Spec => []NoDangling)
<1> ASSUME Tame PROVE Spec => []NoDangling
    <2>1. IInv /\ LInv => NoDangling
        BY InvNoDangling
    <2> QED  BY <2>1, LInvHolds, PTL
<1> QED  OBVIOUS

\* A sweep that reaches the end of a context has delivered every timeout due
\* there, whichever sockets its callbacks closed (loop.c:104-140).
THEOREM NoTimeoutSkippedHolds == Tame => (Spec => []NoTimeoutSkipped)
<1> ASSUME Tame PROVE Spec => []NoTimeoutSkipped
    <2>1. IInv /\ LInv => NoTimeoutSkipped
        BY InvNoTimeoutSkipped
    <2> QED  BY <2>1, LInvHolds, PTL
<1> QED  OBVIOUS

\* One flag for the whole loop remembers the failed write of the socket that is
\* dispatched: a socket with a short write stays polled for writable, in a program
\* whose short writes all set it (loop.c:340-355).
THEOREM UnsentIsPolledHolds == Tame /\ "write2" \notin Calls => (Spec => []UnsentIsPolled)
<1> ASSUME Tame, "write2" \notin Calls PROVE Spec => []UnsentIsPolled
    <2>1. IInv /\ LInv => UnsentIsPolled
        BY InvUnsentIsPolled DEF Flagged
    <2> QED  BY <2>1, LInvHolds, PTL
<1> QED  OBVIOUS

\* Every callback but on_close finds its socket open, and on_close is called
\* once, by the close that found it open (socket.c:181-243).
THEOREM CallbackOnOpenHolds == Tame => (Spec => CallbackOnOpen)
<1> ASSUME Tame PROVE Spec => CallbackOnOpen
    <2>1. IInv /\ LInv /\ [Next]_vars => [Heeds]_vars
        BY NextHeeds
    <2> QED  BY <2>1, LInvHolds, PTL DEF Spec, CallbackOnOpen, Heeds
<1> QED  OBVIOUS

\* The accept loop reads its listen socket after each on_open: nobody has freed
\* it, although on_open may have closed it (context.c:59, loop.c:325-328).
THEOREM AcceptLoopHolds == Tame => (Spec => []AcceptLoopHoldsSocket)
<1> ASSUME Tame PROVE Spec => []AcceptLoopHoldsSocket
    <2>1. IInv /\ LInv => AcceptLoopHoldsSocket
        <3> SUFFICES ASSUME IInv, LInv, NEW i \in 1..Len(stack), stack[i].op = "accept"
                     PROVE  h.type[stack[i].s] # "free"
            BY DEF AcceptLoopHoldsSocket
        <3>1. PICK f : f = stack[i]
            OBVIOUS
        <3>2. f \in Frames(stack)
            BY <3>1 DEF Frames
        <3>3. PICK r : Base(h, stack, owner, r)
            BY DEF LInv, Based
        <3>4. FrameAlive(h, f)
            BY <3>2, <3>3 DEF Base, Waits
        <3>5. f.s \in Sockets
            <4>1. /\ stack \in Seq(Frame) /\ stack # <<>> /\ FrameOK(Head(stack))
                  /\ Tail(stack) \in Seq(Parked)
                BY DEF IInv, StackOK, TypeOK
            <4>2. CASE i = 1
                BY <3>1, <4>1, <4>2 DEF FrameOK
            <4>3. CASE i # 1
                <5>1. f = Tail(stack)[i - 1] /\ i - 1 \in 1..Len(Tail(stack))
                    BY <3>1, <4>1, <4>3
                <5>2. f \in Parked
                    BY <4>1, <5>1
                <5> QED  BY <3>1, <5>2 DEF Parked, FrameOK
            <4> QED  BY <4>2, <4>3
        <3> QED  BY <3>1, <3>4, <3>5 DEF FrameAlive
    <2> QED  BY <2>1, LInvHolds, PTL
<1> QED  OBVIOUS

-----------------------------------------------------------------------------
(* The registry.                                                           *)

\* The life of a socket, its context and the life of a context, read off the fields.
Life(g, K, s) ==
    IF g.type[s] = "free" THEN "free"
    ELSE IF ~IsClosed(g, s) THEN "open"
    ELSE IF s \in K THEN "closing" ELSE "closed"
Home(g, s) == IF g.type[s] = "free" THEN Null ELSE g.ctx[s]
Span(g, c) ==
    IF g.state[c] = "live" THEN "live" ELSE IF g.state[c] = "closed" THEN "dead" ELSE "none"

\* Who needs the context c, and that this is who keeps it alive.
Wanted(g, K, own, c) ==
    c \in own \/ \E s \in Sockets : Life(g, K, s) \in {"open", "closing"} /\ Home(g, s) = c
Fits(g, K, own) == \A c \in Contexts : g.state[c] = "live" <=> Wanted(g, K, own, c)

\* What the lists say is what the fields say.
Seen ==
    /\ AbstractSockets = [s \in Sockets |-> Life(h, Closes(stack), s)]
    /\ AbstractContexts = [s \in Sockets |-> Home(h, s)]
    /\ AbstractLives = [c \in Contexts |-> Span(h, c)]
    /\ Fits(h, Closes(stack), owner)
    /\ Closes(stack) \subseteq Dead(h)
    /\ \A s \in Sockets : h.type[s] # "free" => h.ctx[s] \in Contexts

\* A socket is on a list of a context, or in the queue, exactly while it is open.
LEMMA OpenSeen ==
    ASSUME IInv, LInv, NEW s \in Sockets, NEW c \in Contexts
    PROVE  OpenIn(s, c) <=> Open(h, s) /\ h.ctx[s] = c
<1>1. /\ Chain(h, h.head[c]) = {t \in Members(c) : h.type[t] # "listen" /\ h.low[t] # 1}
      /\ Chain(h, h.lhead[c]) = {t \in Members(c) : h.type[t] = "listen"}
    BY InvListsExact
<1>2. Chain(h, h.lowHead) = {t \in Sockets : Open(h, t) /\ h.low[t] = 1}
    BY InvQueueExact DEF QueueExact
<1>3. s \in Members(c) <=> Open(h, s) /\ h.ctx[s] = c
    BY DEF Members
<1> QED  BY <1>1, <1>2, <1>3 DEF OpenIn

\* The contexts of the loop are reached from their list.
LEMMA InvContexts ==
    ASSUME IInv, LInv
    PROVE  /\ ContextChain(h, h.chead) = LiveContexts(h)
           /\ ContextChain(h, h.closedCtx) = ClosedContexts(h)
<1>1. PICK r : Heaped(h, Closes(stack), owner, r, Mode)
    BY InvHeap
<1>2. ContextsOK(h)
    BY <1>1 DEF Heaped
<1>3. IsFiniteSet(Contexts) /\ Null \notin Contexts
    BY DistinctAddresses
<1>4. LiveContexts(h) \in SUBSET Contexts /\ ClosedContexts(h) \in SUBSET Contexts
    BY DEF LiveContexts, ClosedContexts
<1>5. PICK q \in [Contexts -> Int] : Ordered(h.cnext, LiveContexts(h), h.chead, q)
    BY <1>2 DEF ContextsOK, LiveList, Threaded
<1>6. PICK p \in [Contexts -> Int] : Ordered(h.cnext, ClosedContexts(h), h.closedCtx, p)
    BY <1>2 DEF ContextsOK
<1>7. Walk(h.cnext, Contexts, h.chead) = LiveContexts(h)
    BY <1>3, <1>4, <1>5, WholeWalk
<1>8. Walk(h.cnext, Contexts, h.closedCtx) = ClosedContexts(h)
    BY <1>3, <1>4, <1>6, WholeWalk
<1> QED  BY <1>7, <1>8, ChainsAreWalks

\* A program that queues nothing: a context lives exactly while it is needed.
LEMMA InvFits ==
    ASSUME IInv, LInv, "lowprio" \notin Calls
    PROVE  Fits(h, Closes(stack), owner)
<1>1. PICK r : Heaped(h, Closes(stack), owner, r, Mode) /\ Closes(stack) \subseteq Dead(h)
    BY InvHeap
<1>2. PICK K : K = Closes(stack)
    OBVIOUS
<1>3. /\ ContextsOK(h) /\ Covered(h, K, owner, Mode.plain) /\ Mode.plain /\ K \subseteq Dead(h)
      /\ h.ref \in [Contexts -> Int]
    BY <1>1, <1>2 DEF Heaped, Mode, IInv, TypeOK, Heap
<1>4. ASSUME NEW c \in Contexts
      PROVE  h.state[c] = "live" <=> Wanted(h, K, owner, c)
    <2>1. \A s \in Sockets : Life(h, K, s) \in {"open", "closing"} /\ Home(h, s) = c
                                <=> Holding(h, K, s) /\ h.ctx[s] = c
        BY DEF Life, Home, Holding
    <2>2. PICK H : H = Holders(h, K, owner, c)
        OBVIOUS
    <2>3. Wanted(h, K, owner, c) <=> H # {}
        BY <2>1, <2>2 DEF Wanted, Holders
    <2>4. IsFiniteSet(H) /\ h.ref[c] = Cardinality(H)
        BY <1>3, <2>2, HoldersFinite DEF Covered
    <2>5. H = {} <=> Cardinality(H) = 0
        BY <2>4, FS_EmptySet
    <2>6. h.state[c] = "live" <=> h.ref[c] # 0
        BY <1>3 DEF ContextsOK
    <2> QED  BY <2>3, <2>4, <2>5, <2>6
<1> QED  BY <1>2, <1>4 DEF Fits

\* What the lists say is what the fields say.
LEMMA Seeing ==
    ASSUME IInv, LInv, "lowprio" \notin Calls
    PROVE  Seen
<1>1. PICK K : K = Closes(stack)
    OBVIOUS
<1>2. /\ \A s \in Sockets : Closing(s) <=> s \in K
      /\ K \subseteq Dead(h)
    BY <1>1, InvHeap
<1>3. Fits(h, K, owner)
    BY <1>1, InvFits
<1>4. \A s \in Sockets : h.type[s] # "free" => h.ctx[s] \in Contexts
    BY DEF IInv, Sound
<1>5. Chain(h, h.closed) = {s \in Sockets : h.type[s] # "free" /\ IsClosed(h, s) /\ ~Closing(s)}
    BY InvClosedExact DEF ClosedExact
<1>6. ASSUME NEW s \in Sockets
      PROVE  AbstractSocket(s) = Life(h, K, s) /\ AbstractContext(s) = Home(h, s)
    <2>1. \A c \in Contexts : OpenIn(s, c) <=> Open(h, s) /\ h.ctx[s] = c
        BY <1>6, OpenSeen
    <2>2. (\E c \in Contexts : OpenIn(s, c)) <=> Open(h, s)
        BY <1>4, <2>1 DEF Open
    <2>3. AbstractSocket(s) = Life(h, K, s)
        BY <1>2, <1>5, <2>2 DEF AbstractSocket, Life, Open, Dead
    <2>4. CASE Open(h, s)
        <3>1. OpenContext(s) = h.ctx[s]
            BY <1>4, <2>1, <2>4 DEF OpenContext, Open
        <3>2. AbstractSocket(s) = "open"
            BY <2>3, <2>4 DEF Life, Open
        <3> QED  BY <2>3, <2>4, <3>1, <3>2 DEF AbstractContext, Home, Open
    <2>5. CASE ~Open(h, s)
        <3>1. AbstractSocket(s) = "free" <=> h.type[s] = "free"
            BY <2>3 DEF Life
        <3>2. AbstractSocket(s) # "open"
            BY <2>3, <2>5 DEF Life, Open
        <3>3. CASE h.type[s] = "free"
            <4>1. AbstractSocket(s) = "free"
                BY <3>1, <3>3
            <4>2. AbstractContext(s) = Null
                BY <4>1 DEF AbstractContext
            <4> QED  BY <2>3, <3>3, <4>2 DEF Home
        <3>4. CASE h.type[s] # "free"
            <4>1. AbstractSocket(s) # "free"
                BY <3>1, <3>4
            <4>2. AbstractContext(s) = h.ctx[s]
                BY <3>2, <4>1 DEF AbstractContext
            <4> QED  BY <2>3, <3>4, <4>2 DEF Home
        <3> QED  BY <3>3, <3>4
    <2> QED  BY <2>3, <2>4, <2>5
<1>7. ASSUME NEW c \in Contexts
      PROVE  AbstractLife(c) = Span(h, c)
    BY InvContexts DEF AbstractLife, Span, LiveContexts, ClosedContexts
<1>8. AbstractSockets = [s \in Sockets |-> Life(h, K, s)]
    BY <1>6 DEF AbstractSockets
<1>9. AbstractContexts = [s \in Sockets |-> Home(h, s)]
    BY <1>6 DEF AbstractContexts
<1>10. AbstractLives = [c \in Contexts |-> Span(h, c)]
    BY <1>7 DEF AbstractLives
<1> QED  BY <1>1, <1>2, <1>3, <1>4, <1>8, <1>9, <1>10 DEF Seen

\* What happens to a socket that a step spares, and to a context.
LEMMA SparedLife ==
    ASSUME NEW g, NEW k, NEW X, Spares(g, k, X), NEW s \in Sockets \ X,
           NEW K, NEW L, s \in K <=> s \in L
    PROVE  Life(k, L, s) = Life(g, K, s) /\ Home(k, s) = Home(g, s)
    BY DEF Spares, Life, Home

\* A context that nobody needs any more is closed ...
LEMMA FadedSpan ==
    ASSUME NEW g, NEW k, Fades(g, k), NEW L, NEW own, Fits(k, L, own), NEW c \in Contexts
    PROVE  Span(k, c) = IF Span(g, c) = "live" /\ ~Wanted(k, L, own, c) THEN "dead" ELSE Span(g, c)
    BY DEF Fades, Fits, Span

\* ... and one that somebody still needs is not.
LEMMA WantedSpan ==
    ASSUME NEW g, NEW k, Fades(g, k), NEW K, NEW own, Fits(g, K, own),
           NEW L, NEW p, Fits(k, L, p),
           \A c \in Contexts : Wanted(g, K, own, c) => Wanted(k, L, p, c)
    PROVE  \A c \in Contexts : Span(k, c) = Span(g, c)
    BY DEF Fades, Fits, Span

\* Nothing happens in the registry.
LEMMA SameView ==
    ASSUME Seen, Seen', Spares(h, h', {}), Fades(h, h'), Closes(stack') = Closes(stack),
           owner' = owner
    PROVE  UNCHANGED Registry!vars
<1>1. PICK K : K = Closes(stack)
    OBVIOUS
<1>2. Fits(h, K, owner) /\ Fits(h', K, owner)
    BY <1>1 DEF Seen
<1>3. \A s \in Sockets : Life(h', K, s) = Life(h, K, s) /\ Home(h', s) = Home(h, s)
    BY SparedLife
<1>4. \A c \in Contexts : Wanted(h, K, owner, c) => Wanted(h', K, owner, c)
    BY <1>3 DEF Wanted
<1>5. \A c \in Contexts : Span(h', c) = Span(h, c)
    BY <1>2, <1>4, WantedSpan
<1>6. /\ AbstractSockets = [s \in Sockets |-> Life(h, K, s)]
      /\ AbstractContexts = [s \in Sockets |-> Home(h, s)]
      /\ AbstractLives = [c \in Contexts |-> Span(h, c)]
    BY <1>1 DEF Seen
<1>7. /\ AbstractSockets' = [s \in Sockets |-> Life(h', K, s)]
      /\ AbstractContexts' = [s \in Sockets |-> Home(h', s)]
      /\ AbstractLives' = [c \in Contexts |-> Span(h', c)]
    BY <1>1 DEF Seen
<1> QED  BY <1>3, <1>5, <1>6, <1>7 DEF Registry!vars

\* A socket is closed, its on_close still to return.
LEMMA BeginCloseView ==
    ASSUME Seen, Seen', NEW s \in Sockets, Open(h, s), Shuts(h, h', s),
           Closes(stack') = Closes(stack) \cup {s}, owner' = owner
    PROVE  Registry!BeginClose(s)
<1>1. PICK K, L : K = Closes(stack) /\ L = K \cup {s}
    OBVIOUS
<1>2. Fits(h, K, owner) /\ Fits(h', L, owner)
    BY <1>1 DEF Seen
<1>3. Spares(h, h', {s}) /\ Fades(h, h')
    BY DEF Shuts
<1>4. \A t \in Sockets \ {s} : Life(h', L, t) = Life(h, K, t) /\ Home(h', t) = Home(h, t)
    BY <1>1, <1>3, SparedLife
<1>5. Life(h, K, s) = "open" /\ Life(h', L, s) = "closing" /\ Home(h', s) = Home(h, s)
    BY <1>1 DEF Shuts, Life, Home, Open
<1>6. \A c \in Contexts : Wanted(h, K, owner, c) => Wanted(h', L, owner, c)
    BY <1>4, <1>5 DEF Wanted
<1>7. \A c \in Contexts : Span(h', c) = Span(h, c)
    BY <1>2, <1>3, <1>6, WantedSpan
<1>8. /\ AbstractSockets = [t \in Sockets |-> Life(h, K, t)]
      /\ AbstractContexts = [t \in Sockets |-> Home(h, t)]
      /\ AbstractLives = [c \in Contexts |-> Span(h, c)]
    BY <1>1 DEF Seen
<1>9. /\ AbstractSockets' = [t \in Sockets |-> Life(h', L, t)]
      /\ AbstractContexts' = [t \in Sockets |-> Home(h', t)]
      /\ AbstractLives' = [c \in Contexts |-> Span(h', c)]
    BY <1>1 DEF Seen
<1>10. AbstractContexts' = AbstractContexts /\ AbstractLives' = AbstractLives
    BY <1>4, <1>5, <1>7, <1>8, <1>9
<1>11. AbstractSockets' = [AbstractSockets EXCEPT ![s] = "closing"]
    BY <1>4, <1>5, <1>8, <1>9
<1>12. AbstractSockets[s] = "open"
    BY <1>5, <1>8
<1> QED  BY <1>10, <1>11, <1>12 DEF Registry!BeginClose

\* The close of a socket ends, and with it the life of a context it was the last of.
LEMMA CloseView ==
    ASSUME Seen, Seen', NEW s \in Sockets, Life(h, Closes(stack), s) \in {"open", "closing"},
           Shuts(h, h', s), Closes(stack') = Closes(stack) \ {s}, owner' = owner
    PROVE  Registry!Close(s)
<1>1. PICK K, L : K = Closes(stack) /\ L = K \ {s}
    OBVIOUS
<1>2. Fits(h', L, owner)
    BY <1>1 DEF Seen
<1>3. Spares(h, h', {s}) /\ Fades(h, h')
    BY DEF Shuts
<1>4. \A t \in Sockets \ {s} : Life(h', L, t) = Life(h, K, t) /\ Home(h', t) = Home(h, t)
    BY <1>1, <1>3, SparedLife
<1>5. Life(h, K, s) \in {"open", "closing"} /\ Life(h', L, s) = "closed" /\ Home(h', s) = Home(h, s)
    BY <1>1 DEF Shuts, Life, Home
<1>6. \A c \in Contexts : Span(h', c) = IF Span(h, c) = "live" /\ ~Wanted(h', L, owner, c)
                                        THEN "dead" ELSE Span(h, c)
    BY <1>2, <1>3, FadedSpan
<1>8. /\ AbstractSockets = [t \in Sockets |-> Life(h, K, t)]
      /\ AbstractContexts = [t \in Sockets |-> Home(h, t)]
      /\ AbstractLives = [c \in Contexts |-> Span(h, c)]
    BY <1>1 DEF Seen
<1>9. /\ AbstractSockets' = [t \in Sockets |-> Life(h', L, t)]
      /\ AbstractContexts' = [t \in Sockets |-> Home(h', t)]
      /\ AbstractLives' = [c \in Contexts |-> Span(h', c)]
    BY <1>1 DEF Seen
<1>10. AbstractContexts' = AbstractContexts
    BY <1>4, <1>5, <1>8, <1>9
<1>11. AbstractSockets' = [AbstractSockets EXCEPT ![s] = "closed"]
    BY <1>4, <1>5, <1>8, <1>9
<1>12. AbstractSockets[s] \in {"open", "closing"}
    BY <1>5, <1>8
<1>13. \A c \in Contexts :
          Wanted(h', L, owner, c) <=> Registry!Needs(c, AbstractSockets', AbstractContexts, owner)
    BY <1>9, <1>10 DEF Wanted, Registry!Needs
<1>14. AbstractLives' = Registry!Settle(AbstractSockets', AbstractContexts, owner)
    BY <1>6, <1>8, <1>9, <1>13 DEF Registry!Settle
<1> QED  BY <1>10, <1>11, <1>12, <1>14 DEF Registry!Close

\* A socket is opened in a context that lives.
LEMMA OpenView ==
    ASSUME Seen, Seen', NEW s \in Sockets, NEW c \in Contexts, h.type[s] = "free",
           h.state[c] = "live", Opens(h, h', s, c), Open(h', s),
           Closes(stack') = Closes(stack), owner' = owner
    PROVE  Registry!Open(s, c)
<1>1. PICK K : K = Closes(stack)
    OBVIOUS
<1>2. Fits(h, K, owner) /\ Fits(h', K, owner)
    BY <1>1 DEF Seen
<1>3. Spares(h, h', {s}) /\ Fades(h, h') /\ h'.ctx[s] = c
    BY DEF Opens
<1>4. \A t \in Sockets \ {s} : Life(h', K, t) = Life(h, K, t) /\ Home(h', t) = Home(h, t)
    BY <1>3, SparedLife
<1>5. Life(h, K, s) = "free" /\ Life(h', K, s) = "open" /\ Home(h', s) = c
    BY <1>3 DEF Life, Home, Open
<1>6. \A d \in Contexts : Wanted(h, K, owner, d) => Wanted(h', K, owner, d)
    BY <1>4, <1>5 DEF Wanted
<1>7. \A d \in Contexts : Span(h', d) = Span(h, d)
    BY <1>2, <1>3, <1>6, WantedSpan
<1>8. /\ AbstractSockets = [t \in Sockets |-> Life(h, K, t)]
      /\ AbstractContexts = [t \in Sockets |-> Home(h, t)]
      /\ AbstractLives = [d \in Contexts |-> Span(h, d)]
    BY <1>1 DEF Seen
<1>9. /\ AbstractSockets' = [t \in Sockets |-> Life(h', K, t)]
      /\ AbstractContexts' = [t \in Sockets |-> Home(h', t)]
      /\ AbstractLives' = [d \in Contexts |-> Span(h', d)]
    BY <1>1 DEF Seen
<1>10. AbstractLives' = AbstractLives /\ AbstractLives[c] = "live"
    BY <1>7, <1>8, <1>9 DEF Span
<1>11. /\ AbstractSockets' = [AbstractSockets EXCEPT ![s] = "open"]
       /\ AbstractContexts' = [AbstractContexts EXCEPT ![s] = c]
    BY <1>4, <1>5, <1>8, <1>9
<1>12. AbstractSockets[s] = "free"
    BY <1>5, <1>8
<1> QED  BY <1>10, <1>11, <1>12 DEF Registry!Open

\* An open socket s becomes the socket n of the context c.
LEMMA AdoptView ==
    ASSUME Seen, Seen', NEW s \in Sockets, NEW n \in Sockets, NEW c \in Contexts, Open(h, s),
           n = s \/ h.type[n] = "free", h.state[c] = "live", Becomes(h, h', s, n, c), Open(h', n),
           Closes(stack') = Closes(stack), owner' = owner
    PROVE  Registry!Adopt(s, n, c)
<1>1. PICK K : K = Closes(stack)
    OBVIOUS
<1>2. Fits(h', K, owner)
    BY <1>1 DEF Seen
<1>3. /\ Spares(h, h', {s, n}) /\ Fades(h, h') /\ h'.ctx[n] = c
      /\ n # s => h'.type[s] = "free"
    BY DEF Becomes
<1>4. \A t \in Sockets \ {s, n} : Life(h', K, t) = Life(h, K, t) /\ Home(h', t) = Home(h, t)
    BY <1>3, SparedLife
<1>5. /\ Life(h, K, s) = "open" /\ (n = s \/ Life(h, K, n) = "free")
      /\ Life(h', K, n) = "open" /\ Home(h', n) = c
      /\ n # s => Life(h', K, s) = "free" /\ Home(h', s) = Null
    BY <1>3 DEF Life, Home, Open
<1>6. \A d \in Contexts : Span(h', d) = IF Span(h, d) = "live" /\ ~Wanted(h', K, owner, d)
                                        THEN "dead" ELSE Span(h, d)
    BY <1>2, <1>3, FadedSpan
<1>8. /\ AbstractSockets = [t \in Sockets |-> Life(h, K, t)]
      /\ AbstractContexts = [t \in Sockets |-> Home(h, t)]
      /\ AbstractLives = [d \in Contexts |-> Span(h, d)]
    BY <1>1 DEF Seen
<1>9. /\ AbstractSockets' = [t \in Sockets |-> Life(h', K, t)]
      /\ AbstractContexts' = [t \in Sockets |-> Home(h', t)]
      /\ AbstractLives' = [d \in Contexts |-> Span(h', d)]
    BY <1>1 DEF Seen
<1>10. AbstractSockets[s] = "open" /\ (n = s \/ AbstractSockets[n] = "free") /\ AbstractLives[c] = "live"
    BY <1>5, <1>8 DEF Span
<1>11. /\ AbstractSockets' = [[AbstractSockets EXCEPT ![s] = "free"] EXCEPT ![n] = "open"]
       /\ AbstractContexts' = [[AbstractContexts EXCEPT ![s] = Null] EXCEPT ![n] = c]
    BY <1>4, <1>5, <1>8, <1>9
<1>13. \A d \in Contexts :
          Wanted(h', K, owner, d) <=> Registry!Needs(d, AbstractSockets', AbstractContexts', owner)
    BY <1>9 DEF Wanted, Registry!Needs
<1>14. AbstractLives' = Registry!Settle(AbstractSockets', AbstractContexts', owner)
    BY <1>6, <1>8, <1>9, <1>13 DEF Registry!Settle
<1> QED  BY <1>10, <1>11, <1>14 DEF Registry!Adopt

\* The creator of a context frees it.
LEMMA DisownView ==
    ASSUME Seen, Seen', NEW c \in Contexts, c \in owner, owner' = owner \ {c},
           Spares(h, h', {}), Fades(h, h'), Closes(stack') = Closes(stack)
    PROVE  Registry!Disown(c)
<1>1. PICK K : K = Closes(stack)
    OBVIOUS
<1>2. Fits(h', K, owner')
    BY <1>1 DEF Seen
<1>4. \A t \in Sockets : Life(h', K, t) = Life(h, K, t) /\ Home(h', t) = Home(h, t)
    BY SparedLife
<1>6. \A d \in Contexts : Span(h', d) = IF Span(h, d) = "live" /\ ~Wanted(h', K, owner', d)
                                        THEN "dead" ELSE Span(h, d)
    BY <1>2, FadedSpan
<1>8. /\ AbstractSockets = [t \in Sockets |-> Life(h, K, t)]
      /\ AbstractContexts = [t \in Sockets |-> Home(h, t)]
      /\ AbstractLives = [d \in Contexts |-> Span(h, d)]
    BY <1>1 DEF Seen
<1>9. /\ AbstractSockets' = [t \in Sockets |-> Life(h', K, t)]
      /\ AbstractContexts' = [t \in Sockets |-> Home(h', t)]
      /\ AbstractLives' = [d \in Contexts |-> Span(h', d)]
    BY <1>1 DEF Seen
<1>10. AbstractSockets' = AbstractSockets /\ AbstractContexts' = AbstractContexts
    BY <1>4, <1>8, <1>9
<1>13. \A d \in Contexts :
          Wanted(h', K, owner', d) <=> Registry!Needs(d, AbstractSockets, AbstractContexts, owner')
    BY <1>9, <1>10 DEF Wanted, Registry!Needs
<1>14. AbstractLives' = Registry!Settle(AbstractSockets, AbstractContexts, owner')
    BY <1>6, <1>8, <1>9, <1>13 DEF Registry!Settle
<1> QED  BY <1>10, <1>14 DEF Registry!Disown

\* A context is created.
LEMMA CreateView ==
    ASSUME Seen, Seen', NEW c \in Contexts, h \in Heap, h.state[c] = "none", owner' = owner \cup {c},
           Spares(h, h', {}), h'.state = [h.state EXCEPT ![c] = "live"],
           Closes(stack') = Closes(stack)
    PROVE  Registry!Create(c)
<1>1. PICK K : K = Closes(stack)
    OBVIOUS
<1>4. \A t \in Sockets : Life(h', K, t) = Life(h, K, t) /\ Home(h', t) = Home(h, t)
    BY SparedLife
<1>6. \A d \in Contexts : Span(h', d) = IF d = c THEN "live" ELSE Span(h, d)
    BY DEF Span, Heap
<1>8. /\ AbstractSockets = [t \in Sockets |-> Life(h, K, t)]
      /\ AbstractContexts = [t \in Sockets |-> Home(h, t)]
      /\ AbstractLives = [d \in Contexts |-> Span(h, d)]
    BY <1>1 DEF Seen
<1>9. /\ AbstractSockets' = [t \in Sockets |-> Life(h', K, t)]
      /\ AbstractContexts' = [t \in Sockets |-> Home(h', t)]
      /\ AbstractLives' = [d \in Contexts |-> Span(h', d)]
    BY <1>1 DEF Seen
<1>10. AbstractSockets' = AbstractSockets /\ AbstractContexts' = AbstractContexts
    BY <1>4, <1>8, <1>9
<1>11. AbstractLives' = [AbstractLives EXCEPT ![c] = "live"]
    BY <1>6, <1>8, <1>9
<1>12. AbstractLives[c] = "none"
    BY <1>8 DEF Span
<1> QED  BY <1>10, <1>11, <1>12 DEF Registry!Create

\* What is closed is freed, at the end of a tick that no close is under.
LEMMA ReapView ==
    ASSUME Seen, Seen', Closes(stack) = {}, Closes(stack') = {}, owner' = owner,
           Frees(h, h')
    PROVE  Registry!Reap
<1>3. /\ \A s \in Dead(h) : h'.type[s] = "free"
      /\ Spares(h, h', Dead(h))
      /\ \A c \in Contexts : h'.state[c] = IF h.state[c] = "closed" THEN "none" ELSE h.state[c]
    BY DEF Frees
<1>4. \A t \in Sockets \ Dead(h) : Life(h', {}, t) = Life(h, {}, t) /\ Home(h', t) = Home(h, t)
    BY <1>3, SparedLife
<1>5. \A t \in Sockets : Life(h, {}, t) = "closed" <=> t \in Dead(h)
    BY DEF Life, Dead
<1>6. \A t \in Dead(h) : Life(h', {}, t) = "free" /\ Home(h', t) = Null
    BY <1>3 DEF Life, Home
<1>7. \A d \in Contexts : Span(h', d) = IF Span(h, d) = "dead" THEN "none" ELSE Span(h, d)
    BY <1>3 DEF Span
<1>8. /\ AbstractSockets = [t \in Sockets |-> Life(h, {}, t)]
      /\ AbstractContexts = [t \in Sockets |-> Home(h, t)]
      /\ AbstractLives = [d \in Contexts |-> Span(h, d)]
    BY DEF Seen
<1>9. /\ AbstractSockets' = [t \in Sockets |-> Life(h', {}, t)]
      /\ AbstractContexts' = [t \in Sockets |-> Home(h', t)]
      /\ AbstractLives' = [d \in Contexts |-> Span(h', d)]
    BY DEF Seen
<1> QED  BY <1>4, <1>5, <1>6, <1>7, <1>8, <1>9 DEF Registry!Reap

-----------------------------------------------------------------------------
(* The steps of the loop, seen from the registry.                          *)

\* What a step of the loop is to the registry.
Shown == Registry!Next \/ UNCHANGED Registry!vars

\* A write that no socket and no context is opened, moved or closed by.
Still(g, k) ==
    /\ k.ctx = g.ctx /\ k.prev = g.prev /\ k.state = g.state
    /\ \A s \in Sockets : k.type[s] = "free" <=> g.type[s] = "free"

\* It is a stutter of the registry.
LEMMA StillShown ==
    ASSUME Seen, Seen', Still(h, h'), Closes(stack') = Closes(stack), owner' = owner
    PROVE  Shown
<1>1. Spares(h, h', {}) /\ Fades(h, h')
    BY DEF Still, Spares, Fades, IsClosed
<1>2. UNCHANGED Registry!vars
    BY <1>1, SameView
<1> QED  BY <1>2 DEF Shown

\* The functions other than us_socket_close come and go.
LEMMA PlainStack ==
    ASSUME IInv, stack # <<>>, Top.op # "close"
    PROVE  /\ Closes(Rest) = Closes(stack)
           /\ \A f : f.op # "close" => /\ Closes(Push(f, Rest)) = Closes(stack)
                                       /\ Closes(Push(f, stack)) = Closes(stack)
           /\ \A pc : Closes(Goto(pc)) = Closes(stack)
           /\ \A pc \in Pcs : \A x : x.op # "close" => Closes(Push(x, Goto(pc))) = Closes(stack)
<1>1. Top \in Frame /\ Rest \in Seq(Frame) /\ stack = Push(Top, Rest) /\ stack \in Seq(Frame)
    BY Running DEF IInv, TypeOK
<1>2. Closes(Rest) = Closes(stack)
    BY <1>1, PushFrames
<1>3. ASSUME NEW f, f.op # "close"
      PROVE  Closes(Push(f, Rest)) = Closes(stack) /\ Closes(Push(f, stack)) = Closes(stack)
    <2>1. Closes(Push(f, Rest)) = Closes(Rest)
        BY <1>1, <1>3, PushFrames
    <2>2. Closes(Push(f, stack)) = Closes(stack)
        BY <1>1, <1>3, PushFrames
    <2> QED  BY <1>2, <2>1, <2>2
<1>4. ASSUME NEW pc
      PROVE  Closes(Goto(pc)) = Closes(stack)
    <2>1. PICK f : f = [Top EXCEPT !.pc = pc]
        OBVIOUS
    <2>2. f.op # "close"
        BY <1>1, <2>1 DEF Frame
    <2> QED  BY <1>3, <2>1, <2>2 DEF Goto
<1>5. ASSUME NEW pc \in Pcs, NEW x, x.op # "close"
      PROVE  Closes(Push(x, Goto(pc))) = Closes(stack)
    <2>1. PICK st \in Seq(Frame) : st = Goto(pc)
        BY GotoStack
    <2>2. Closes(Push(x, st)) = Closes(st)
        BY <1>5, PushFrames
    <2>3. Closes(st) = Closes(stack)
        BY <1>4, <2>1
    <2> QED  BY <2>1, <2>2, <2>3
<1> QED  BY <1>2, <1>3, <1>4, <1>5

\* No callback is us_socket_close.
LEMMA PlainFrames ==
    /\ \A name, s : Callback(name, s).op # "close"
    /\ \A op, pc, s, c, e : Fr(op, pc, s, c, e).op = op
    BY DEF Callback, Fr

\* us_socket_close closes its socket, begins to, or finds it closed.
LEMMA SocketCloseShown ==
    ASSUME IInv, LInv, Seen, Seen', NEW st \in Seq(Frame), Closes(st) = Closes(stack),
           NEW s \in Sockets, ~IsClosed(h, s) => Open(h, s) /\ h.type[s] # "listen",
           SocketClose(s, st), owner' = owner
    PROVE  Shown
<1>1. PICK r : Heaped(h, Closes(stack), owner, r, Mode)
    BY InvHeap
<1>2. PICK K : K = Closes(stack)
    OBVIOUS
<1>3. Heaped(h, K, owner, r, Mode)
    BY <1>1, <1>2
<1>4. CASE h' = h /\ stack' = st
    <2>1. Still(h, h')
        BY <1>4 DEF Still
    <2> QED  BY <1>4, <2>1, StillShown
<1>5. CASE ~IsClosed(h, s) /\ h' = CloseEnd(CloseBegin(h, s), s) /\ stack' = st
    <2>1. Shuts(h, h', s)
        BY <1>3, <1>5, SemiCloseMoves
    <2>2. Life(h, K, s) = "open"
        BY <1>5 DEF Life, Open
    <2>3. s \notin K
        BY <1>3, <1>5 DEF Heaped, Stale, Dead
    <2>4. Closes(stack') = Closes(stack) \ {s}
        BY <1>2, <1>5, <2>3
    <2>5. Registry!Close(s)
        BY <1>2, <2>1, <2>2, <2>4, CloseView
    <2> QED  BY <2>5 DEF Shown, Registry!Next
<1>6. CASE /\ ~IsClosed(h, s) /\ h' = CloseBegin(h, s)
           /\ stack' = Push(Callback("on_close", s), Push(Fr("close", "closed", s, Null, {}), st))
    <2>1. Open(h, s) /\ h.type[s] # "listen"
        BY <1>6
    <2>2. Shuts(h, h', s)
        BY <1>3, <1>6, <2>1, CloseBeginMoves
    <2>3. PICK f \in Frame : f = Fr("close", "closed", s, Null, {})
        <3>1. "close" \in Ops /\ "closed" \in Pcs
            BY DEF Ops, Pcs
        <3>2. s \in SocketPtr /\ Null \in ContextPtr /\ {} \in SUBSET (Directions \cup Conditions)
            BY DEF SocketPtr, ContextPtr
        <3> QED  BY <3>1, <3>2, FrType
    <2>4. f.op = "close" /\ f.s = s
        BY <2>3 DEF Fr
    <2>5. PICK u \in Seq(Frame) : u = Push(f, st)
        BY PushType
    <2>6. Closes(u) = Closes(st) \cup {s}
        BY <2>4, <2>5, PushFrames
    <2>7. PICK x : x = Callback("on_close", s)
        OBVIOUS
    <2>8. Closes(Push(x, u)) = Closes(u)
        BY <2>7, PlainFrames, PushFrames
    <2>9. Closes(stack') = Closes(stack) \cup {s}
        BY <1>6, <2>3, <2>5, <2>6, <2>7, <2>8
    <2>10. Registry!BeginClose(s)
        BY <2>1, <2>2, <2>9, BeginCloseView
    <2> QED  BY <2>10 DEF Shown, Registry!Next
<1> QED  BY <1>4, <1>5, <1>6 DEF SocketClose

\* on_close has returned: the close ends.
LEMMA CloseReturnShown ==
    ASSUME IInv, LInv, Seen, Seen', CloseReturn
    PROVE  Shown
<1>1. /\ stack # <<>> /\ Top.op = "close" /\ h' = CloseEnd(h, Top.s) /\ stack' = Rest
      /\ owner' = owner
    BY DEF CloseReturn, At
<1>2. Top \in Frame /\ Rest \in Seq(Frame) /\ FrameOK(Top) /\ stack = Push(Top, Rest)
    BY <1>1, Running
<1>3. PICK s \in Sockets : s = Top.s
    BY <1>1, <1>2 DEF FrameOK
<1>4. PICK r : Base(h, stack, owner, r)
    BY InvHeap
<1>5. Base(h, Push(Top, Rest), owner, r)
    BY <1>2, <1>4
<1>6. /\ Heaped(h, Closes(Push(Top, Rest)), owner, r, Mode)
      /\ s \in Closes(Push(Top, Rest)) /\ Closes(Rest) = Closes(Push(Top, Rest)) \ {s}
    BY ZenonT(60), <1>1, <1>2, <1>3, <1>5, BasePopClose
<1>7. PICK K : K = Closes(stack)
    OBVIOUS
<1>8. Heaped(h, K, owner, r, Mode) /\ s \in K /\ Closes(Rest) = K \ {s}
    BY <1>2, <1>6, <1>7
<1>9. Spares(h, h', {}) /\ Fades(h, h')
    BY <1>1, <1>3, <1>8, CloseEndMoves
<1>10. h.type[s] # "free" /\ IsClosed(h, s)
    BY <1>8 DEF Heaped, Stale, Dead
<1>11. Shuts(h, h', s)
    BY <1>9, <1>10 DEF Shuts, Spares
<1>12. Life(h, K, s) = "closing"
    BY <1>8, <1>10 DEF Life
<1>13. Registry!Close(s)
    BY <1>1, <1>7, <1>8, <1>11, <1>12, CloseView
<1> QED  BY <1>13 DEF Shown, Registry!Next

\* A listen socket is closed at once.
LEMMA ListenCloseShown ==
    ASSUME IInv, LInv, Seen, Seen', NEW s \in Sockets, Open(h, s), h.type[s] = "listen",
           h' = ListenClose(h, s), Closes(stack') = Closes(stack), owner' = owner
    PROVE  Shown
<1>1. PICK r : Heaped(h, Closes(stack), owner, r, Mode)
    BY InvHeap
<1>2. PICK K : K = Closes(stack)
    OBVIOUS
<1>3. Heaped(h, K, owner, r, Mode)
    BY <1>1, <1>2
<1>4. Shuts(h, h', s)
    BY <1>3, ListenCloseMoves
<1>5. s \notin K /\ Life(h, K, s) = "open"
    BY <1>3 DEF Heaped, Stale, Dead, Life, Open
<1>6. Closes(stack') = Closes(stack) \ {s}
    BY <1>2, <1>5
<1>7. Registry!Close(s)
    BY <1>2, <1>4, <1>5, <1>6, CloseView
<1> QED  BY <1>7 DEF Shown, Registry!Next

\* us_socket_context_close closes one socket at a time.
LEMMA CCloseShown ==
    ASSUME IInv, LInv, Seen, Seen', CCloseListen \/ CCloseSocket
    PROVE  Shown
<1>1. stack # <<>> /\ Top.op = "cclose" /\ owner' = owner
    BY DEF CCloseListen, CCloseSocket, At
<1>2. /\ Top \in Frame /\ Rest \in Seq(Frame) /\ FrameOK(Top) /\ Top.s \in SocketPtr
    BY <1>1, Running DEF Frame
<1>3. Top.c \in Contexts /\ Top.op # "close"
    BY <1>1, <1>2 DEF FrameOK
<1>4. PICK r : Base(h, stack, owner, r) /\ Runs(h, Top, r)
    BY <1>1, InvHeap
<1>5. Closes(Rest) = Closes(stack) /\ \A f : f.op # "close" => Closes(Push(f, Rest)) = Closes(stack)
    BY <1>1, <1>3, PlainStack
<1>6. CASE h' = h /\ (stack' = Rest \/ \E f : f.op # "close" /\ stack' = Push(f, Rest))
    <2>1. Still(h, h') /\ Closes(stack') = Closes(stack)
        BY <1>5, <1>6 DEF Still
    <2> QED  BY <1>1, <2>1, StillShown
<1>7. CASE CCloseListen
    <2>1. CASE Top.s = Null
        <3>1. PICK f : f = [Top EXCEPT !.pc = "closing", !.s = h.head[Top.c]]
            OBVIOUS
        <3>2. f.op # "close"
            BY <1>1, <1>2, <3>1 DEF Frame
        <3>3. h' = h /\ stack' = Push(f, Rest)
            BY <1>7, <2>1, <3>1 DEF CCloseListen
        <3> QED  BY <1>6, <3>2, <3>3
    <2>2. CASE Top.s # Null
        <3>1. Top.pc = "listening"
            BY <1>7 DEF CCloseListen, At
        <3>2. Top.s \in Listening(h, Top.c)
            BY <1>1, <1>3, <1>4, <2>2, <3>1 DEF Runs
        <3>3. PICK s \in Sockets : s = Top.s /\ Open(h, s) /\ h.type[s] = "listen"
            BY <3>2 DEF Listening
        <3>4. PICK f : f = [Top EXCEPT !.s = h.next[Top.s]]
            OBVIOUS
        <3>5. f.op # "close"
            BY <1>1, <1>2, <3>4 DEF Frame
        <3>6. h' = ListenClose(h, s) /\ stack' = Push(f, Rest)
            BY <1>7, <2>2, <3>3, <3>4 DEF CCloseListen
        <3>7. Closes(stack') = Closes(stack)
            BY <1>5, <3>5, <3>6
        <3> QED  BY <1>1, <3>3, <3>6, <3>7, ListenCloseShown
    <2> QED  BY <2>1, <2>2
<1>8. CASE CCloseSocket
    <2>1. CASE Top.s = Null
        <3>1. h' = h /\ stack' = Rest
            BY <1>8, <2>1 DEF CCloseSocket
        <3> QED  BY <1>6, <3>1
    <2>2. CASE Top.s # Null
        <3>1. Top.pc = "closing"
            BY <1>8 DEF CCloseSocket, At
        <3>2. PICK s \in Sockets : s = Top.s
            BY <1>2, <2>2 DEF SocketPtr
        <3>3. Top \in Frames(stack)
            BY <1>1, Running
        <3>4. Waits(h, Top, r)
            BY <1>4, <3>3 DEF Base
        <3>5. ~IsClosed(h, s) => Open(h, s) /\ h.type[s] # "listen"
            BY <1>1, <3>1, <3>2, <3>4 DEF Waits, FrameAlive, Visiting, Open
        <3>6. h.next[s] \in SocketPtr
            BY DEF IInv, TypeOK, Heap
        <3>7. PICK f : f = [Top EXCEPT !.s = h.next[s]]
            OBVIOUS
        <3>11. f \in Frame
            BY <1>2, <3>6, <3>7 DEF Frame
        <3>12. f.op # "close"
            BY <1>1, <1>2, <3>7 DEF Frame
        <3>8. PICK st \in Seq(Frame) : st = Push(f, Rest)
            BY <1>2, <3>11, PushType
        <3>9. Closes(st) = Closes(stack)
            BY <1>5, <3>8, <3>12
        <3>10. SocketClose(s, st)
            BY <1>8, <2>2, <3>2, <3>7, <3>8 DEF CCloseSocket
        <3> QED  BY <1>1, <3>5, <3>9, <3>10, SocketCloseShown
    <2> QED  BY <2>1, <2>2
<1> QED  BY <1>7, <1>8

\* Nothing waits in the queue of a program that queues nothing.
LEMMA EmptyQueue ==
    ASSUME IInv, LInv, "lowprio" \notin Calls
    PROVE  h.lowHead = Null
<1>1. PICK r : Heaped(h, Closes(stack), owner, r, Mode)
    BY InvHeap
<1>2. Modes(h, Mode) /\ Mode.plain
    BY <1>1 DEF Heaped, Mode
<1>3. Queued(h) = {}
    BY <1>2 DEF Modes, Queued
<1>4. Ordered(h.next, Queued(h) \ Closes(stack), h.lowHead, r)
    BY <1>1 DEF Heaped, Lists, Threaded
<1> QED  BY <1>3, <1>4 DEF Ordered

\* The tick: nothing but its end, which frees what is closed.
LEMMA TickShown ==
    ASSUME IInv, LInv, Seen, Seen', "lowprio" \notin Calls,
           HandleLowPrio \/ Wait \/ DispatchTimer
    PROVE  Shown
<1>1. stack # <<>> /\ Top.op # "close" /\ owner' = owner /\ h \in Heap
    BY DEF HandleLowPrio, Wait, DispatchTimer, At, IInv, TypeOK
<1>2. DOMAIN h = Fields
    BY <1>1, HeapFields
<1>3. "wait" \in Pcs
    BY DEF Pcs
<1>4. CASE HandleLowPrio
    <2>1. h' = h /\ stack' = Push(Callback("pre", Null), Goto("wait"))
        BY <1>4, EmptyQueue DEF HandleLowPrio
    <2>2. PICK x : x = Callback("pre", Null) /\ x.op # "close"
        BY PlainFrames
    <2>3. Closes(Push(x, Goto("wait"))) = Closes(stack)
        BY <1>1, <1>3, <2>2, PlainStack
    <2>4. Closes(stack') = Closes(stack) /\ Still(h, h')
        BY <2>1, <2>2, <2>3 DEF Still
    <2> QED  BY <1>1, <2>4, StillShown
<1>5. CASE Wait
    <2>1. stack' = Goto("poll") /\ \E x : h' = [h EXCEPT !.ready = x]
        BY <1>5 DEF Wait
    <2>2. Closes(stack') = Closes(stack)
        BY <1>1, <2>1, PlainStack
    <2>3. h'.type = h.type /\ h'.ctx = h.ctx /\ h'.prev = h.prev /\ h'.state = h.state
        BY <1>2, <2>1 DEF Fields
    <2>4. Still(h, h')
        BY <2>3 DEF Still
    <2> QED  BY <1>1, <2>2, <2>4, StillShown
<1>6. CASE DispatchTimer
    <2>1. PICK f : f = Fr("sweep", "context", Null, Null, {})
        OBVIOUS
    <2>2. f.op # "close"
        BY <2>1 DEF Fr
    <2>3. stack' = Push(f, stack) /\ h' = [h EXCEPT !.liter = h.chead]
        BY <1>6, <2>1 DEF DispatchTimer
    <2>4. Closes(stack') = Closes(stack)
        BY <1>1, <2>2, <2>3, PlainStack
    <2>5. h'.type = h.type /\ h'.ctx = h.ctx /\ h'.prev = h.prev /\ h'.state = h.state
        BY <1>2, <2>3 DEF Fields
    <2>6. Still(h, h')
        BY <2>5 DEF Still
    <2> QED  BY <1>1, <2>4, <2>6, StillShown
<1> QED  BY <1>4, <1>5, <1>6

\* The end of a tick gives back what is closed.
LEMMA PostShown ==
    ASSUME IInv, LInv, Seen, Seen', Post
    PROVE  Shown
<1>1. /\ stack # <<>> /\ Top.op = "tick" /\ h' = FreeClosed(h) /\ stack' = Rest
      /\ owner' = owner /\ \A s \in Sockets : h.ready[s] = {}
    BY DEF Post, At
<1>2. PICK r : Under(h, Push(Top, Rest), owner, r, unsent, wfailed)
    BY <1>1, Opened
<1>3. Floor(stack) /\ Heaped(h, {}, owner, r, Mode)
    BY <1>1, <1>2, OnTop
<1>4. stack \in Seq(Frame)
    BY DEF IInv, TypeOK
<1>5. Closes(stack) = {}
    BY <1>3, <1>4, FloorBase
<1>6. Closes(stack') = {}
    <2>1. Closes(Rest) = Closes(stack)
        BY <1>1, PlainStack
    <2> QED  BY <1>1, <1>5, <2>1
<1>7. Frees(h, h')
    BY <1>1, <1>3, FreeClosedHeap
<1>8. Registry!Reap
    BY <1>1, <1>5, <1>6, <1>7, ReapView
<1> QED  BY <1>8 DEF Shown, Registry!Next

\* A ready poll is dispatched; a connecting socket is open already.
LEMMA PollShown ==
    ASSUME IInv, LInv, Seen, Seen', NEW s \in Sockets, DispatchPoll(s)
    PROVE  Shown
<1>1. stack # <<>> /\ Top.op # "close" /\ owner' = owner /\ h \in Heap
    BY DEF DispatchPoll, At, IInv, TypeOK
<1>2. PICK g : g = [h EXCEPT !.ready[s] = {}]
    OBVIOUS
<1>3. PICK ev : ev = (h.ready[s] \cap h.poll[s]) \cup (h.ready[s] \cap Conditions)
    OBVIOUS
<1>4. DOMAIN h = Fields /\ h.type \in [Sockets -> PollTypes]
    BY <1>1, HeapFields DEF Heap
<1>5. /\ g.type = h.type /\ g.prev = h.prev /\ g.ctx = h.ctx /\ g.state = h.state
      /\ DOMAIN g = Fields
    BY <1>2, <1>4 DEF Fields
<1>6. \/ stack' = stack
      \/ stack' = Push(Fr("accept", "accept", s, Null, {}), stack)
      \/ stack' = Push(Fr("dispatch", "writable", s, Null, ev), stack)
      \/ stack' = Push(Callback("on_connect_error", s), stack)
      \/ stack' = Push(Callback("on_open", s), stack)
    BY <1>2, <1>3 DEF DispatchPoll
<1>7. stack' = stack \/ \E f : f.op # "close" /\ stack' = Push(f, stack)
    <2>1. \A op, pc, e : Fr(op, pc, s, Null, e).op = op
        BY DEF Fr
    <2>2. \A name : Callback(name, s).op # "close"
        BY PlainFrames
    <2> QED  BY <1>6, <2>1, <2>2
<1>8. Closes(stack') = Closes(stack)
    BY <1>1, <1>7, PlainStack
<1>9. CASE h' = g
    <2>1. Still(h, h')
        BY <1>5, <1>9 DEF Still
    <2> QED  BY <1>1, <1>8, <2>1, StillShown
<1>10. CASE /\ h.type[s] \in {"listen", "semi"}
            /\ h' = [PollChange(g, s, {"R"}) EXCEPT !.type[s] = "socket", !.due[s] = @ \ {"short"}]
    <2>1. /\ h'.type = [g.type EXCEPT ![s] = "socket"]
          /\ h'.prev = g.prev /\ h'.ctx = g.ctx /\ h'.state = g.state
        BY <1>5, <1>10 DEF PollChange, Fields
    <2>2. \A t \in Sockets : h'.type[t] = "free" <=> h.type[t] = "free"
        BY <1>4, <1>5, <1>10, <2>1
    <2>3. Still(h, h')
        BY <1>5, <2>1, <2>2 DEF Still
    <2> QED  BY <1>1, <1>8, <2>3, StillShown
<1> QED  BY <1>2, <1>9, <1>10 DEF DispatchPoll

\* A socket is opened in a context that somebody needs.
LEMMA NewSocketShown ==
    ASSUME IInv, LInv, Seen, Seen', NEW s \in Sockets, NEW c \in Contexts, h.type[s] = "free",
           h.state[c] = "live", NEW type \in {"listen", "semi", "socket"},
           NEW dirs \in SUBSET Directions, type = "listen" => dirs = {"R"},
           type = "semi" => dirs = {"W"}, h' = NewSocket(h, c, s, type, dirs),
           Closes(stack') = Closes(stack), owner' = owner
    PROVE  Shown
<1>1. PICK r : Heaped(h, Closes(stack), owner, r, Mode)
    BY InvHeap
<1>2. PICK K : K = Closes(stack)
    OBVIOUS
<1>3. Heaped(h, K, owner, r, Mode)
    BY <1>1, <1>2
<1>4. h.ref[c] >= 1
    <2>1. h.ref[c] >= 0 /\ h.ref[c] # 0 /\ h.ref \in [Contexts -> Int]
        BY <1>3 DEF Heaped, ContextsOK, Sound, Heap
    <2>2. h.ref[c] \in Int
        BY <2>1
    <2> QED  BY <2>1, <2>2
<1>5. Open(h', s) /\ Opens(h, h', s, c)
    BY <1>3, <1>4, NewSocketMoves
<1>6. Registry!Open(s, c)
    BY <1>5, OpenView
<1> QED  BY <1>6 DEF Shown, Registry!Next

\* An accepted socket is opened in the context of its listener.
LEMMA AcceptShown ==
    ASSUME IInv, LInv, Seen, Seen', Accept
    PROVE  Shown
<1>1. stack # <<>> /\ Top.op = "accept" /\ owner' = owner
    BY DEF Accept, At
<1>2. Top.s \in Sockets
    BY <1>1, Running DEF FrameOK
<1>3. CASE stack' = Rest /\ h' = h
    <2>1. Still(h, h') /\ Closes(stack') = Closes(stack)
        BY <1>1, <1>3, PlainStack DEF Still
    <2> QED  BY <1>1, <2>1, StillShown
<1>4. ASSUME ~IsClosed(h, Top.s), h.type[Top.s] = "listen", NEW s \in Sockets, h.type[s] = "free",
             h' = NewSocket(h, h.ctx[Top.s], s, "socket", {"R"}),
             stack' = Push(Callback("on_open", s), stack)
      PROVE  Shown
    <2>1. PICK c : c = h.ctx[Top.s]
        OBVIOUS
    <2>2. c \in Contexts
        BY <1>2, <1>4, <2>1 DEF IInv, Sound
    <2>3. c \in Contexts /\ h.state[c] = "live"
        <3>1. NoEarlyFree
            BY InvNoEarlyFree
        <3>2. Top.s \in Members(c)
            BY <1>2, <1>4, <2>1 DEF Members, Open
        <3> QED  BY <2>2, <3>1, <3>2 DEF NoEarlyFree
    <2>4. h' = NewSocket(h, c, s, "socket", {"R"})
        BY <1>4, <2>1
    <2>5. PICK f : f = Callback("on_open", s) /\ f.op # "close"
        BY PlainFrames
    <2>6. Closes(stack') = Closes(stack)
        BY <1>1, <1>4, <2>5, PlainStack
    <2>7. {"R"} \in SUBSET Directions
        BY DEF Directions
    <2> QED  BY <1>1, <1>4, <2>3, <2>4, <2>6, <2>7, NewSocketShown
<1> QED  BY <1>3, <1>4 DEF Accept

\* The dispatch of a program that queues nothing closes its socket, or nothing.
LEMMA DispatchShown ==
    ASSUME IInv, LInv, Seen, Seen', "lowprio" \notin Calls,
           DispatchWritable \/ DispatchWrote \/ DispatchReadable \/ Recv \/ ReceivedMore
             \/ ReceivedLast \/ DispatchEof \/ DispatchEnd
    PROVE  Shown
<1>1. stack # <<>> /\ Top.op = "dispatch" /\ owner' = owner
    BY DEF DispatchWritable, DispatchWrote, DispatchReadable, Recv, ReceivedMore, ReceivedLast,
           DispatchEof, DispatchEnd, At
<1>2. PICK r : Dispatching(r)
    BY <1>1, DispatchRuns
<1>3. /\ Top \in Frame /\ Top.s \in Sockets /\ h.type[Top.s] \in {"socket", "shut"} /\ h \in Heap
    BY <1>2 DEF Dispatching
<1>4. /\ Closes(Rest) = Closes(stack)
      /\ \A f : f.op # "close" => Closes(Push(f, Rest)) = Closes(stack)
      /\ \A pc : Closes(Goto(pc)) = Closes(stack)
      /\ \A pc \in Pcs : \A x : x.op # "close" => Closes(Push(x, Goto(pc))) = Closes(stack)
    BY <1>1, PlainStack
<1>5. \A name, pc : pc \in Pcs => Closes(Push(Callback(name, Top.s), Goto(pc))) = Closes(stack)
    BY <1>4, PlainFrames
<1>6. CASE Closes(stack') = Closes(stack) /\ (h' = h \/ \E d : h' = PollChange(h, Top.s, d))
    <2>1. DOMAIN h = Fields
        BY <1>3, HeapFields
    <2>2. h'.type = h.type /\ h'.prev = h.prev /\ h'.ctx = h.ctx /\ h'.state = h.state
        BY <1>6, <2>1 DEF PollChange, Fields
    <2>3. Still(h, h')
        BY <2>2 DEF Still
    <2> QED  BY <1>1, <1>6, <2>3, StillShown
<1>7. CASE SocketClose(Top.s, Rest)
    <2>1. Rest \in Seq(Frame)
        BY <1>1, RestLength
    <2>2. PICK s \in Sockets : s = Top.s
        BY <1>3
    <2>3. ~IsClosed(h, s) => Open(h, s) /\ h.type[s] # "listen"
        BY <1>3, <2>2 DEF Open
    <2>4. SocketClose(s, Rest)
        BY <1>7, <2>2
    <2> QED  BY <1>1, <1>4, <2>1, <2>3, <2>4, SocketCloseShown
<1>8. "wrote" \in Pcs /\ "received" \in Pcs /\ "error" \in Pcs /\ "ended" \in Pcs
    BY DEF Pcs
<1>9. CASE DispatchWritable
    <2>1. \/ stack' = Push(Callback("on_writable", Top.s), Goto("wrote"))
          \/ stack' = Goto("readable")
        BY <1>9 DEF DispatchWritable
    <2>2. h' = h
        BY <1>9 DEF DispatchWritable
    <2>3. Closes(stack') = Closes(stack)
        BY <1>4, <1>5, <1>8, <2>1
    <2> QED  BY <1>6, <2>2, <2>3
<1>10. CASE DispatchWrote
    <2>1. stack' = Rest \/ stack' = Goto("readable")
        BY <1>10 DEF DispatchWrote
    <2>2. h' = h \/ \E d : h' = PollChange(h, Top.s, d)
        BY <1>10 DEF DispatchWrote
    <2>3. Closes(stack') = Closes(stack)
        BY <1>4, <2>1
    <2> QED  BY <1>6, <2>2, <2>3
<1>11. CASE DispatchReadable
    <2>1. h' = h /\ (stack' = Goto("eof") \/ stack' = Goto("recv"))
        BY <1>11 DEF DispatchReadable
    <2>2. Closes(stack') = Closes(stack)
        BY <1>4, <2>1
    <2> QED  BY <1>6, <2>1, <2>2
<1>12. CASE Recv
    <2>1. \/ stack' = Push(Callback("on_data", Top.s), Goto("received")) /\ h' = h
          \/ stack' = Push([Top EXCEPT !.pc = "eof", !.ev = @ \cup {"H"}], Rest) /\ h' = h
          \/ SocketClose(Top.s, Rest)
          \/ stack' = Goto("eof") /\ h' = h
        BY <1>12 DEF Recv
    <2>2. PICK f : f = [Top EXCEPT !.pc = "eof", !.ev = @ \cup {"H"}]
        OBVIOUS
    <2>3. f.op # "close"
        BY <1>1, <1>3, <2>2 DEF Frame
    <2>4. CASE /\ h' = h
               /\ \/ stack' = Push(Callback("on_data", Top.s), Goto("received"))
                  \/ stack' = Push(f, Rest)
                  \/ stack' = Goto("eof")
        <3>1. Closes(stack') = Closes(stack)
            BY <1>4, <1>5, <1>8, <2>3, <2>4
        <3> QED  BY <1>6, <2>4, <3>1
    <2> QED  BY <1>7, <2>1, <2>2, <2>4
<1>13. CASE ReceivedMore
    <2>1. \E x : stack' = Push([Top EXCEPT !.pc = "recv", !.n = x], Rest)
        BY <1>13 DEF ReceivedMore
    <2>2. PICK f, x : f = [Top EXCEPT !.pc = "recv", !.n = x] /\ stack' = Push(f, Rest)
        BY <2>1
    <2>3. f.op # "close"
        BY <1>1, <1>3, <2>2 DEF Frame
    <2>4. Closes(stack') = Closes(stack)
        BY <1>4, <2>2, <2>3
    <2>5. h' = h
        BY <1>13 DEF ReceivedMore
    <2> QED  BY <1>6, <2>4, <2>5
<1>14. CASE ReceivedLast
    BY <1>4, <1>6, <1>14 DEF ReceivedLast
<1>15. CASE DispatchEof
    <2>1. \/ stack' = Goto("error") /\ h' = h
          \/ stack' = Rest /\ h' = h
          \/ SocketClose(Top.s, Rest)
          \/ /\ h' = PollChange(h, Top.s, h.poll[Top.s] \cap {"W"}) \/ h' = h
             /\ \E pc \in {"error", "ended"} : stack' = Push(Callback("on_end", Top.s), Goto(pc))
        BY <1>15 DEF DispatchEof
    <2>2. CASE /\ h' = PollChange(h, Top.s, h.poll[Top.s] \cap {"W"}) \/ h' = h
               /\ \E pc \in {"error", "ended"} : stack' = Push(Callback("on_end", Top.s), Goto(pc))
        <3>1. Closes(stack') = Closes(stack)
            BY <1>5, <1>8, <2>2
        <3> QED  BY <1>6, <2>2, <3>1
    <2>3. CASE h' = h /\ (stack' = Goto("error") \/ stack' = Rest)
        <3>1. Closes(stack') = Closes(stack)
            BY <1>4, <2>3
        <3> QED  BY <1>6, <2>3, <3>1
    <2> QED  BY <1>7, <2>1, <2>2, <2>3
<1>16. CASE DispatchEnd
    <2>1. SocketClose(Top.s, Rest) \/ (stack' = Rest /\ h' = h)
        BY <1>16 DEF DispatchEnd
    <2> QED  BY <1>4, <1>6, <1>7, <2>1
<1> QED  BY <1>9, <1>10, <1>11, <1>12, <1>13, <1>14, <1>15, <1>16

\* The sweep opens, moves and closes nothing.
LEMMA SweepShown ==
    ASSUME IInv, LInv, Seen, Seen', SweepContext \/ SweepSeek \/ SweepLong \/ SweepStep
    PROVE  Shown
<1>1. stack # <<>> /\ Top.op = "sweep" /\ owner' = owner /\ h \in Heap
    BY DEF SweepContext, SweepSeek, SweepLong, SweepStep, At, IInv, TypeOK
<1>2. DOMAIN h = Fields /\ Top \in Frame
    BY <1>1, HeapFields, Running
<1>3. /\ Closes(Rest) = Closes(stack)
      /\ \A f : f.op # "close" => Closes(Push(f, Rest)) = Closes(stack)
      /\ \A pc : Closes(Goto(pc)) = Closes(stack)
      /\ \A pc \in Pcs : \A x : x.op # "close" => Closes(Push(x, Goto(pc))) = Closes(stack)
    BY <1>1, PlainStack
<1>4. \A name, pc : pc \in Pcs => Closes(Push(Callback(name, Top.s), Goto(pc))) = Closes(stack)
    BY <1>3, PlainFrames
<1>5. "long" \in Pcs /\ "step" \in Pcs
    BY DEF Pcs
<1>6. \A x, y : /\ [Top EXCEPT !.pc = "seek", !.s = x].op # "close"
                /\ [Top EXCEPT !.pc = "seek", !.c = y, !.s = x].op # "close"
                /\ [Top EXCEPT !.s = x].op # "close"
    BY <1>1, <1>2 DEF Frame
<1>7. CASE Closes(stack') = Closes(stack) /\ h'.type = h.type /\ h'.prev = h.prev /\ h'.ctx = h.ctx
           /\ h'.state = h.state
    <2>1. Still(h, h')
        BY <1>7 DEF Still
    <2> QED  BY <1>1, <1>7, <2>1, StillShown
<1>8. CASE SweepContext
    <2>1. \/ stack' = Rest
          \/ \E x, y : stack' = Push([Top EXCEPT !.pc = "seek", !.c = y, !.s = x], Rest)
        BY <1>8 DEF SweepContext
    <2>2. h' = h \/ \E d : h' = [h EXCEPT !.due = d]
        BY <1>8 DEF SweepContext
    <2>3. Closes(stack') = Closes(stack)
        BY <1>3, <1>6, <2>1
    <2>4. h'.type = h.type /\ h'.prev = h.prev /\ h'.ctx = h.ctx /\ h'.state = h.state
        BY <1>2, <2>2 DEF Fields
    <2> QED  BY <1>7, <2>3, <2>4
<1>9. CASE SweepSeek
    <2>1. \/ \E pc : stack' = Goto(pc)
          \/ \E x : stack' = Push([Top EXCEPT !.s = x], Rest)
          \/ stack' = Push(Callback("on_timeout", Top.s), Goto("long"))
        BY <1>9 DEF SweepSeek
    <2>2. \/ h' = h
          \/ \E x, y : h' = [h EXCEPT !.iter[x] = Null, !.liter = y]
          \/ \E x, y : h' = [h EXCEPT !.iter[x] = y, !.due[y] = @ \ {"short"}]
        BY <1>9 DEF SweepSeek
    <2>3. Closes(stack') = Closes(stack)
        <3>1. CASE \E pc : stack' = Goto(pc)
            BY <1>3, <3>1
        <3>2. CASE \E x : stack' = Push([Top EXCEPT !.s = x], Rest)
            <4>1. PICK f, x : f = [Top EXCEPT !.s = x] /\ stack' = Push(f, Rest)
                BY <3>2
            <4>2. f.op # "close"
                BY <1>6, <4>1
            <4> QED  BY <1>3, <4>1, <4>2
        <3>3. CASE stack' = Push(Callback("on_timeout", Top.s), Goto("long"))
            BY <1>4, <1>5, <3>3
        <3> QED  BY <2>1, <3>1, <3>2, <3>3
    <2>4. h'.type = h.type /\ h'.prev = h.prev /\ h'.ctx = h.ctx /\ h'.state = h.state
        BY <1>2, <2>2 DEF Fields
    <2> QED  BY <1>7, <2>3, <2>4
<1>10. CASE SweepLong
    <2>1. \/ stack' = Push(Callback("on_long_timeout", Top.s), Goto("step"))
          \/ stack' = Goto("step")
        BY <1>10 DEF SweepLong
    <2>2. h' = h \/ \E x : h' = [h EXCEPT !.due[x] = @ \ {"long"}]
        BY <1>10 DEF SweepLong
    <2>3. Closes(stack') = Closes(stack)
        BY <1>3, <1>4, <1>5, <2>1
    <2>4. h'.type = h.type /\ h'.prev = h.prev /\ h'.ctx = h.ctx /\ h'.state = h.state
        BY <1>2, <2>2 DEF Fields
    <2> QED  BY <1>7, <2>3, <2>4
<1>11. CASE SweepStep
    <2>1. h' = h /\ \E x : stack' = Push([Top EXCEPT !.pc = "seek", !.s = x], Rest)
        BY <1>11 DEF SweepStep
    <2>2. Closes(stack') = Closes(stack)
        BY <1>3, <1>6, <2>1
    <2> QED  BY <1>7, <2>1, <2>2
<1> QED  BY <1>8, <1>9, <1>10, <1>11

\* A callback returns.
LEMMA ReturnShown ==
    ASSUME IInv, LInv, Seen, Seen', Return
    PROVE  Shown
<1>1. stack # <<>> /\ Top.op = "cb" /\ h' = h /\ owner' = owner
    BY DEF Return
<1>2. Rest \in Seq(Frame) /\ Closes(Rest) = Closes(stack)
    BY <1>1, RestLength, PlainStack
<1>3. CASE stack' = Rest
    <2>1. Still(h, h') /\ Closes(stack') = Closes(stack)
        BY <1>1, <1>2, <1>3 DEF Still
    <2> QED  BY <1>1, <2>1, StillShown
<1>4. CASE /\ Rest # <<>> /\ Head(Rest).op = "dispatch"
           /\ stack' = Push([Head(Rest) EXCEPT !.s = Top.s], Tail(Rest))
    <2>1. PICK d \in Frame, t \in Seq(Frame) : d = Head(Rest) /\ t = Tail(Rest) /\ Rest = Push(d, t)
        <3>1. /\ Head(Rest) \in Frame /\ Tail(Rest) \in Seq(Frame)
              /\ Rest = Push(Head(Rest), Tail(Rest))
            BY <1>2, <1>4 DEF Push
        <3> QED  BY <3>1
    <2>2. PICK e : e = [d EXCEPT !.s = Top.s]
        OBVIOUS
    <2>3. e.op # "close" /\ d.op # "close"
        BY <1>4, <2>1, <2>2 DEF Frame
    <2>4. stack' = Push(e, t)
        BY <1>4, <2>1, <2>2
    <2>5. Closes(Push(e, t)) = Closes(t)
        BY <2>3, PushFrames
    <2>6. Closes(Push(d, t)) = Closes(t)
        BY <2>3, PushFrames
    <2>7. Closes(stack') = Closes(stack)
        BY <1>2, <2>1, <2>4, <2>5, <2>6
    <2>8. Still(h, h')
        BY <1>1 DEF Still
    <2> QED  BY <1>1, <2>7, <2>8, StillShown
<1> QED  BY <1>3, <1>4 DEF Return

\* A tick, or the close of a context, starts.
LEMMA StartShown ==
    ASSUME IInv, LInv, Seen, Seen', Tick \/ \E c \in Contexts : CloseContext(c)
    PROVE  Shown
<1>1. (stack # <<>> => Top.op = "cb" /\ Top.n > 0) /\ h' = h /\ owner' = owner
    BY DEF Tick, TickStart, CloseContext, MayCall
<1>2. Caller \in Seq(Frame) /\ Closes(Caller) = Closes(stack)
    BY <1>1, CallerStack
<1>3. PICK f : f.op # "close" /\ stack' = Push(f, Caller)
    <2>1. \A op, pc, s, c, e : Fr(op, pc, s, c, e).op = op
        BY PlainFrames
    <2> QED  BY <2>1 DEF Tick, TickStart, CloseContext
<1>4. Closes(Push(f, Caller)) = Closes(Caller)
    BY <1>2, <1>3, PushFrames
<1>5. Closes(stack') = Closes(stack) /\ Still(h, h')
    BY <1>1, <1>2, <1>3, <1>4 DEF Still
<1> QED  BY <1>1, <1>5, StillShown

\* The calls that create, free and open.
LEMMA ContextCallShown ==
    ASSUME IInv, LInv, Seen, Seen', NEW c \in Contexts, Create(c) \/ Free(c)
    PROVE  Shown
<1>1. (stack # <<>> => Top.op = "cb" /\ Top.n > 0) /\ stack' = Caller
    BY DEF Create, Free, MayCall
<1>2. Closes(stack') = Closes(stack)
    BY <1>1, CallerStack
<1>3. PICK r : Heaped(h, Closes(stack), owner, r, Mode)
    BY InvHeap
<1>4. PICK K : K = Closes(stack)
    OBVIOUS
<1>5. Heaped(h, K, owner, r, Mode)
    BY <1>3, <1>4
<1>6. CASE Create(c)
    <2>1. h.state[c] = "none" /\ h' = CreateContext(h, c) /\ owner' = owner \cup {c}
        BY <1>6 DEF Create
    <2>2. Spares(h, h', {}) /\ h'.state = [h.state EXCEPT ![c] = "live"]
        BY <1>5, <2>1, CreateMoves
    <2>3. h \in Heap
        BY DEF IInv, TypeOK
    <2>4. Registry!Create(c)
        BY <1>2, <2>1, <2>2, <2>3, CreateView
    <2> QED  BY <2>4 DEF Shown, Registry!Next
<1>7. CASE Free(c)
    <2>1. c \in owner /\ h' = Unref(h, c) /\ owner' = owner \ {c}
        BY <1>7 DEF Free
    <2>2. Spares(h, h', {}) /\ Fades(h, h')
        BY <1>5, <2>1, UnrefMoves
    <2>3. Registry!Disown(c)
        BY <1>2, <2>1, <2>2, DisownView
    <2> QED  BY <2>3 DEF Shown, Registry!Next
<1> QED  BY <1>6, <1>7

LEMMA OpenSocketShown ==
    ASSUME IInv, LInv, Seen, Seen', NEW c \in Contexts, NEW s \in Sockets, OpenSocket(c, s)
    PROVE  Shown
<1>1. /\ stack # <<>> => Top.op = "cb" /\ Top.n > 0
      /\ stack' = Caller /\ owner' = owner /\ c \in owner /\ h.type[s] = "free"
      /\ h' = NewSocket(h, c, s, "listen", {"R"}) \/ h' = NewSocket(h, c, s, "semi", {"W"})
    BY DEF OpenSocket, MayCall
<1>2. Closes(stack') = Closes(stack)
    BY <1>1, CallerStack
<1>3. PICK r : Heaped(h, Closes(stack), owner, r, Mode)
    BY InvHeap
<1>4. PICK K : K = Closes(stack)
    OBVIOUS
<1>5. h.state[c] = "live"
    BY <1>1, <1>3, OwnedReferenced
<1>6. {"R"} \in SUBSET Directions /\ {"W"} \in SUBSET Directions
    BY DEF Directions
<1>7. CASE h' = NewSocket(h, c, s, "listen", {"R"})
    BY <1>1, <1>2, <1>5, <1>6, <1>7, NewSocketShown
<1>8. CASE h' = NewSocket(h, c, s, "semi", {"W"})
    BY <1>1, <1>2, <1>5, <1>6, <1>8, NewSocketShown
<1> QED  BY <1>1, <1>7, <1>8

\* The calls that close a socket.
LEMMA CloseCallShown ==
    ASSUME IInv, LInv, Seen, Seen', NEW s \in Sockets, Close(s) \/ CloseListen(s) \/ DetachSocket(s)
    PROVE  Shown
<1>1. (stack # <<>> => Top.op = "cb" /\ Top.n > 0) /\ Open(h, s) /\ owner' = owner
    BY DEF Close, CloseListen, DetachSocket, MayCall
<1>2. Caller \in Seq(Frame) /\ Closes(Caller) = Closes(stack)
    BY <1>1, CallerStack
<1>3. CASE Close(s)
    <2>1. h.type[s] # "listen" /\ SocketClose(s, Caller)
        BY <1>3 DEF Close
    <2> QED  BY <1>1, <1>2, <2>1, SocketCloseShown
<1>4. CASE CloseListen(s)
    <2>1. h.type[s] = "listen" /\ h' = ListenClose(h, s) /\ stack' = Caller
        BY <1>4 DEF CloseListen
    <2>2. Closes(stack') = Closes(stack)
        BY <1>2, <2>1
    <2> QED  BY <1>1, <2>1, <2>2, ListenCloseShown
<1>5. CASE DetachSocket(s)
    <2>1. h.type[s] # "listen" /\ h' = Detach(h, s) /\ stack' = Caller
        BY <1>5 DEF DetachSocket
    <2>2. PICK r : Heaped(h, Closes(stack), owner, r, Mode)
        BY InvHeap
    <2>3. PICK K : K = Closes(stack)
        OBVIOUS
    <2>4. Heaped(h, K, owner, r, Mode)
        BY <2>2, <2>3
    <2>5. Shuts(h, h', s)
        BY <1>1, <2>1, <2>4, DetachMoves
    <2>6. s \notin K /\ Life(h, K, s) = "open"
        BY <1>1, <2>4 DEF Heaped, Stale, Dead, Life, Open
    <2>7. Closes(stack') = Closes(stack) \ {s}
        BY <1>2, <2>1, <2>3, <2>6
    <2>8. Registry!Close(s)
        BY <1>1, <2>3, <2>5, <2>6, <2>7, CloseView
    <2> QED  BY <2>8 DEF Shown, Registry!Next
<1> QED  BY <1>3, <1>4, <1>5

\* The calls that change what a socket polls for.
LEMMA PollCallShown ==
    ASSUME IInv, LInv, Seen, Seen', NEW s \in Sockets,
           Shutdown(s) \/ WriteFailed(s) \/ Pause(s) \/ Resume(s)
    PROVE  Shown
<1>1. /\ stack # <<>> => Top.op = "cb" /\ Top.n > 0
      /\ stack' = Caller /\ owner' = owner /\ h.type[s] \in {"socket", "shut", "semi"}
    BY DEF Shutdown, WriteFailed, Pause, Resume, Pausable, MayCall
<1>2. Closes(stack') = Closes(stack)
    BY <1>1, CallerStack
<1>3. h \in Heap
    BY DEF IInv, TypeOK
<1>4. \E d, v : PollWritten(h', h, s, d, v) /\ v # "free"
    <2>1. CASE Shutdown(s)
        <3>1. h' = [PollChange(h, s, h.poll[s] \cap {"R"}) EXCEPT !.type[s] = "shut"]
            BY <2>1 DEF Shutdown
        <3>2. PICK d : d = h.poll[s] \cap {"R"}
            OBVIOUS
        <3>3. PollWritten(h', h, s, d, "shut")
            BY <1>3, <3>1, <3>2, PollWrites
        <3> QED  BY <3>3
    <2>2. CASE WriteFailed(s)
        <3>1. h' = PollChange(h, s, {"R", "W"})
            BY <2>2 DEF WriteFailed
        <3>2. PollWritten(h', h, s, {"R", "W"}, h.type[s])
            BY <1>3, <3>1, PollWrites
        <3> QED  BY <1>1, <3>2
    <2>3. CASE Pause(s)
        <3>1. h' = [PollChange(h, s, {"W"}) EXCEPT !.paused[s] = TRUE]
            BY <2>3 DEF Pause
        <3>2. PollWritten(h', h, s, {"W"}, h.type[s])
            BY <1>3, <3>1, PollWrites
        <3> QED  BY <1>1, <3>2
    <2>4. CASE Resume(s) /\ IsClosed(h, s)
        <3>1. h' = [h EXCEPT !.paused[s] = FALSE]
            BY <2>4 DEF Resume
        <3>2. PollWritten(h', h, s, h.poll[s], h.type[s])
            BY <1>3, <3>1, PollWrites
        <3> QED  BY <1>1, <3>2
    <2>5. CASE Resume(s) /\ ~IsClosed(h, s)
        <3>1. PICK d : d = IF h.type[s] = "shut" THEN {"R"} ELSE {"R", "W"}
            OBVIOUS
        <3>2. h' = PollChange([h EXCEPT !.paused[s] = FALSE], s, d)
            BY <2>5, <3>1 DEF Resume
        <3>3. PollWritten(h', h, s, d, h.type[s])
            BY <1>3, <3>2, PollWrites
        <3> QED  BY <1>1, <3>3
    <2> QED  BY <2>1, <2>2, <2>3, <2>4, <2>5
<1>5. PICK d, v : PollWritten(h', h, s, d, v) /\ v # "free"
    BY <1>4
<1>6. h'.ctx = h.ctx /\ h'.prev = h.prev /\ h'.state = h.state /\ h'.type = [h.type EXCEPT ![s] = v]
    BY <1>5 DEF PollWritten, SameBut, Fields
<1>7. \A t \in Sockets : h'.type[t] = "free" <=> h.type[t] = "free"
    BY <1>1, <1>3, <1>5, <1>6 DEF Heap
<1>8. Still(h, h')
    BY <1>6, <1>7 DEF Still
<1> QED  BY <1>1, <1>2, <1>8, StillShown

\* A callback that upgrades its socket stands on no close.
LEMMA UpgradingLow ==
    ASSUME NEW r, NEW s, NEW n, NEW c, Upgrading(r, s, n, c)
    PROVE  Closes(Rest) = {} /\ Heaped(h, {}, owner, r, Mode)
<1>1. /\ Rest \in Seq(Frame) /\ Rest # <<>> /\ CalledFrom(Top, Head(Rest))
      /\ Top.pc \in Adopts
      /\ Under(h, Rest, owner, r, unsent, wfailed)
    BY DEF Upgrading
<1>2. PICK g \in Frame, t \in Seq(Frame) : g = Head(Rest) /\ t = Tail(Rest) /\ Rest = Push(g, t)
    <2>1. /\ Head(Rest) \in Frame /\ Tail(Rest) \in Seq(Frame)
          /\ Rest = Push(Head(Rest), Tail(Rest))
        BY <1>1 DEF Push
    <2> QED  BY <2>1
<1>3. g.op \in {"tick", "accept", "dispatch", "sweep"}
    BY <1>1, <1>2 DEF CalledFrom, Adopts
<1>4. Base(h, Rest, owner, r) /\ Heaped(h, Closes(Rest), owner, r, Mode)
    BY <1>1 DEF Under, Base
<1>5. CASE g.op = "tick"
    <2>1. Floor(Rest)
        BY <1>1, <1>2, <1>4, <1>5, OnTick DEF Base
    <2>2. Closes(Rest) = {}
        BY <1>1, <2>1, FloorBase
    <2> QED  BY <1>4, <2>2
<1>6. CASE g.op \in {"accept", "dispatch", "sweep"}
    <2>1. Under(h, Push(g, t), owner, r, unsent, wfailed)
        BY <1>1, <1>2
    <2>2. /\ Base(h, t, owner, r) /\ (t = <<>> => g.op \in {"tick", "cclose"})
          /\ t # <<>> => Follows(g, Head(t))
        BY <1>2, <1>6, <2>1, UnderPop
    <2>3. t # <<>> /\ Head(t).op = "tick"
        BY <1>6, <2>2 DEF Follows
    <2>4. Floor(t)
        BY <2>2, <2>3, OnTick DEF Base
    <2>5. Closes(t) = {}
        BY <2>4, FloorBase
    <2>6. Closes(Push(g, t)) = Closes(t)
        BY <1>6, PushFrames
    <2> QED  BY <1>2, <1>4, <2>5, <2>6
<1> QED  BY <1>3, <1>5, <1>6

\* A socket changes its context.
LEMMA AdoptShown ==
    ASSUME Tame, IInv, LInv, Seen, Seen', NEW c \in Contexts, NEW n \in Sockets, AdoptSocket(c, n)
    PROVE  Shown
<1>1. PICK r, s : Upgrading(r, s, n, c)
    BY AdoptStarts
<1>2. /\ s \in Sockets /\ Open(h, s) /\ h.type[s] = "socket" /\ (n = s \/ h.type[n] = "free")
      /\ Mode.plain /\ c \in owner /\ h' = Adopt(h, c, s, n) /\ owner' = owner /\ Top.op = "cb"
      /\ Top \in Frame /\ Rest \in Seq(Frame)
    BY <1>1 DEF Upgrading
<1>3. Closes(Rest) = {} /\ Heaped(h, {}, owner, r, Mode)
    BY <1>1, UpgradingLow
<1>4. stack # <<>>
    BY DEF AdoptSocket
<1>5. /\ Closes(Rest) = Closes(stack)
      /\ \A f : f.op # "close" => Closes(Push(f, Rest)) = Closes(stack)
    BY <1>2, <1>4, PlainStack
<1>6. Closes(stack') = Closes(stack)
    <2>1. PICK x : x = [[Top EXCEPT !.n = @ - 1] EXCEPT !.s = n]
        OBVIOUS
    <2>2. x.op # "close"
        BY <1>2, <2>1 DEF Frame
    <2>3. Caller = Push([Top EXCEPT !.n = @ - 1], Rest)
        BY <1>4 DEF Caller
    <2>4. Head(Caller) = [Top EXCEPT !.n = @ - 1]
        BY <1>2, <2>3, PushTop
    <2>5. stack' = Push(x, Rest)
        BY <2>1, <2>4 DEF AdoptSocket
    <2> QED  BY <1>5, <2>2, <2>5
<1>7. PICK m : m = Mode
    OBVIOUS
<1>8. m.plain /\ Heaped(h, {}, owner, r, m)
    BY <1>2, <1>3, <1>7
<1>9. Open(h', n) /\ Becomes(h, h', s, n, c)
    <2>1. PICK g : g = Adopt(h, c, s, n)
        OBVIOUS
    <2>2. Open(g, n) /\ Becomes(h, g, s, n, c)
        BY <1>2, <1>8, <2>1, AdoptHeap
    <2> QED  BY <1>2, <2>1, <2>2
<1>10. h.state[c] = "live"
    BY <1>2, <1>8, OwnedReferenced
<1>11. Registry!Adopt(s, n, c)
    BY <1>2, <1>6, <1>9, <1>10, AdoptView
<1> QED  BY <1>2, <1>11 DEF Shown, Registry!Next

\* Every step of the loop is a step of the registry, or nothing in it.
LEMMA NextShown ==
    ASSUME Tame, "lowprio" \notin Calls, IInv, LInv, Seen, Seen', [Next]_vars
    PROVE  Shown
<1>1. CASE LoopStep
    <2>1. CASE CloseReturn \/ CCloseListen \/ CCloseSocket
        BY <2>1, CloseReturnShown, CCloseShown
    <2>2. CASE HandleLowPrio \/ Wait \/ DispatchTimer \/ Post
        BY <2>2, TickShown, PostShown
    <2>3. CASE (\E s \in Sockets : DispatchPoll(s)) \/ Accept
        BY <2>3, PollShown, AcceptShown
    <2>4. CASE DispatchWritable \/ DispatchWrote \/ DispatchReadable \/ Recv \/ ReceivedMore
                 \/ ReceivedLast \/ DispatchEof \/ DispatchEnd
        BY <2>4, DispatchShown
    <2>5. CASE SweepContext \/ SweepSeek \/ SweepLong \/ SweepStep
        BY <2>5, SweepShown
    <2>6. CASE Return \/ Tick
        BY <2>6, ReturnShown, StartShown
    <2> QED  BY <1>1, <2>1, <2>2, <2>3, <2>4, <2>5, <2>6 DEF LoopStep
<1>2. CASE Call
    <2>1. ASSUME NEW c \in Contexts, Create(c) \/ Free(c) \/ CloseContext(c)
          PROVE  Shown
        BY <2>1, ContextCallShown, StartShown
    <2>2. ASSUME NEW c \in Contexts, NEW s \in Sockets, OpenSocket(c, s) \/ AdoptSocket(c, s)
          PROVE  Shown
        BY <2>2, OpenSocketShown, AdoptShown
    <2>3. ASSUME NEW s \in Sockets,
                 \/ Close(s) \/ CloseListen(s) \/ DetachSocket(s)
                 \/ Shutdown(s) \/ WriteFailed(s) \/ Pause(s) \/ Resume(s)
          PROVE  Shown
        BY <2>3, CloseCallShown, PollCallShown
    <2> QED  BY <1>2, <2>1, <2>2, <2>3 DEF Call
<1>3. CASE Exit \/ UNCHANGED vars
    <2>1. h' = h /\ stack' = stack /\ owner' = owner
        BY <1>3 DEF Exit, vars
    <2>2. Still(h, h') /\ Closes(stack') = Closes(stack)
        BY <2>1 DEF Still
    <2> QED  BY <2>1, <2>2, StillShown
<1> QED  BY <1>1, <1>2, <1>3 DEF Next

\* A new loop has nothing in its registry.
LEMMA InitShown ==
    ASSUME Init, Seen
    PROVE  Registry!Init
<1>1. h = EmptyHeap /\ stack = <<>> /\ owner = {}
    BY DEF Init
<1>2. /\ \A s \in Sockets : h.type[s] = "free"
      /\ \A c \in Contexts : h.state[c] = "none"
    BY <1>1 DEF EmptyHeap
<1>3. PICK K : K = Closes(stack)
    OBVIOUS
<1>4. /\ \A s \in Sockets : Life(h, K, s) = "free" /\ Home(h, s) = Null
      /\ \A c \in Contexts : Span(h, c) = "none"
    BY <1>2 DEF Life, Home, Span
<1>5. /\ AbstractSockets = [s \in Sockets |-> Life(h, K, s)]
      /\ AbstractContexts = [s \in Sockets |-> Home(h, s)]
      /\ AbstractLives = [c \in Contexts |-> Span(h, c)]
    BY <1>3 DEF Seen
<1> QED  BY <1>1, <1>4, <1>5 DEF Registry!Init

\* The intrusive lists, the reference counts and the half-done functions of the
\* loop implement the registry: a socket is open until it is closed, its on_close
\* runs to the end, a later end of a tick frees it, and a context lives exactly as
\* long as its creator, an open socket or a running close needs it, for every
\* number of sockets and contexts (context.c:88-349, 766-814; socket.c:181-243;
\* loop.c:209-263).  The program queues nothing: the queue leaks references.
THEOREM ImplementsHolds == Tame /\ "lowprio" \notin Calls => (Spec => ImplementsRegistry)
<1> SUFFICES ASSUME Tame, "lowprio" \notin Calls
             PROVE  Spec => ImplementsRegistry
    OBVIOUS
<1>1. Spec => [](IInv /\ LInv)
    BY LInvHolds
<1>2. IInv /\ LInv => Seen
    BY Seeing
<1>3. Init /\ Seen => Registry!Init
    BY InitShown
<1>4. IInv /\ LInv /\ Seen /\ Seen' /\ [Next]_vars => [Registry!Next]_(Registry!vars)
    BY NextShown DEF Shown
<1> QED  BY <1>1, <1>2, <1>3, <1>4, PTL DEF Spec, ImplementsRegistry, Registry!Spec
=============================================================================
