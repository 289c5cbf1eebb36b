--------------------------- MODULE TaskLoopProofs ---------------------------
(***************************************************************************)
(* The event loop never sleeps on work, counts its references exactly,     *)
(* exits when nothing is left and, without nested loops, drops no result:  *)
(* for any works, any threads, and any number of loops.                    *)
(*                                                                         *)
(* Typed says what a frame of the stack may look like; in particular only  *)
(* the loop on top is inside tick or autoTick, all others run JavaScript.  *)
(* Quiet follows what the loop has seen from its last look at the channel  *)
(* to epoll_wait.  Tallied gives every work one place and one reference;   *)
(* Accounted adds the rest of the types, and that references not applied   *)
(* yet belong to works that have them.  Idle is what the loop exits with.  *)
(* Whole puts the results in order where loops are not nested: a batch is  *)
(* only taken when the ring's head is at its front.                        *)
(***************************************************************************)
EXTENDS TaskLoop, LinearFifoProofs, FiniteSetTheorems

-----------------------------------------------------------------------------
(* The tasks.                                                              *)

LEMMA Arrives ==
    ASSUME NEW f \in Fifos(Works), NEW batch \in Seq(Works)
    PROVE  /\ Arrive(f, batch) \in Fifos(Works)
           /\ \E k \in 0..Len(batch) : Arrive(f, batch).items = f.items \o SubSeq(batch, 1, k)
           /\ f.head = 0 => Arrive(f, batch).head = 0 /\ Arrive(f, batch).items = f.items \o batch
<1>1. CASE batch = <<>>
  <2>1. Arrive(f, batch) = f
    BY <1>1 DEF Arrive
  <2>2. SubSeq(batch, 1, 0) = <<>> /\ f.items \o <<>> = f.items /\ 0 \in 0..Len(batch)
    BY RingFields, ConcatEmpty
  <2> QED BY <1>1, <2>1, <2>2
<1>2. CASE batch # <<>>
  <2>1. PICK e : e = IF Count(f) = 0 THEN [f EXCEPT !.head = 0] ELSE f
    OBVIOUS
  <2>2. e \in Fifos(Works) /\ e.items = f.items /\ (f.head = 0 => e.head = 0)
    <3>1. IF f.cap = 0 THEN 0 = 0 ELSE 0 < f.cap
      BY RingFields
    <3>2. /\ Turned(f, 0) \in Fifos(Works) /\ Turned(f, 0).items = f.items
          /\ Turned(f, 0).head = 0
      BY <3>1, RingTurned
    <3> QED BY <2>1, <3>2 DEF Turned
  <2>3. Len(batch) \in Nat /\ Len(batch) > 0
    BY <1>2
  <2>4. PICK g : g = Reserve(e, Len(batch))
    OBVIOUS
  <2>5. /\ g \in Fifos(Works) /\ g.items = f.items /\ g.cap - Len(f.items) >= Len(batch)
        /\ f.head = 0 => g.head = 0
    BY <2>2, <2>3, <2>4, Reserves
  <2>6. PICK m : m = Writable(g)
    OBVIOUS
  <2>7. m \in Nat /\ (g.head = 0 => m = g.cap - Len(f.items))
    BY <2>5, <2>6, Room
  <2>8. PICK k \in 0..Len(batch) : k = IF Len(batch) < m THEN Len(batch) ELSE m
    BY <2>3, <2>7
  <2>9. PICK b : b = SubSeq(batch, 1, k)
    OBVIOUS
  <2>10. b \in Seq(Works) /\ Len(b) = k
    BY <2>9, Prefix
  <2>11. f.items \in Seq(Works) /\ Len(f.items) \in Nat /\ g.cap \in Nat
    BY <2>5, RingFields
  <2>12. PICK t : t = f.items \o b
    OBVIOUS
  <2>13. t \in Seq(Works) /\ Len(t) = Len(f.items) + k
    <3>1. PICK a : a = f.items
      OBVIOUS
    <3>2. a \in Seq(Works)
      BY <2>11, <3>1
    <3>3. a \o b \in Seq(Works) /\ Len(a \o b) = Len(a) + Len(b)
      BY Zenon, <2>10, <3>2, ConcatType
    <3> QED BY <2>10, <2>12, <3>1, <3>3
  <2>14. Fits(Works, g, t)
    BY <2>3, <2>5, <2>11, <2>13 DEF Fits
  <2>15. Arrive(f, batch) = Refilled(g, t)
    BY <1>2, <2>1, <2>4, <2>5, <2>6, <2>8, <2>9, <2>12 DEF Arrive, Refilled
  <2>16. /\ Arrive(f, batch) \in Fifos(Works) /\ Arrive(f, batch).items = t
         /\ Arrive(f, batch).head = g.head
    BY <2>14, <2>15, RingRefilled
  <2>17. f.head = 0 => b = batch
    <3> SUFFICES ASSUME f.head = 0 PROVE b = batch
      OBVIOUS
    <3>1. k = Len(batch)
      BY <2>3, <2>5, <2>7, <2>8, <2>11
    <3>2. \A i \in 1..Len(b) : b[i] = batch[i]
      BY <2>9, <2>10, <3>1, Prefix
    <3> QED BY <2>10, <3>1, <3>2, SameSequence
  <2> QED BY <2>5, <2>9, <2>12, <2>16, <2>17
<1> QED BY <1>1, <1>2

-----------------------------------------------------------------------------
(* The frames of the stack.                                                *)

FrameOK(f) ==
    /\ f \in Frame
    /\ f.mode # "wait" => f.wait = NoWork
    /\ f.mode = "wait" => /\ f.phase # "start" /\ f.pc \notin {"start", "alive", "exit"}
                          /\ f.pc = "js" => f.from \notin {"entry", "before"}
    /\ f.wait \in Works /\ Kind[f.wait] = "immediate" => "settle" \in Immediates
    /\ f.pc # "js" => f.task = NoWork
    /\ f.task \in Works => (Kind[f.task] = "timer" <=> f.from = "timers")
    /\ f.pc = "js" /\ f.from = "timers" => f.task \in Works
    /\ \A i \in DOMAIN f.todo : Kind[f.todo[i]] = "immediate"
    /\ f.todo # <<>> => f.pc = "immediates" \/ (f.pc = "js" /\ f.from = "immediates")

\* The frame f after one of the changes that the actions make to the one on top.
Gone(f, p)           == [f EXCEPT !.pc = p]
Phased(f, p, q)      == [f EXCEPT !.pc = p, !.phase = q]
Moded(f, p, m)       == [f EXCEPT !.pc = p, !.mode = m]
Ticking(f, m)        == [f EXCEPT !.pc = "counts", !.phase = "enter", !.mode = m]
Scripted(f, from, w) == [f EXCEPT !.pc = "js", !.from = from, !.task = w]
BeforeExit(f)        == [Scripted(f, "before", NoWork) EXCEPT !.mode = "before"]
Returned(f, b, p)    == [f EXCEPT !.task = NoWork, !.some = b, !.from = "entry", !.pc = p]
Counted(f, k)        == [f EXCEPT !.pc = "take", !.n = k]
Queued(f, q)         == [f EXCEPT !.pc = "immediates", !.todo = q]
Unqueued(f)          == [Scripted(f, "immediates", Head(f.todo)) EXCEPT !.todo = Tail(@)]

LEMMA Goes ==
    ASSUME NEW f, FrameOK(f), f.pc # "js", f.pc = "immediates" => f.todo = <<>>, NEW p \in Loops \ {"js"},
           f.mode = "wait" => p \notin {"start", "alive", "exit"},
           NEW g, g = Gone(f, p)
    PROVE  /\ FrameOK(g) /\ g.pc = p /\ g.from = f.from /\ g.mode = f.mode /\ g.wait = f.wait
           /\ g.task = f.task /\ g.some = f.some /\ g.n = f.n /\ g.todo = f.todo
BY DEF FrameOK, Frame, Loops, Gone

LEMMA Phases ==
    ASSUME NEW f, FrameOK(f), f.pc \notin {"js", "immediates"}, NEW p \in Loops \ {"js"},
           f.mode = "wait" => p \notin {"start", "alive", "exit"},
           NEW q \in {"start", "enter", "more", "drained", "last"},
           f.mode = "wait" => q # "start",
           NEW g, g = Phased(f, p, q)
    PROVE  /\ FrameOK(g) /\ g.pc = p /\ g.from = f.from /\ g.mode = f.mode /\ g.wait = f.wait
           /\ g.task = f.task /\ g.some = f.some /\ g.n = f.n /\ g.todo = f.todo
<1>1. PICK e : e = [f EXCEPT !.pc = p]
  OBVIOUS
<1>2. /\ e \in Frame /\ e.pc = p /\ e.from = f.from /\ e.mode = f.mode /\ e.wait = f.wait
      /\ e.task = f.task /\ e.some = f.some /\ e.n = f.n /\ e.todo = f.todo
  BY <1>1 DEF FrameOK, Frame
<1>3. g = [e EXCEPT !.phase = q]
  BY <1>1 DEF Phased
<1>4. /\ g \in Frame /\ g.pc = p /\ g.from = e.from /\ g.mode = e.mode /\ g.wait = e.wait
      /\ g.task = e.task /\ g.some = e.some /\ g.n = e.n /\ g.todo = e.todo /\ g.phase = q
  BY <1>2, <1>3 DEF Frame
<1> QED BY <1>2, <1>4 DEF FrameOK

LEMMA Modes ==
    ASSUME NEW f, FrameOK(f), f.pc \notin {"js", "immediates"}, f.mode # "wait", NEW p \in Loops \ {"js"},
           NEW m \in {"first", "loop", "before", "again"},
           NEW g, g = Moded(f, p, m)
    PROVE  /\ FrameOK(g) /\ g.pc = p /\ g.from = f.from /\ g.mode = m /\ g.wait = f.wait
           /\ g.task = f.task /\ g.some = f.some /\ g.n = f.n /\ g.todo = f.todo
<1>1. /\ g \in Frame /\ g.pc = p /\ g.from = f.from /\ g.mode = m /\ g.wait = f.wait
      /\ g.task = f.task /\ g.some = f.some /\ g.n = f.n /\ g.todo = f.todo /\ g.phase = f.phase
  BY ZenonT(60) DEF FrameOK, Frame, Loops, Moded
<1> QED BY <1>1 DEF FrameOK

LEMMA Ticks ==
    ASSUME NEW f, FrameOK(f), f.pc \notin {"js", "immediates"},
           NEW m \in {"first", "loop", "before", "again", "wait"}, m = "wait" <=> f.mode = "wait",
           NEW g, g = Ticking(f, m)
    PROVE  /\ FrameOK(g) /\ g.pc = "counts" /\ g.from = f.from /\ g.mode = m /\ g.wait = f.wait
           /\ g.task = f.task /\ g.some = f.some /\ g.n = f.n /\ g.todo = f.todo
BY ZenonT(60) DEF FrameOK, Frame, Loops, Ticking

LEMMA Scripts ==
    ASSUME NEW f, FrameOK(f), NEW from \in {"run", "immediates", "timers"}, NEW w \in Works,
           Kind[w] = "timer" <=> from = "timers", f.todo # <<>> => from = "immediates",
           NEW g, g = Scripted(f, from, w)
    PROVE  /\ FrameOK(g) /\ g.pc = "js" /\ g.from = from /\ g.mode = f.mode /\ g.wait = f.wait
           /\ g.task = w /\ g.some = f.some /\ g.n = f.n /\ g.todo = f.todo
BY ZenonT(60) DEF FrameOK, Frame, Loops, Scripted

LEMMA BeforeExits ==
    ASSUME NEW f, FrameOK(f), f.mode # "wait", f.todo = <<>>,
           NEW g, g = BeforeExit(f)
    PROVE  /\ FrameOK(g) /\ g.pc = "js" /\ g.from = "before" /\ g.mode = "before"
           /\ g.wait = f.wait /\ g.task = NoWork /\ g.todo = f.todo
<1>1. PICK e : e = [f EXCEPT !.pc = "js", !.from = "before", !.task = NoWork]
  OBVIOUS
<1>2. /\ e \in Frame /\ e.pc = "js" /\ e.from = "before" /\ e.mode = f.mode /\ e.wait = f.wait
      /\ e.task = NoWork /\ e.todo = f.todo /\ e.phase = f.phase
  BY <1>1 DEF FrameOK, Frame, Loops
<1>3. g = [e EXCEPT !.mode = "before"]
  BY <1>1 DEF BeforeExit, Scripted
<1> QED BY <1>2, <1>3, TaskLoopAssumption DEF FrameOK, Frame, Loops

LEMMA Returns ==
    ASSUME NEW f, FrameOK(f), f.pc = "js", NEW p \in Loops \ {"js"}, NEW b \in BOOLEAN,
           f.mode = "wait" => p \notin {"start", "alive", "exit"},
           f.from = "immediates" => p = "immediates",
           NEW g, g = Returned(f, b, p)
    PROVE  /\ FrameOK(g) /\ g.pc = p /\ g.from = "entry" /\ g.mode = f.mode /\ g.wait = f.wait
           /\ g.task = NoWork /\ g.some = b /\ g.n = f.n /\ g.todo = f.todo
<1>1. PICK e : e = [f EXCEPT !.task = NoWork, !.some = b]
  OBVIOUS
<1>2. /\ e \in Frame /\ e.pc = "js" /\ e.from = f.from /\ e.mode = f.mode /\ e.wait = f.wait
      /\ e.task = NoWork /\ e.some = b /\ e.n = f.n /\ e.todo = f.todo /\ e.phase = f.phase
  BY <1>1 DEF FrameOK, Frame, Loops
<1>3. g = [e EXCEPT !.from = "entry", !.pc = p]
  BY <1>1 DEF Returned
<1>4. /\ g \in Frame /\ g.pc = p /\ g.from = "entry" /\ g.mode = e.mode /\ g.wait = e.wait
      /\ g.task = e.task /\ g.some = b /\ g.n = e.n /\ g.todo = e.todo /\ g.phase = e.phase
  BY ZenonT(60), <1>2, <1>3 DEF Frame, Loops
<1> QED BY <1>2, <1>4, TaskLoopAssumption DEF FrameOK

LEMMA Counts ==
    ASSUME NEW f, FrameOK(f), f.pc \notin {"js", "immediates"}, NEW k \in Nat,
           NEW g, g = Counted(f, k)
    PROVE  /\ FrameOK(g) /\ g.pc = "take" /\ g.from = f.from /\ g.mode = f.mode /\ g.wait = f.wait
           /\ g.task = f.task /\ g.some = f.some /\ g.n = k /\ g.todo = f.todo
BY ZenonT(60) DEF FrameOK, Frame, Loops, Counted

LEMMA Queues ==
    ASSUME NEW f, FrameOK(f), f.pc # "js", NEW q \in Seq(Works),
           \A i \in DOMAIN q : Kind[q[i]] = "immediate",
           NEW g, g = Queued(f, q)
    PROVE  /\ FrameOK(g) /\ g.pc = "immediates" /\ g.from = f.from /\ g.mode = f.mode
           /\ g.wait = f.wait /\ g.task = f.task /\ g.todo = q
BY ZenonT(60) DEF FrameOK, Frame, Loops, Queued

LEMMA Unqueues ==
    ASSUME NEW f, FrameOK(f), f.todo # <<>>, NEW g, g = Unqueued(f)
    PROVE  /\ FrameOK(g) /\ g.pc = "js" /\ g.from = "immediates" /\ g.mode = f.mode
           /\ g.wait = f.wait /\ g.task = Head(f.todo) /\ g.task \in Works /\ Kind[g.task] = "immediate"
           /\ g.todo = Tail(f.todo) /\ f.todo \in Seq(Works)
<1>1. PICK w, q, e : w = Head(f.todo) /\ q = Tail(f.todo) /\ e = Scripted(f, "immediates", w)
  OBVIOUS
<1>2. /\ Len(f.todo) > 0 /\ Len(f.todo) \in Nat /\ w \in Works /\ w = f.todo[1]
      /\ q \in Seq(Works) /\ Len(q) = Len(f.todo) - 1
      /\ \A i \in 1..Len(f.todo) - 1 : q[i] = f.todo[i + 1]
      /\ DOMAIN f.todo = 1..Len(f.todo)
  BY <1>1, SeqFacts DEF FrameOK, Frame
<1>3. DOMAIN q = 1..Len(f.todo) - 1
  BY <1>2
<1>4. Kind[w] = "immediate" /\ \A i \in DOMAIN q : Kind[q[i]] = "immediate"
  <2>1. \A i \in 1..Len(f.todo) : Kind[f.todo[i]] = "immediate"
    BY <1>2 DEF FrameOK
  <2>2. ASSUME NEW i \in DOMAIN q PROVE Kind[q[i]] = "immediate"
    <3>1. i \in 1..Len(f.todo) - 1 /\ i + 1 \in 1..Len(f.todo)
      BY <1>2, <1>3
    <3>2. q[i] = f.todo[i + 1]
      BY <1>2, <3>1
    <3> QED BY <2>1, <3>1, <3>2
  <2>3. 1 \in 1..Len(f.todo)
    BY <1>2
  <2> QED BY <1>2, <2>1, <2>2, <2>3
<1>5. /\ FrameOK(e) /\ e.pc = "js" /\ e.from = "immediates" /\ e.mode = f.mode
      /\ e.wait = f.wait /\ e.task = w /\ e.todo = f.todo
  <2>1. (Kind[w] = "timer" <=> "immediates" = "timers") /\ w \in Works
    BY <1>2, <1>4
  <2> QED BY <1>1, <2>1, Scripts
<1>6. g = [e EXCEPT !.todo = q]
  BY <1>1, <1>5 DEF Unqueued
<1>7. /\ g \in Frame /\ g.pc = "js" /\ g.from = "immediates" /\ g.mode = e.mode
      /\ g.wait = e.wait /\ g.task = w /\ g.todo = q /\ g.phase = e.phase
  BY <1>2, <1>5, <1>6 DEF FrameOK, Frame
<1>8. FrameOK(g)
  BY <1>4, <1>5, <1>7 DEF FrameOK
<1> QED BY <1>1, <1>2, <1>4, <1>5, <1>7, <1>8 DEF FrameOK, Frame

\* Only the loop on top is not in JavaScript, and only it may be in an immediate.
StackOK ==
    /\ stack \in Seq(Frame) /\ stack # <<>>
    /\ \A i \in DOMAIN stack : FrameOK(stack[i])
    /\ \A i \in 2..Len(stack) :
         /\ stack[i].pc = "js"
         /\ stack[i].from = "immediates" => "wait" \in Immediates
    /\ stack[Len(stack)].mode # "wait"

LEMMA StackSet ==
    ASSUME StackOK, NEW f, FrameOK(f), f.mode = "wait" => Top.mode = "wait", SetTop(f)
    PROVE  /\ StackOK' /\ Head(stack') = f /\ stack'[1] = f /\ Len(stack') = Len(stack)
           /\ \A i \in 2..Len(stack) : stack'[i] = stack[i]
<1>1. f \in Frame /\ stack \in Seq(Frame) /\ stack # <<>>
  BY DEF FrameOK, StackOK
<1>2. /\ stack' \in Seq(Frame) /\ stack' # <<>> /\ Len(stack') = Len(stack)
      /\ Head(stack') = f /\ stack'[1] = f /\ \A i \in 2..Len(stack) : stack'[i] = stack[i]
  BY <1>1, Replaced DEF SetTop
<1>3. Len(stack) \in Nat /\ Len(stack) > 0 /\ Top = stack[1]
  BY <1>1, SeqFacts DEF Top
<1>4. DOMAIN stack = 1..Len(stack) /\ DOMAIN stack' = 1..Len(stack)
  BY <1>1, <1>2
<1>5. \A i \in DOMAIN stack' : FrameOK(stack'[i])
  BY <1>2, <1>3, <1>4 DEF StackOK
<1>6. stack'[Len(stack)].mode # "wait"
  BY <1>2, <1>3 DEF StackOK
<1>7. (\A i \in DOMAIN stack : FrameOK(stack[i]))' <=> \A i \in DOMAIN stack' : FrameOK(stack'[i])
  BY DEF FrameOK
<1> QED BY <1>2, <1>3, <1>4, <1>5, <1>6, <1>7 DEF StackOK

LEMMA TopOK ==
    ASSUME StackOK
    PROVE  /\ FrameOK(Top) /\ Top \in Frame /\ Top = stack[1]
           /\ Len(stack) \in Nat /\ Len(stack) > 0 /\ DOMAIN stack = 1..Len(stack)
BY SeqFacts DEF StackOK, Top

\* A nested loop returns to the JavaScript that waits.
LEMMA StackPop ==
    ASSUME StackOK, Top.mode = "wait", stack' = Tail(stack)
    PROVE  /\ StackOK' /\ Len(stack) > 1 /\ Len(stack') = Len(stack) - 1
           /\ \A i \in 1..Len(stack) - 1 : stack'[i] = stack[i + 1]
           /\ Head(stack') = stack[2]
<1>1. stack \in Seq(Frame) /\ stack # <<>> /\ Len(stack) \in Nat /\ Len(stack) > 1
  BY TopOK DEF StackOK
<1>2. /\ stack' \in Seq(Frame) /\ Len(stack') = Len(stack) - 1
      /\ \A i \in 1..Len(stack) - 1 : stack'[i] = stack[i + 1]
  BY <1>1, SeqFacts
<1>3. stack' # <<>>
  <2>1. Len(stack') > 0 /\ Len(<<>>) = 0
    BY <1>1, <1>2
  <2> QED BY <2>1
<1>4. /\ Head(stack') = stack[2]
      /\ DOMAIN stack = 1..Len(stack) /\ DOMAIN stack' = 1..Len(stack) - 1
  <2>1. DOMAIN stack = 1..Len(stack) /\ DOMAIN stack' = 1..Len(stack')
    BY <1>1, <1>2
  <2>2. Head(stack') = stack'[1] /\ 1 \in 1..Len(stack) - 1
    BY <1>1, <1>2, <1>3, SeqFacts
  <2> QED BY <1>2, <2>1, <2>2
<1>5. \A i \in DOMAIN stack' : FrameOK(stack'[i])
  BY <1>1, <1>2, <1>4 DEF StackOK
<1>6. (\A i \in DOMAIN stack : FrameOK(stack[i]))' <=> \A i \in DOMAIN stack' : FrameOK(stack'[i])
  BY DEF FrameOK
<1>7. \A i \in 2..Len(stack') :
         /\ stack'[i].pc = "js"
         /\ stack'[i].from = "immediates" => "wait" \in Immediates
  BY <1>1, <1>2 DEF StackOK
<1>8. stack'[Len(stack')].mode # "wait"
  BY <1>1, <1>2 DEF StackOK
<1> QED BY <1>1, <1>2, <1>3, <1>4, <1>5, <1>6, <1>7, <1>8 DEF StackOK

\* waitForPromise begins a nested loop.
LEMMA StackPush ==
    ASSUME StackOK, At("js"), May("wait"), NEW w \in Works,
           Kind[w] = "immediate" => "settle" \in Immediates,
           stack' = <<FrameOf("counts", "wait", w)>> \o stack
    PROVE  /\ StackOK' /\ Len(stack') = Len(stack) + 1
           /\ \A i \in 1..Len(stack) : stack'[i + 1] = stack[i]
           /\ Head(stack') = stack'[1] /\ stack'[1].pc = "counts" /\ stack'[1].task = NoWork
<1>1. PICK f : f = FrameOf("counts", "wait", w)
  OBVIOUS
<1>2. <<>> \in Seq(Works) /\ DOMAIN <<>> = {}
  OBVIOUS
<1>3. f \in Frame
  BY <1>1, <1>2 DEF FrameOf, Frame, Loops
<1>4. FrameOK(f) /\ f.mode = "wait" /\ f.pc = "counts" /\ f.task = NoWork
  BY <1>1, <1>2, <1>3, TaskLoopAssumption DEF FrameOf, FrameOK
<1>5. stack' = <<f>> \o stack
  BY <1>1
<1>6. stack \in Seq(Frame) /\ Len(stack) \in Nat /\ Len(stack) > 0 /\ DOMAIN stack = 1..Len(stack)
  BY TopOK DEF StackOK
<1>7. /\ stack' \in Seq(Frame) /\ stack' # <<>> /\ Len(stack') = Len(stack) + 1
      /\ Head(stack') = f /\ stack'[1] = f /\ \A i \in 1..Len(stack) : stack'[i + 1] = stack[i]
  BY <1>3, <1>5, <1>6, Pushed
<1>8. DOMAIN stack' = 1..Len(stack) + 1
  BY <1>7
<1>9. \A i \in DOMAIN stack' : FrameOK(stack'[i])
  <2>1. SUFFICES ASSUME NEW i \in 1..Len(stack) + 1 PROVE FrameOK(stack'[i])
    BY <1>8
  <2>2. CASE i = 1
    BY <2>2, <1>4, <1>7
  <2>3. CASE i # 1
    <3>1. i - 1 \in 1..Len(stack) /\ stack'[i] = stack[i - 1]
      BY <2>3, <1>6, <1>7
    <3> QED BY <3>1, <1>6 DEF StackOK
  <2> QED BY <2>2, <2>3
<1>10. \A i \in 2..Len(stack') :
         /\ stack'[i].pc = "js"
         /\ stack'[i].from = "immediates" => "wait" \in Immediates
  <2>1. SUFFICES ASSUME NEW i \in 2..Len(stack) + 1
                 PROVE  /\ stack'[i].pc = "js"
                        /\ stack'[i].from = "immediates" => "wait" \in Immediates
    BY <1>7
  <2>2. i - 1 \in 1..Len(stack) /\ stack'[i] = stack[i - 1]
    BY <1>6, <1>7
  <2>3. CASE i = 2
    BY <2>2, <2>3, TopOK DEF At, May
  <2>4. CASE i # 2
    BY <2>2, <2>4, <1>6 DEF StackOK
  <2> QED BY <2>3, <2>4
<1>11. stack'[Len(stack')].mode # "wait"
  BY <1>6, <1>7 DEF StackOK
<1>12. (\A i \in DOMAIN stack : FrameOK(stack[i]))' <=> \A i \in DOMAIN stack' : FrameOK(stack'[i])
  BY DEF FrameOK
<1> QED BY <1>4, <1>6, <1>7, <1>9, <1>10, <1>11, <1>12 DEF StackOK

LEMMA Looks ==
    ASSUME NEW f \in Fifos(Works), NEW k \in Nat, FrameOK(Top), At("take"), NEW g, g = Looked(f, k)
    PROVE  /\ FrameOK(g) /\ g.pc \in {"counts", "run", "alive"} /\ g.task = NoWork
           /\ g.mode = "wait" <=> Top.mode = "wait"
           /\ g.todo = Top.todo
<1> DEFINE top == Top
<1> HIDE DEF top
<1>1. FrameOK(top) /\ top.pc = "take" /\ top.task = NoWork
  BY DEF top, At, FrameOK
<1>2. PICK e : e = [top EXCEPT !.n = 0, !.some = FALSE]
  OBVIOUS
<1>3. FrameOK(e) /\ e.pc = "take" /\ e.task = NoWork /\ e.mode = top.mode /\ e.phase = top.phase
      /\ e.todo = top.todo
  <2>1. /\ e \in Frame /\ e.pc = top.pc /\ e.from = top.from /\ e.mode = top.mode
        /\ e.wait = top.wait /\ e.task = top.task /\ e.todo = top.todo /\ e.phase = top.phase
    BY <1>1, <1>2 DEF FrameOK, Frame
  <2> QED BY <1>1, <2>1 DEF FrameOK
<1>4. CASE top.phase = "start"
  <2>1. e.mode # "wait"
    BY <1>1, <1>3, <1>4 DEF FrameOK
  <2>2. CASE k > 0
    <3>1. g = Phased(e, "counts", "enter")
      BY <1>2, <1>4, <2>2 DEF Phased, Looked, top
    <3>2. "counts" \in Loops \ {"js"} /\ "enter" \in {"start", "enter", "more", "drained", "last"}
      BY DEF Loops
    <3>3. FrameOK(g) /\ g.pc = "counts" /\ g.mode = e.mode /\ g.task = e.task /\ g.todo = e.todo
      BY <1>3, <2>1, <3>1, <3>2, Phases
    <3> QED BY <1>3, <2>1, <3>3 DEF top
  <2>3. CASE ~(k > 0)
    <3>1. g = Moded(e, "alive", "loop")
      BY <1>2, <1>4, <2>3 DEF Moded, Looked, top
    <3>2. "alive" \in Loops \ {"js"} /\ "loop" \in {"first", "loop", "before", "again"}
      BY DEF Loops
    <3>3. FrameOK(g) /\ g.pc = "alive" /\ g.mode = "loop" /\ g.task = e.task /\ g.todo = e.todo
      BY <1>3, <2>1, <3>1, <3>2, Modes
    <3> QED BY <1>3, <2>1, <3>3 DEF top
  <2> QED BY <2>2, <2>3
<1>5. CASE top.phase # "start"
  <2>1. PICK q \in {"enter", "more", "drained", "last"} : g = Phased(e, "run", q)
    <3>1. top.phase \in {"enter", "more", "drained", "last"}
      BY <1>1, <1>5 DEF FrameOK, Frame
    <3>2. CASE top.phase = "drained"
      <4>1. g = Phased(e, "run", IF Count(f) > 0 THEN "more" ELSE "last")
        BY <1>2, <3>2 DEF Phased, Looked, top
      <4> QED BY <4>1
    <3>3. CASE top.phase # "drained"
      <4>1. g = Phased(e, "run", IF e.phase = "enter" THEN "more" ELSE e.phase)
        BY <1>2, <1>3, <1>5, <3>3 DEF Phased, Looked, top
      <4> QED BY <1>3, <3>1, <4>1
    <3> QED BY <3>2, <3>3
  <2>2. "run" \in Loops \ {"js"} /\ q \in {"start", "enter", "more", "drained", "last"}
    BY DEF Loops
  <2>3. e.mode = "wait" => "run" \notin {"start", "alive", "exit"} /\ q # "start"
    OBVIOUS
  <2>4. FrameOK(g) /\ g.pc = "run" /\ g.mode = e.mode /\ g.task = e.task /\ g.todo = e.todo
    BY <1>3, <2>1, <2>2, <2>3, Phases
  <2> QED BY <1>3, <2>4 DEF top
<1> QED BY <1>3, <1>4, <1>5 DEF top

-----------------------------------------------------------------------------
(* The states of the loop.                                                 *)

Of(q, kinds) == \A i \in DOMAIN q : Kind[q[i]] \in kinds

LEMMA OfAppend ==
    ASSUME NEW q \in Seq(Works), NEW kinds, Of(q, kinds), NEW w \in Works, Kind[w] \in kinds
    PROVE  Of(Append(q, w), kinds)
<1>1. PICK r : r = Append(q, w)
  OBVIOUS
<1>2. /\ Len(q) \in Nat /\ DOMAIN q = 1..Len(q) /\ DOMAIN r = 1..Len(q) + 1
      /\ r[Len(q) + 1] = w /\ \A i \in 1..Len(q) : r[i] = q[i]
  BY <1>1
<1>3. ASSUME NEW i \in DOMAIN r PROVE Kind[r[i]] \in kinds
  <2>1. i = Len(q) + 1 \/ i \in 1..Len(q)
    BY <1>2
  <2> QED BY <1>2, <2>1 DEF Of
<1> QED BY <1>1, <1>3 DEF Of

LEMMA OfSuffix ==
    ASSUME NEW q \in Seq(Works), NEW kinds, Of(q, kinds), NEW k \in 0..Len(q)
    PROVE  Of(SubSeq(q, k + 1, Len(q)), kinds)
<1>1. PICK r : r = SubSeq(q, k + 1, Len(q))
  OBVIOUS
<1>2. /\ r \in Seq(Works) /\ Len(r) = Len(q) - k /\ Len(q) \in Nat
      /\ DOMAIN q = 1..Len(q) /\ \A i \in 1..Len(q) - k : r[i] = q[i + k]
  BY <1>1, Suffix
<1>3. DOMAIN r = 1..Len(q) - k
  BY <1>2
<1>4. ASSUME NEW i \in DOMAIN r PROVE Kind[r[i]] \in kinds
  <2>1. i \in 1..Len(q) - k /\ i + k \in DOMAIN q
    BY <1>2, <1>3
  <2> QED BY <1>2, <2>1 DEF Of
<1> QED BY <1>1, <1>4 DEF Of

LEMMA OfPrefix ==
    ASSUME NEW q \in Seq(Works), NEW kinds, Of(q, kinds), NEW k \in 0..Len(q)
    PROVE  Of(SubSeq(q, 1, k), kinds)
<1>1. PICK r : r = SubSeq(q, 1, k)
  OBVIOUS
<1>2. /\ r \in Seq(Works) /\ Len(r) = k /\ Len(q) \in Nat
      /\ DOMAIN q = 1..Len(q) /\ \A i \in 1..k : r[i] = q[i]
  BY <1>1, Prefix
<1>3. DOMAIN r = 1..k
  BY <1>2
<1>4. ASSUME NEW i \in DOMAIN r PROVE Kind[r[i]] \in kinds
  <2>1. i \in 1..k /\ i \in DOMAIN q
    BY <1>2, <1>3
  <2> QED BY <1>2, <2>1 DEF Of
<1> QED BY <1>1, <1>4 DEF Of

LEMMA OfConcat ==
    ASSUME NEW q \in Seq(Works), NEW r \in Seq(Works), NEW kinds, Of(q, kinds), Of(r, kinds)
    PROVE  Of(q \o r, kinds)
<1>1. PICK t : t = q \o r
  OBVIOUS
<1>2. /\ Len(q) \in Nat /\ Len(r) \in Nat /\ DOMAIN q = 1..Len(q) /\ DOMAIN r = 1..Len(r)
      /\ DOMAIN t = 1..Len(q) + Len(r)
      /\ \A i \in 1..Len(q) : t[i] = q[i]
      /\ \A i \in Len(q) + 1..Len(q) + Len(r) : t[i] = r[i - Len(q)]
  BY <1>1
<1>3. ASSUME NEW i \in DOMAIN t PROVE Kind[t[i]] \in kinds
  <2>1. CASE i \in 1..Len(q)
    BY <1>2, <2>1 DEF Of
  <2>2. CASE i \notin 1..Len(q)
    <3>1. i - Len(q) \in DOMAIN r /\ t[i] = r[i - Len(q)]
      BY <1>2, <2>2
    <3> QED BY <3>1 DEF Of
  <2> QED BY <2>1, <2>2
<1> QED BY <1>1, <1>3 DEF Of

Threads == {"off", "pool", "swapped", "linked", "pushed", "unrefed"}

Typed ==
    /\ line \in Seq(Works) /\ unlinked \subseteq Works
    /\ Of(line, {"work", "cpp", "post"})
    /\ tasks \in Fifos(Works) /\ Of(tasks.items, {"work", "cpp", "post", "local"})
    /\ immediates \in Seq(Works) /\ Of(immediates, {"immediate"})
    /\ active \in Int /\ delta \in Int /\ awake \in BOOLEAN
    /\ thread \in [Works -> Threads] /\ clock \in [Works -> {"off", "armed", "due"}]
    /\ \A w \in Works : thread[w] # "off" => Kind[w] \in {"work", "cpp"}
    /\ \A w \in Works : clock[w] # "off" => Kind[w] = "timer"
    /\ begun \subseteq Works /\ ran \subseteq Works
    /\ StackOK

LEMMA TypedInit == Init => Typed
<1> SUFFICES ASSUME Init PROVE Typed
  OBVIOUS
<1>1. tasks \in Fifos(Works) /\ tasks.items = <<>>
  <2>1. Capacity \in Nat
    BY TaskLoopAssumption
  <2> QED BY <2>1, RingEmpty, Reserves DEF Init
<1>2. StackOK
  <2>1. PICK f : f = FrameOf("js", "first", NoWork)
    OBVIOUS
  <2>2. <<>> \in Seq(Works) /\ DOMAIN <<>> = {}
    OBVIOUS
  <2>3. f \in Frame
    BY <2>1, <2>2 DEF FrameOf, Frame, Loops
  <2>4. FrameOK(f) /\ f.mode = "first" /\ f.pc = "js" /\ f.from = "entry"
    BY <2>1, <2>2, <2>3, TaskLoopAssumption DEF FrameOf, FrameOK
  <2>5. stack = <<f>> /\ <<f>> \in Seq(Frame)
    BY <2>1, <2>3 DEF Init
  <2> QED BY <2>4, <2>5 DEF StackOK
<1>3. line = <<>> /\ immediates = <<>> /\ <<>> \in Seq(Works) /\ DOMAIN <<>> = {}
  BY DEF Init
<1>4. Of(line, {"work", "cpp", "post"}) /\ Of(immediates, {"immediate"})
  BY <1>3 DEF Of
<1>5. Of(tasks.items, {"work", "cpp", "post", "local"})
  BY <1>1, <1>3 DEF Of
<1>6. /\ thread \in [Works -> Threads] /\ clock \in [Works -> {"off", "armed", "due"}]
      /\ \A w \in Works : thread[w] = "off" /\ clock[w] = "off"
  BY DEF Init, Threads
<1>7. /\ unlinked \subseteq Works /\ active \in Int /\ delta \in Int
      /\ begun \subseteq Works /\ ran \subseteq Works
  BY DEF Init
<1>8. awake \in BOOLEAN
  BY DEF Init
<1> QED BY <1>1, <1>2, <1>3, <1>4, <1>5, <1>6, <1>7, <1>8 DEF Typed

\* The frame on top becomes g.
NewTop(g) == SetTop(g) /\ FrameOK(g) /\ (g.mode = "wait" <=> Top.mode = "wait")

LEMMA ReturnTop ==
    ASSUME Typed, Return
    PROVE  \E g : /\ NewTop(g) /\ g.mode = Top.mode /\ g.wait = Top.wait
                  /\ g.task = NoWork /\ g.some = (Top.from = "run") /\ g.todo = Top.todo
                  /\ g.pc = CASE Top.from = "entry"  -> "start"
                              [] Top.from = "before" -> "alive"
                              [] OTHER               -> Top.from
<1> DEFINE b == Top.from = "run"
           p == CASE Top.from = "entry"  -> "start"
                  [] Top.from = "before" -> "alive"
                  [] OTHER               -> Top.from
           g == Returned(Top, b, p)
<1>1. FrameOK(Top) /\ Top.pc = "js" /\ Top.from \in {"entry", "run", "immediates", "timers", "before"}
  BY TopOK DEF Typed, FrameOK, Frame, Return, At
<1>2. p \in Loops \ {"js"} /\ b \in BOOLEAN
  BY <1>1 DEF Loops
<1>3. Top.mode = "wait" => p \notin {"start", "alive", "exit"}
  BY <1>1 DEF FrameOK
<1>4. SetTop(g)
  BY DEF Return, SetTop, Returned
<1>6. Top.from = "immediates" => p = "immediates"
  BY DEF p
<1> HIDE DEF b, p
<1>5. FrameOK(g) /\ g.pc = p /\ g.mode = Top.mode /\ g.wait = Top.wait /\ g.task = NoWork /\ g.some = b
      /\ g.todo = Top.todo
  BY <1>1, <1>2, <1>3, <1>6, Returns
<1> HIDE DEF g
<1> QED BY <1>4, <1>5 DEF NewTop, b, p

LEMMA CountTop ==
    ASSUME Typed, UpdateCounts
    PROVE  \E g : /\ NewTop(g) /\ g.pc = "take" /\ g.task = NoWork /\ g.todo = Top.todo
                  /\ g.n = Len(line) - Cardinality(Channel!Hidden) /\ g.n \in 0..Len(line)
                  /\ g.n < Len(line) => Channel!Hidden # {}
<1> DEFINE k == Len(line) - Cardinality(Channel!Hidden)
<1>1. FrameOK(Top) /\ Top.pc = "counts"
  BY TopOK DEF Typed, UpdateCounts, At
<1>2. k \in 0..Len(line) /\ (k < Len(line) => Channel!Hidden # {})
  <2>1. Len(line) \in Nat /\ DOMAIN line = 1..Len(line)
    BY DEF Typed
  <2>2. Channel!Hidden \subseteq 1..Len(line)
    BY <2>1 DEF Channel!Hidden
  <2>3. IsFiniteSet(1..Len(line)) /\ Cardinality(1..Len(line)) = Len(line)
    <3>1. IsFiniteSet(1..Len(line))
      BY <2>1, FS_Interval
    <3>2. Cardinality(1..Len(line)) = IF 1 > Len(line) THEN 0 ELSE Len(line) - 1 + 1
      BY <2>1, FS_Interval
    <3> QED BY <2>1, <3>1, <3>2
  <2>4. Cardinality(Channel!Hidden) \in Nat /\ Cardinality(Channel!Hidden) <= Len(line)
    BY <2>2, <2>3, FS_Subset, FS_CardinalityType
  <2>5. Cardinality({}) = 0
    BY FS_EmptySet
  <2> QED BY SMTT(60), <2>1, <2>4, <2>5
<1> DEFINE g == Counted(Top, k)
<1>3. SetTop(g)
  BY DEF UpdateCounts, SetTop, Counted
<1> HIDE DEF k
<1>4. k \in Nat
  BY <1>2 DEF Typed
<1>5. FrameOK(g) /\ g.pc = "take" /\ g.mode = Top.mode /\ g.task = Top.task /\ g.n = k /\ g.todo = Top.todo
  BY <1>1, <1>4, Counts
<1> HIDE DEF g
<1>6. Top.task = NoWork
  BY <1>1 DEF FrameOK
<1> QED BY <1>2, <1>3, <1>5, <1>6 DEF NewTop, k

LEMMA TakeTop ==
    ASSUME Typed, NEW k \in 0..Len(line), TakeBatch(k)
    PROVE  \E g : /\ NewTop(g) /\ g.pc \in {"counts", "run", "alive"} /\ g.task = NoWork /\ g.todo = Top.todo
                  /\ tasks' \in Fifos(Works) /\ Of(tasks'.items, {"work", "cpp", "post", "local"})
                  /\ \E i \in 0..k : tasks'.items = tasks.items \o SubSeq(line, 1, i)
                  /\ tasks.head = 0 => /\ tasks'.head = 0
                                       /\ tasks'.items = tasks.items \o SubSeq(line, 1, k)
                  /\ line' = SubSeq(line, k + 1, Len(line)) /\ line' \in Seq(Works)
                  /\ Of(line', {"work", "cpp", "post"})
                  /\ unlinked' = unlinked
<1> DEFINE b == SubSeq(line, 1, k)
<1>1. /\ line \in Seq(Works) /\ b \in Seq(Works) /\ Len(b) = k /\ k \in Nat
      /\ Of(line, {"work", "cpp", "post"}) /\ Of(b, {"work", "cpp", "post"})
  <2>1. line \in Seq(Works) /\ Of(line, {"work", "cpp", "post"})
    BY DEF Typed
  <2>2. b \in Seq(Works) /\ Len(b) = k /\ k \in Nat
    BY <2>1, Prefix
  <2> QED BY <2>1, <2>2, OfPrefix
<1>2. tasks' = Arrive(tasks, b) /\ tasks \in Fifos(Works)
  BY DEF TakeBatch, Typed
<1>3. /\ tasks' \in Fifos(Works)
      /\ tasks.head = 0 => tasks'.head = 0 /\ tasks'.items = tasks.items \o b
  BY <1>1, <1>2, Arrives
<1>4. PICK i \in 0..k : tasks'.items = tasks.items \o SubSeq(line, 1, i)
  <2>1. PICK i \in 0..k : tasks'.items = tasks.items \o SubSeq(b, 1, i)
    BY <1>1, <1>2, Arrives
  <2>2. SubSeq(b, 1, i) = SubSeq(line, 1, i)
    BY <1>1
  <2> QED BY <2>1, <2>2
<1>5. Of(tasks'.items, {"work", "cpp", "post", "local"})
  <2>1. tasks.items \in Seq(Works) /\ Of(tasks.items, {"work", "cpp", "post", "local"})
    BY RingFields DEF Typed
  <2>2. i \in 0..Len(line)
    BY <1>1
  <2>3. SubSeq(line, 1, i) \in Seq(Works) /\ Of(SubSeq(line, 1, i), {"work", "cpp", "post"})
    BY <1>1, <2>2, Prefix, OfPrefix
  <2>4. Of(SubSeq(line, 1, i), {"work", "cpp", "post", "local"})
    BY <2>3 DEF Of
  <2> QED BY <1>4, <2>1, <2>3, <2>4, OfConcat
<1>6. line' = SubSeq(line, k + 1, Len(line)) /\ unlinked' = unlinked
  <2>1. CASE k > 0
    BY <2>1 DEF TakeBatch, Channel!Receive
  <2>2. CASE k = 0
    <3>1. SubSeq(line, 0 + 1, Len(line)) = line
      BY <1>1
    <3> QED BY <2>2, <3>1 DEF TakeBatch, channel
  <2> QED BY <1>1, <2>1, <2>2
<1>7. line' \in Seq(Works) /\ Of(line', {"work", "cpp", "post"})
  BY <1>1, <1>6, Suffix, OfSuffix
<1>8. PICK g : g = Looked(tasks', k)
  OBVIOUS
<1>9. FrameOK(Top) /\ At("take")
  BY TopOK DEF Typed, TakeBatch
<1>10. /\ FrameOK(g) /\ g.pc \in {"counts", "run", "alive"} /\ g.task = NoWork
       /\ g.mode = "wait" <=> Top.mode = "wait"
       /\ g.todo = Top.todo
  BY <1>1, <1>3, <1>8, <1>9, Looks
<1>11. SetTop(g)
  BY <1>8 DEF TakeBatch
<1> QED BY <1>3, <1>4, <1>5, <1>6, <1>7, <1>10, <1>11 DEF NewTop

LEMMA RunTop ==
    ASSUME Typed, RunTask
    PROVE  LET w == Head(tasks.items)
           IN  /\ w \in Works /\ tasks.items # <<>> /\ tasks.items \in Seq(Works)
               /\ Kind[w] \in {"work", "cpp", "post", "local"}
               /\ tasks'.items = Tail(tasks.items) /\ tasks' \in Fifos(Works)
               /\ Of(tasks'.items, {"work", "cpp", "post", "local"})
               /\ \E g : /\ NewTop(g) /\ g.pc = "js" /\ g.from = "run" /\ g.task = w
                        /\ g.todo = Top.todo
<1> DEFINE w == Head(tasks.items)
<1>1. /\ tasks.items \in Seq(Works) /\ tasks \in Fifos(Works)
      /\ Of(tasks.items, {"work", "cpp", "post", "local"}) /\ FrameOK(Top)
  BY RingFields, TopOK DEF Typed
<1>2. tasks.items # <<>>
  BY <1>1 DEF RunTask, Count
<1>3. w \in Works /\ w = tasks.items[1] /\ 1 \in DOMAIN tasks.items
  BY <1>1, <1>2, SeqFacts
<1>4. Kind[w] \in {"work", "cpp", "post", "local"}
  BY <1>1, <1>3 DEF Of
<1>5. tasks'.items = Tail(tasks.items) /\ tasks' \in Fifos(Works)
  BY <1>1, <1>2, Discards DEF RunTask
<1>6. Of(tasks'.items, {"work", "cpp", "post", "local"})
  <2>1. Tail(tasks.items) = SubSeq(tasks.items, 1 + 1, Len(tasks.items)) /\ 1 \in 0..Len(tasks.items)
    BY <1>1, <1>2
  <2> QED BY <1>1, <1>5, <2>1, OfSuffix
<1> DEFINE g == Scripted(Top, "run", w)
<1>7. SetTop(g)
  BY DEF RunTask, SetTop, Script, Scripted
<1> HIDE DEF w
<1>8. (Kind[w] = "timer" <=> "run" = "timers") /\ Top.todo = <<>>
  BY <1>1, <1>4 DEF RunTask, At, FrameOK
<1>9. FrameOK(g) /\ g.pc = "js" /\ g.from = "run" /\ g.mode = Top.mode /\ g.task = w /\ g.todo = Top.todo
  BY <1>1, <1>3, <1>8, Scripts
<1> HIDE DEF g
<1>10. NewTop(g) /\ g.pc = "js" /\ g.from = "run" /\ g.task = w /\ g.todo = Top.todo
  BY <1>7, <1>9 DEF NewTop
<1> QED BY <1>1, <1>2, <1>3, <1>4, <1>5, <1>6, <1>10 DEF w

LEMMA RanTop ==
    ASSUME Typed, RanTasks
    PROVE  /\ tasks' \in Fifos(Works) /\ tasks'.items = <<>> /\ tasks.items = <<>>
           /\ tasks'.head = 0
           /\ \E g : /\ NewTop(g) /\ g.task = NoWork /\ g.todo = Top.todo /\ g.pc \in {"counts", "ticked"}
                     /\ g.pc = "ticked" => ~Top.some
<1>1. tasks \in Fifos(Works) /\ tasks.items \in Seq(Works) /\ tasks.items = <<>>
  BY RingFields DEF Typed, RanTasks, Count
<1>2. tasks' \in Fifos(Works) /\ tasks'.items = <<>> /\ tasks'.head = 0
  <2>1. IF tasks.cap = 0 THEN 0 = 0 ELSE 0 < tasks.cap
    BY <1>1, RingFields
  <2>2. tasks' = Turned(tasks, 0)
    BY DEF RanTasks, Turned
  <2> QED BY <1>1, <2>1, <2>2, RingTurned
<1>3. FrameOK(Top) /\ Top.pc = "run" /\ Top.task = NoWork /\ Top.some \in BOOLEAN
  BY TopOK DEF Typed, FrameOK, Frame, RanTasks, At
<1>4. "counts" \in Loops \ {"js"} /\ "ticked" \in Loops \ {"js"}
  BY DEF Loops
<1>5. CASE Top.some
  <2> DEFINE g == Gone(Top, "counts")
  <2>1. SetTop(g)
    BY <1>5 DEF RanTasks, SetTop, Gone
  <2>2. FrameOK(g) /\ g.pc = "counts" /\ g.mode = Top.mode /\ g.task = Top.task /\ g.todo = Top.todo
    BY <1>3, <1>4, Goes
  <2> HIDE DEF g
  <2> QED BY <1>1, <1>2, <1>3, <2>1, <2>2 DEF NewTop
<1>6. CASE ~Top.some /\ Top.phase = "more"
  <2> DEFINE g == Phased(Top, "counts", "drained")
  <2>1. SetTop(g)
    BY <1>6 DEF RanTasks, SetTop, Phased
  <2>2. FrameOK(g) /\ g.pc = "counts" /\ g.mode = Top.mode /\ g.task = Top.task /\ g.todo = Top.todo
    BY <1>3, <1>4, Phases
  <2> HIDE DEF g
  <2> QED BY <1>1, <1>2, <1>3, <2>1, <2>2 DEF NewTop
<1>7. CASE ~Top.some /\ Top.phase # "more"
  <2> DEFINE g == Gone(Top, "ticked")
  <2>1. SetTop(g)
    BY <1>7 DEF RanTasks, SetTop, Gone
  <2>2. FrameOK(g) /\ g.pc = "ticked" /\ g.mode = Top.mode /\ g.task = Top.task /\ g.todo = Top.todo
    BY <1>3, <1>4, Goes
  <2> HIDE DEF g
  <2> QED BY <1>1, <1>2, <1>3, <1>7, <2>1, <2>2 DEF NewTop
<1> QED BY <1>3, <1>5, <1>6, <1>7

\* A nested loop is done and returns to the JavaScript that waits for it.
Pop == stack' = Tail(stack) /\ Top.mode = "wait" /\ Top.task = NoWork

LEMMA TickedTop ==
    ASSUME Typed, Ticked
    PROVE  \/ Pop /\ immediates' = immediates
           \/ \E g : /\ NewTop(g) /\ g.pc = "alive" /\ g.task = NoWork /\ g.todo = Top.todo
                     /\ immediates' = immediates
           \/ \E g : /\ NewTop(g) /\ g.pc = "immediates" /\ g.task = NoWork
                     /\ g.wait \notin ran /\ g.wait = Top.wait /\ immediates' = <<>>
                     /\ g.todo = immediates
<1>1. /\ FrameOK(Top) /\ Top.pc = "ticked" /\ Top.task = NoWork
      /\ immediates \in Seq(Works) /\ Of(immediates, {"immediate"}) /\ ran \subseteq Works
  BY TopOK DEF Typed, FrameOK, Ticked, At
<1>2. CASE Top.mode = "first"
  <2> DEFINE g == Moded(Top, "alive", "loop")
  <2>1. SetTop(g) /\ immediates' = immediates
    BY <1>2 DEF Ticked, SetTop, Moded
  <2>2. "alive" \in Loops \ {"js"} /\ "loop" \in {"first", "loop", "before", "again"} /\ Top.mode # "wait"
    BY <1>2 DEF Loops
  <2>3. FrameOK(g) /\ g.pc = "alive" /\ g.mode = "loop" /\ g.task = Top.task /\ g.todo = Top.todo
    BY <1>1, <2>2, Modes
  <2> HIDE DEF g
  <2>4. NewTop(g)
    BY <1>2, <2>1, <2>3 DEF NewTop
  <2> QED BY <1>1, <2>1, <2>3, <2>4
<1>3. CASE Top.mode # "first" /\ Top.mode = "wait" /\ Top.wait \in ran
  BY <1>1, <1>3 DEF Ticked, Pop
<1>4. CASE Top.mode # "first" /\ ~(Top.mode = "wait" /\ Top.wait \in ran)
  <2> DEFINE g == Queued(Top, immediates)
  <2>1. SetTop(g) /\ immediates' = <<>>
    BY <1>4 DEF Ticked, SetTop, Queued
  <2>2. \A i \in DOMAIN immediates : Kind[immediates[i]] = "immediate"
    BY <1>1 DEF Of
  <2>3. FrameOK(g) /\ g.pc = "immediates" /\ g.mode = Top.mode /\ g.wait = Top.wait /\ g.task = Top.task
        /\ g.todo = immediates
    BY <1>1, <2>2, Queues
  <2> HIDE DEF g
  <2>4. NewTop(g)
    BY <2>1, <2>3 DEF NewTop
  <2>5. Top.wait \notin ran
    BY <1>1, <1>4, TaskLoopAssumption DEF FrameOK
  <2> QED BY <1>1, <2>1, <2>3, <2>4, <2>5
<1> QED BY <1>2, <1>3, <1>4

LEMMA RunImmediateTop ==
    ASSUME Typed, RunImmediate
    PROVE  LET w == Head(Top.todo)
           IN  /\ w \in Works /\ Kind[w] = "immediate"
               /\ \E g : /\ NewTop(g) /\ g.pc = "js" /\ g.from = "immediates" /\ g.task = w
                         /\ g.wait = Top.wait /\ g.todo = Tail(Top.todo)
               /\ Top.todo \in Seq(Works) /\ Top.todo # <<>>
<1>1. FrameOK(Top) /\ Top.todo # <<>>
  BY TopOK DEF Typed, RunImmediate
<1> DEFINE g == Unqueued(Top)
<1>2. SetTop(g)
  BY DEF RunImmediate, SetTop, Script, Scripted, Unqueued
<1>3. /\ FrameOK(g) /\ g.pc = "js" /\ g.from = "immediates" /\ g.mode = Top.mode
      /\ g.wait = Top.wait /\ g.task = Head(Top.todo) /\ g.task \in Works /\ Kind[g.task] = "immediate"
      /\ g.todo = Tail(Top.todo) /\ Top.todo \in Seq(Works)
  BY <1>1, Unqueues
<1> HIDE DEF g
<1>4. NewTop(g)
  BY <1>2, <1>3 DEF NewTop
<1> QED BY <1>1, <1>3, <1>4

LEMMA RanImmediatesTop ==
    ASSUME Typed, RanImmediates
    PROVE  \E g : /\ NewTop(g) /\ g.pc = "poll" /\ g.task = NoWork /\ g.wait = Top.wait
                  /\ g.todo = Top.todo
<1>1. FrameOK(Top) /\ Top.pc = "immediates" /\ Top.task = NoWork /\ Top.todo = <<>>
  BY TopOK DEF Typed, FrameOK, RanImmediates, At
<1> DEFINE g == Gone(Top, "poll")
<1>2. SetTop(g)
  BY DEF RanImmediates, Goto, SetTop, Gone
<1>3. "poll" \in Loops \ {"js"}
  BY DEF Loops
<1>4. FrameOK(g) /\ g.pc = "poll" /\ g.mode = Top.mode /\ g.wait = Top.wait /\ g.task = Top.task /\ g.todo = Top.todo
  BY <1>1, <1>3, Goes
<1> HIDE DEF g
<1>5. NewTop(g)
  BY <1>2, <1>4 DEF NewTop
<1> QED BY <1>1, <1>4, <1>5

LEMMA PollTop ==
    ASSUME Typed, Poll
    PROVE  /\ \E g : NewTop(g) /\ g.pc = "timers" /\ g.task = NoWork /\ g.todo = Top.todo
           /\ clock' \in [Works -> {"off", "armed", "due"}]
           /\ \A w \in Works : clock'[w] # "off" => clock[w] # "off"
<1>1. FrameOK(Top) /\ Top.pc = "poll" /\ Top.task = NoWork
  BY TopOK DEF Typed, FrameOK, Poll, At
<1> DEFINE g == Gone(Top, "timers")
<1>2. SetTop(g)
  BY DEF Poll, Goto, SetTop, Gone
<1>3. "timers" \in Loops \ {"js"}
  BY DEF Loops
<1>4. FrameOK(g) /\ g.pc = "timers" /\ g.mode = Top.mode /\ g.task = Top.task /\ g.todo = Top.todo
  BY <1>1, <1>3, Goes
<1> HIDE DEF g
<1>5. NewTop(g)
  BY <1>2, <1>4 DEF NewTop
<1>6. PICK expired \in SUBSET Timers("armed") :
         clock' = [w \in Works |-> IF w \in expired THEN "due" ELSE clock[w]]
  BY DEF Poll
<1>7. clock \in [Works -> {"off", "armed", "due"}]
  BY DEF Typed
<1>8. clock' \in [Works -> {"off", "armed", "due"}]
  BY <1>6, <1>7
<1>9. \A w \in Works : clock'[w] # "off" => clock[w] # "off"
  BY <1>6, <1>7 DEF Timers
<1> QED BY <1>1, <1>4, <1>5, <1>8, <1>9

LEMMA FireTop ==
    ASSUME Typed, NEW w \in Works, Fire(w)
    PROVE  /\ Kind[w] = "timer"
           /\ \E g : /\ NewTop(g) /\ g.pc = "js" /\ g.from = "timers" /\ g.task = w
                  /\ g.todo = Top.todo
<1>1. FrameOK(Top) /\ Kind[w] = "timer" /\ Top.todo = <<>>
  BY TopOK DEF Typed, Fire, At, FrameOK
<1> DEFINE g == Scripted(Top, "timers", w)
<1>2. SetTop(g)
  BY DEF Fire, SetTop, Script, Scripted
<1>3. FrameOK(g) /\ g.pc = "js" /\ g.from = "timers" /\ g.mode = Top.mode /\ g.task = w /\ g.todo = Top.todo
  BY <1>1, Scripts
<1> HIDE DEF g
<1>4. NewTop(g)
  BY <1>2, <1>3 DEF NewTop
<1> QED BY <1>1, <1>3, <1>4

LEMMA FiredTop ==
    ASSUME Typed, Fired
    PROVE  Pop \/ \E g : NewTop(g) /\ g.pc \in {"alive", "counts"} /\ g.task = NoWork /\ g.todo = Top.todo
<1>1. FrameOK(Top) /\ Top.pc = "timers" /\ Top.task = NoWork
  BY TopOK DEF Typed, FrameOK, Fired, At
<1>2. CASE Top.mode # "wait"
  <2> DEFINE g == Gone(Top, "alive")
  <2>1. SetTop(g)
    BY <1>2 DEF Fired, Goto, SetTop, Gone
  <2>2. "alive" \in Loops \ {"js"}
    BY DEF Loops
  <2>3. FrameOK(g) /\ g.pc = "alive" /\ g.mode = Top.mode /\ g.task = Top.task /\ g.todo = Top.todo
    BY <1>1, <1>2, <2>2, Goes
  <2> HIDE DEF g
  <2>4. NewTop(g)
    BY <2>1, <2>3 DEF NewTop
  <2> QED BY <1>1, <2>3, <2>4
<1>3. CASE Top.mode = "wait" /\ Top.wait \in ran
  BY <1>1, <1>3 DEF Fired, Pop
<1>4. CASE Top.mode = "wait" /\ Top.wait \notin ran
  <2> DEFINE g == Ticking(Top, "wait")
  <2>1. SetTop(g)
    BY <1>4 DEF Fired, Tick, SetTop, Ticking
  <2>2. "wait" \in {"first", "loop", "before", "again", "wait"} /\ ("wait" = "wait" <=> Top.mode = "wait")
    BY <1>4
  <2>3. FrameOK(g) /\ g.pc = "counts" /\ g.mode = "wait" /\ g.task = Top.task /\ g.todo = Top.todo
    BY <1>1, <2>2, Ticks
  <2> HIDE DEF g
  <2>4. NewTop(g)
    BY <1>4, <2>1, <2>3 DEF NewTop
  <2> QED BY <1>1, <2>3, <2>4
<1> QED BY <1>2, <1>3, <1>4

LEMMA StartTop ==
    ASSUME Typed, Start
    PROVE  \E g : NewTop(g) /\ g.pc = "counts" /\ g.task = NoWork /\ g.todo = Top.todo
<1>1. FrameOK(Top) /\ Top.pc = "start" /\ Top.task = NoWork /\ Top.mode # "wait"
  BY TopOK DEF Typed, FrameOK, Start, At
<1>2. PICK q \in {"start", "enter", "more", "drained", "last"} : q = IF Alive THEN "enter" ELSE "start"
  OBVIOUS
<1> DEFINE g == Phased(Top, "counts", q)
<1>3. SetTop(g)
  BY <1>2 DEF Start, SetTop, Phased
<1>4. "counts" \in Loops \ {"js"}
  BY DEF Loops
<1>5. FrameOK(g) /\ g.pc = "counts" /\ g.mode = Top.mode /\ g.task = Top.task /\ g.todo = Top.todo
  BY <1>1, <1>4, Phases
<1> HIDE DEF g
<1>6. NewTop(g)
  BY <1>3, <1>5 DEF NewTop
<1> QED BY <1>1, <1>5, <1>6

LEMMA CheckAliveTop ==
    ASSUME Typed, CheckAlive
    PROVE  \E g : /\ NewTop(g) /\ g.task = NoWork /\ g.todo = Top.todo
                  /\ g.pc \in {"counts", "exit"} \/ (g.pc = "js" /\ g.from = "before")
<1>1. FrameOK(Top) /\ Top.pc = "alive" /\ Top.task = NoWork /\ Top.mode # "wait" /\ Top.todo = <<>>
  BY TopOK DEF Typed, FrameOK, CheckAlive, At
<1>2. Top.mode \in {"first", "loop", "before", "again"}
  BY <1>1 DEF FrameOK, Frame
<1>3. CASE Alive
  <2>1. PICK m \in {"first", "loop", "before", "again", "wait"} :
           m = (IF Top.mode = "before" THEN "again" ELSE Top.mode) /\ m # "wait"
    BY <1>2
  <2> DEFINE g == Ticking(Top, m)
  <2>2. SetTop(g)
    BY <1>3, <2>1 DEF CheckAlive, Tick, SetTop, Ticking
  <2>3. FrameOK(g) /\ g.pc = "counts" /\ g.mode = m /\ g.task = Top.task /\ g.todo = Top.todo
    BY <1>1, <2>1, Ticks
  <2> HIDE DEF g
  <2>4. NewTop(g)
    BY <1>1, <2>1, <2>2, <2>3 DEF NewTop
  <2>5. g.task = NoWork /\ g.todo = Top.todo /\ g.pc \in {"counts", "exit"}
    BY <1>1, <2>3, Zenon
  <2> QED BY <2>4, <2>5, Zenon
<1>4. CASE ~Alive /\ Top.mode = "before"
  <2> DEFINE g == Gone(Top, "exit")
  <2>1. SetTop(g)
    BY <1>4 DEF CheckAlive, Goto, SetTop, Gone
  <2>2. "exit" \in Loops \ {"js"}
    BY DEF Loops
  <2>3. FrameOK(g) /\ g.pc = "exit" /\ g.mode = Top.mode /\ g.task = Top.task /\ g.todo = Top.todo
    BY <1>1, <2>2, Goes
  <2> HIDE DEF g
  <2>4. NewTop(g)
    BY <2>1, <2>3 DEF NewTop
  <2>5. g.task = NoWork /\ g.todo = Top.todo /\ g.pc \in {"counts", "exit"}
    BY <1>1, <2>3, Zenon
  <2> QED BY <2>4, <2>5, Zenon
<1>5. CASE ~Alive /\ Top.mode # "before"
  <2> DEFINE g == BeforeExit(Top)
  <2>1. SetTop(g)
    BY <1>5 DEF CheckAlive, SetTop, Script, Scripted, BeforeExit
  <2>2. FrameOK(g) /\ g.pc = "js" /\ g.from = "before" /\ g.mode = "before" /\ g.task = NoWork
        /\ g.todo = Top.todo
    BY <1>1, BeforeExits
  <2> HIDE DEF g
  <2>3. NewTop(g)
    BY <1>1, <2>1, <2>2 DEF NewTop
  <2> QED BY <2>2, <2>3
<1> QED BY <1>3, <1>4, <1>5

\* All that the stack contributes to Typed, for each way in which it changes.
LEMMA StackKept ==
    ASSUME StackOK
    PROVE  /\ UNCHANGED stack => StackOK'
           /\ (\E g : NewTop(g)) => StackOK'
           /\ Pop => StackOK'
<1>1. UNCHANGED stack => StackOK'
  BY DEF StackOK, FrameOK
<1>2. ASSUME NEW g, NewTop(g) PROVE StackOK'
  BY <1>2, StackSet DEF NewTop
<1>3. Pop => StackOK'
  BY StackPop DEF Pop
<1> QED BY <1>1, <1>2, <1>3

\* Whatever leaves the rest of the state alone, but for awake, active and delta.
LEMMA TypedKept ==
    ASSUME Typed, StackOK',
           UNCHANGED <<channel, tasks, immediates, thread, clock, begun, ran>>,
           active' \in Int, delta' \in Int, awake' \in BOOLEAN
    PROVE  Typed'
<1>1. UNCHANGED <<line, unlinked, tasks, immediates, thread, clock, begun, ran>>
  BY DEF channel
<1>2. /\ Of(line, {"work", "cpp", "post"})' /\ Of(tasks.items, {"work", "cpp", "post", "local"})'
      /\ Of(immediates, {"immediate"})' /\ (tasks \in Fifos(Works))'
  BY <1>1 DEF Typed, Of
<1> QED BY <1>1, <1>2 DEF Typed

LEMMA TypedPool ==
    ASSUME Typed, NEW w \in Works, Pool(w)
    PROVE  Typed'
<1>1. /\ line \in Seq(Works) /\ unlinked \subseteq Works /\ Of(line, {"work", "cpp", "post"})
      /\ thread \in [Works -> Threads]
      /\ \A v \in Works : thread[v] # "off" => Kind[v] \in {"work", "cpp"}
      /\ active \in Int /\ delta \in Int /\ awake \in BOOLEAN
  BY DEF Typed
<1>2. /\ UNCHANGED <<tasks, immediates, active, clock, stack, begun, ran>>
      /\ StackOK'
  <2>1. UNCHANGED <<tasks, immediates, active, clock, stack, begun, ran>>
    BY DEF Pool, Finish, LinkResult, WakeLoop, UnrefConcurrently, WakeUnrefed, loop, queues, history
  <2> QED BY <2>1, StackKept DEF Typed
<1>3. /\ thread[w] # "off" /\ thread' \in [Works -> Threads]
      /\ \A v \in Works : thread'[v] # "off" => thread[v] # "off"
  BY <1>1 DEF Pool, Finish, LinkResult, WakeLoop, UnrefConcurrently, WakeUnrefed, Threads
<1>4. line' \in Seq(Works) /\ Of(line', {"work", "cpp", "post"}) /\ unlinked' \subseteq Works
  <2>1. CASE Finish(w)
    <3>1. line' = Append(line, w)
      <4>1. line' = line \o <<w>>
        BY <2>1 DEF Finish, Channel!Send
      <4> QED BY <1>1, <4>1
    <3>2. unlinked' = unlinked \cup {w}
      BY <2>1 DEF Finish, Channel!Send
    <3>3. Kind[w] \in {"work", "cpp", "post"}
      BY <1>1, <1>3
    <3> QED BY <1>1, <3>1, <3>2, <3>3, Appended, OfAppend
  <2>2. CASE LinkResult(w)
    BY <1>1, <2>2 DEF LinkResult, Channel!Link
  <2>3. CASE WakeLoop(w) \/ UnrefConcurrently(w) \/ WakeUnrefed(w)
    BY <1>1, <2>3 DEF WakeLoop, UnrefConcurrently, WakeUnrefed, queues, channel
  <2> QED BY <2>1, <2>2, <2>3 DEF Pool
<1>5. delta' \in Int
  BY <1>1 DEF Pool, Finish, LinkResult, WakeLoop, UnrefConcurrently, WakeUnrefed, loop
<1>6. awake' \in BOOLEAN
  BY <1>1 DEF Pool, Finish, LinkResult, WakeLoop, UnrefConcurrently, WakeUnrefed, loop
<1>7. (tasks \in Fifos(Works))' /\ Of(tasks.items, {"work", "cpp", "post", "local"})' /\ Of(immediates, {"immediate"})'
  BY <1>2 DEF Typed, Of
<1>8. \A v \in Works : thread'[v] # "off" => Kind[v] \in {"work", "cpp"}
  BY <1>1, <1>3
<1> QED BY <1>1, <1>2, <1>3, <1>4, <1>5, <1>6, <1>7, <1>8 DEF Typed

\* What a count takes from the loop, or gives back, in one step.
LEMMA SharedType ==
    \A n, m : Shared(n, m) \in {-1, 0, 1}
BY DEF Shared

LEMMA TypedBegin ==
    ASSUME Typed, NEW w \in Works, BeginAny(w)
    PROVE  Typed'
<1>1. /\ line \in Seq(Works) /\ unlinked \subseteq Works /\ Of(line, {"work", "cpp", "post"})
      /\ tasks \in Fifos(Works) /\ tasks.items \in Seq(Works) /\ Of(tasks.items, {"work", "cpp", "post", "local"})
      /\ immediates \in Seq(Works) /\ Of(immediates, {"immediate"})
      /\ thread \in [Works -> Threads] /\ clock \in [Works -> {"off", "armed", "due"}]
      /\ \A v \in Works : thread[v] # "off" => Kind[v] \in {"work", "cpp"}
      /\ \A v \in Works : clock[v] # "off" => Kind[v] = "timer"
      /\ active \in Int /\ delta \in Int /\ awake \in BOOLEAN /\ begun \subseteq Works /\ ran \subseteq Works
  BY RingFields DEF Typed
<1>2. /\ UNCHANGED <<stack, unlinked, ran>> /\ begun' = begun \cup {w} /\ StackOK'
      /\ begun' \subseteq Works /\ ran' \subseteq Works /\ unlinked' \subseteq Works
  <2>1. UNCHANGED <<stack, unlinked, ran>> /\ begun' = begun \cup {w}
    BY DEF BeginAny, BeginWork, BeginCpp, Post, EnqueueTask, SetImmediate, SetTimeout, Begin,
           queues, channel
  <2> QED BY <1>1, <2>1, StackKept DEF Typed
<1>3. active' \in Int /\ delta' \in Int
  <2>1. Shared(timerRefs, timerRefs + 1) \in Int /\ Shared(immediateRefs, immediateRefs + 1) \in Int
    BY SharedType
  <2> QED BY <1>1, <2>1 DEF BeginAny, BeginWork, BeginCpp, Post, EnqueueTask, SetImmediate, SetTimeout,
                            IncrementTimerRef, IncrementImmediateRef, loop
<1>4. awake' \in BOOLEAN
  BY <1>1 DEF BeginAny, BeginWork, BeginCpp, Post, EnqueueTask, SetImmediate, SetTimeout, loop
<1>5. /\ thread' \in [Works -> Threads]
      /\ \A v \in Works : thread'[v] # "off" => Kind[v] \in {"work", "cpp"}
  BY <1>1 DEF BeginAny, BeginWork, BeginCpp, Post, EnqueueTask, SetImmediate, SetTimeout, Begin, Threads
<1>6. /\ clock' \in [Works -> {"off", "armed", "due"}]
      /\ \A v \in Works : clock'[v] # "off" => Kind[v] = "timer"
  BY <1>1 DEF BeginAny, BeginWork, BeginCpp, Post, EnqueueTask, SetImmediate, SetTimeout, Begin
<1>7. line' \in Seq(Works) /\ Of(line', {"work", "cpp", "post"})
  <2>1. CASE Post(w)
    <3>1. line' = Append(line, w) /\ Kind[w] \in {"work", "cpp", "post"}
      BY <2>1 DEF Post, Begin
    <3> QED BY <1>1, <3>1, Appended, OfAppend
  <2>2. CASE ~Post(w)
    <3>1. line' = line
      BY <2>2 DEF BeginAny, BeginWork, BeginCpp, EnqueueTask, SetImmediate, SetTimeout, queues, channel
    <3> QED BY <1>1, <3>1
  <2> QED BY <2>1, <2>2
<1>8. tasks' \in Fifos(Works) /\ Of(tasks'.items, {"work", "cpp", "post", "local"})
  <2>1. CASE EnqueueTask(w)
    <3>1. tasks' = Push(tasks, w) /\ Kind[w] \in {"work", "cpp", "post", "local"}
      BY <2>1 DEF EnqueueTask, Begin
    <3>2. tasks \in Fifos(Works)
      BY <1>1
    <3>3. Push(tasks, w) \in Fifos(Works) /\ Push(tasks, w).items = Append(tasks.items, w)
      BY <3>2, Pushes
    <3> QED BY <1>1, <3>1, <3>3, OfAppend
  <2>2. CASE ~EnqueueTask(w)
    <3>1. tasks' = tasks
      BY <2>2 DEF BeginAny, BeginWork, BeginCpp, Post, SetImmediate, SetTimeout, queues
    <3> QED BY <1>1, <3>1
  <2> QED BY <2>1, <2>2
<1>9. immediates' \in Seq(Works) /\ Of(immediates', {"immediate"})
  <2>1. CASE SetImmediate(w)
    <3>1. immediates' = Append(immediates, w) /\ Kind[w] \in {"immediate"}
      BY <2>1 DEF SetImmediate, Begin
    <3> QED BY <1>1, <3>1, Appended, OfAppend
  <2>2. CASE ~SetImmediate(w)
    <3>1. immediates' = immediates
      BY <2>2 DEF BeginAny, BeginWork, BeginCpp, Post, EnqueueTask, SetTimeout, queues
    <3> QED BY <1>1, <3>1
  <2> QED BY <2>1, <2>2
<1>10. (tasks \in Fifos(Works))' /\ Of(line, {"work", "cpp", "post"})'
       /\ Of(tasks.items, {"work", "cpp", "post", "local"})' /\ Of(immediates, {"immediate"})'
  BY <1>7, <1>8, <1>9 DEF Of
<1> QED BY <1>2, <1>3, <1>4, <1>5, <1>6, <1>7, <1>9, <1>10 DEF Typed

LEMMA TypedWait ==
    ASSUME Typed, NEW w \in Works, WaitForPromise(w)
    PROVE  Typed'
<1>1. /\ StackOK /\ At("js") /\ May("wait")
      /\ Kind[w] = "immediate" => "settle" \in Immediates
      /\ stack' = <<FrameOf("counts", "wait", w)>> \o stack
  BY DEF WaitForPromise, Typed
<1>2. StackOK'
  BY <1>1, StackPush
<1>3. UNCHANGED <<channel, tasks, immediates, active, delta, awake, thread, clock, begun, ran>>
  BY DEF WaitForPromise, queues, loop, history
<1>4. active' \in Int /\ delta' \in Int
  BY <1>3 DEF Typed
<1>5. awake' \in BOOLEAN
  BY <1>3 DEF Typed
<1> QED BY <1>2, <1>3, <1>4, <1>5, TypedKept

LEMMA TypedTurn ==
    ASSUME Typed, Turn
    PROVE  Typed'
<1>1. /\ StackOK /\ active \in Int /\ delta \in Int /\ awake \in BOOLEAN /\ ran \subseteq Works
      /\ line \in Seq(Works) /\ unlinked \subseteq Works /\ begun \subseteq Works
      /\ tasks \in Fifos(Works) /\ Of(tasks.items, {"work", "cpp", "post", "local"})
      /\ immediates \in Seq(Works) /\ Of(immediates, {"immediate"})
      /\ thread \in [Works -> Threads] /\ clock \in [Works -> {"off", "armed", "due"}]
      /\ \A v \in Works : thread[v] # "off" => Kind[v] \in {"work", "cpp"}
      /\ \A v \in Works : clock[v] # "off" => Kind[v] = "timer"
      /\ Of(line, {"work", "cpp", "post"})
  BY DEF Typed
<1>2. CASE Return
  <2>1. StackOK'
    BY <1>1, <1>2, ReturnTop, StackKept
  <2>2. /\ UNCHANGED <<channel, tasks, immediates, thread, clock, begun, ran>>
        /\ active' \in Int /\ delta' \in Int
    <3>1. Shared(timerRefs, timerRefs + -1) \in Int
      BY SharedType
    <3> QED BY <1>1, <1>2, <3>1 DEF Return, IncrementTimerRef, queues, history
  <2>3. awake' \in BOOLEAN
    BY <1>1, <1>2 DEF Return
  <2> QED BY <2>1, <2>2, <2>3, TypedKept
<1>3. CASE UpdateCounts
  <2>1. StackOK'
    BY <1>1, <1>3, CountTop, StackKept
  <2>2. /\ UNCHANGED <<channel, tasks, immediates, thread, clock, begun, ran>>
        /\ active' \in Int /\ delta' \in Int
    BY <1>1, <1>3 DEF UpdateCounts, queues, history
  <2>3. awake' \in BOOLEAN
    BY <1>1, <1>3 DEF UpdateCounts
  <2> QED BY <2>1, <2>2, <2>3, TypedKept
<1>4. ASSUME NEW k \in 0..Len(line), TakeBatch(k) PROVE Typed'
  <2>1. /\ StackOK' /\ tasks' \in Fifos(Works) /\ Of(tasks'.items, {"work", "cpp", "post", "local"})
        /\ line' \in Seq(Works) /\ Of(line', {"work", "cpp", "post"}) /\ unlinked' = unlinked
    BY <1>1, <1>4, TakeTop, StackKept
  <2>2. UNCHANGED <<immediates, active, delta, thread, clock, begun, ran>>
    BY <1>4 DEF TakeBatch, loop, history
  <2>3. awake' \in BOOLEAN
    BY <1>1, <1>4 DEF TakeBatch, loop
  <2>4. (tasks \in Fifos(Works))' /\ Of(line, {"work", "cpp", "post"})'
        /\ Of(tasks.items, {"work", "cpp", "post", "local"})' /\ Of(immediates, {"immediate"})'
    BY <1>1, <2>1, <2>2 DEF Of
  <2> QED BY <1>1, <2>1, <2>2, <2>3, <2>4 DEF Typed
<1>5. CASE RunTask
  <2>1. /\ StackOK' /\ tasks' \in Fifos(Works) /\ Of(tasks'.items, {"work", "cpp", "post", "local"})
        /\ Head(tasks.items) \in Works
    BY <1>1, <1>5, RunTop, StackKept
  <2>2. /\ UNCHANGED <<line, unlinked, immediates, delta, thread, clock, begun>>
        /\ active' \in Int /\ ran' = ran \cup {Head(tasks.items)}
    BY <1>1, <1>5 DEF RunTask, Ran, channel
  <2>3. awake' \in BOOLEAN
    BY <1>1, <1>5 DEF RunTask
  <2>4. (tasks \in Fifos(Works))' /\ Of(line, {"work", "cpp", "post"})'
        /\ Of(tasks.items, {"work", "cpp", "post", "local"})' /\ Of(immediates, {"immediate"})'
    BY <1>1, <2>1, <2>2 DEF Of
  <2> QED BY <1>1, <2>1, <2>2, <2>3, <2>4 DEF Typed
<1>6. CASE RanTasks
  <2>1. StackOK' /\ tasks' \in Fifos(Works) /\ tasks'.items = <<>>
    BY <1>1, <1>6, RanTop, StackKept
  <2>2. UNCHANGED <<line, unlinked, immediates, active, delta, thread, clock, begun, ran>>
    BY <1>6 DEF RanTasks, channel, loop, history
  <2>3. awake' \in BOOLEAN
    BY <1>1, <1>6 DEF RanTasks, loop
  <2>4. Of(tasks'.items, {"work", "cpp", "post", "local"})
    BY <2>1 DEF Of
  <2>5. (tasks \in Fifos(Works))' /\ Of(line, {"work", "cpp", "post"})'
        /\ Of(tasks.items, {"work", "cpp", "post", "local"})' /\ Of(immediates, {"immediate"})'
    BY <1>1, <2>1, <2>2, <2>4 DEF Of
  <2> QED BY <1>1, <2>1, <2>2, <2>3, <2>5 DEF Typed
<1>7. CASE Ticked
  <2>1. StackOK' /\ (immediates' = immediates \/ immediates' = <<>>)
    BY <1>1, <1>7, TickedTop, StackKept
  <2>2. UNCHANGED <<line, unlinked, tasks, active, delta, thread, clock, begun, ran>>
    BY <1>7 DEF Ticked, channel, loop, history
  <2>3. awake' \in BOOLEAN
    BY <1>1, <1>7 DEF Ticked, loop
  <2>4. immediates' \in Seq(Works) /\ Of(immediates', {"immediate"})
    <3>1. PICK q : q = immediates'
      OBVIOUS
    <3>2. CASE q = immediates
      BY <1>1, <3>1, <3>2
    <3>3. CASE q = <<>>
      <4>1. DOMAIN q = {} /\ q \in Seq(Works)
        BY <3>3
      <4> QED BY <3>1, <4>1 DEF Of
    <3> QED BY <2>1, <3>1, <3>2, <3>3
  <2>5. (tasks \in Fifos(Works))' /\ Of(line, {"work", "cpp", "post"})'
        /\ Of(tasks.items, {"work", "cpp", "post", "local"})' /\ Of(immediates, {"immediate"})'
    BY <1>1, <2>2, <2>4 DEF Of
  <2> QED BY <1>1, <2>1, <2>2, <2>3, <2>4, <2>5 DEF Typed
<1>8. CASE RunImmediate
  <2>1. StackOK' /\ Head(Top.todo) \in Works
    BY <1>1, <1>8, RunImmediateTop, StackKept
  <2>2. /\ UNCHANGED <<line, unlinked, tasks, immediates, delta, thread, clock, begun>>
        /\ ran' = ran \cup {Head(Top.todo)} /\ active' \in Int
    <3>1. Shared(immediateRefs, immediateRefs + -1) \in Int
      BY SharedType
    <3> QED BY <1>1, <1>8, <3>1 DEF RunImmediate, IncrementImmediateRef, queues, channel
  <2>3. awake' \in BOOLEAN
    BY <1>1, <1>8 DEF RunImmediate
  <2>4. (tasks \in Fifos(Works))' /\ Of(line, {"work", "cpp", "post"})'
        /\ Of(tasks.items, {"work", "cpp", "post", "local"})' /\ Of(immediates, {"immediate"})'
    BY <1>1, <2>2 DEF Of
  <2> QED BY <1>1, <2>1, <2>2, <2>3, <2>4 DEF Typed
<1>9. CASE RanImmediates
  <2>1. StackOK'
    BY <1>1, <1>9, RanImmediatesTop, StackKept
  <2>2. /\ UNCHANGED <<channel, tasks, immediates, thread, clock, begun, ran>>
        /\ active' \in Int /\ delta' \in Int
    BY <1>1, <1>9 DEF RanImmediates, queues, history
  <2>3. awake' \in BOOLEAN
    BY <1>1, <1>9 DEF RanImmediates
  <2> QED BY <2>1, <2>2, <2>3, TypedKept
<1>10. CASE Poll
  <2>1. /\ StackOK' /\ clock' \in [Works -> {"off", "armed", "due"}]
        /\ \A v \in Works : clock'[v] # "off" => Kind[v] = "timer"
    BY <1>1, <1>10, PollTop, StackKept
  <2>2. UNCHANGED <<line, unlinked, tasks, immediates, active, delta, thread, begun, ran>>
    BY <1>10 DEF Poll, queues, channel, history
  <2>3. awake' \in BOOLEAN
    BY <1>10 DEF Poll
  <2>4. (tasks \in Fifos(Works))' /\ Of(line, {"work", "cpp", "post"})'
        /\ Of(tasks.items, {"work", "cpp", "post", "local"})' /\ Of(immediates, {"immediate"})'
    BY <1>1, <2>2 DEF Of
  <2> QED BY <1>1, <2>1, <2>2, <2>3, <2>4 DEF Typed
<1>11. ASSUME NEW w \in Works, Fire(w) PROVE Typed'
  <2>1. StackOK'
    BY <1>1, <1>11, FireTop, StackKept
  <2>2. /\ UNCHANGED <<line, unlinked, tasks, immediates, active, delta, thread, begun>>
        /\ ran' = ran \cup {w} /\ clock' = [clock EXCEPT ![w] = "off"]
    BY <1>11 DEF Fire, queues, channel, loop
  <2>3. /\ clock' \in [Works -> {"off", "armed", "due"}]
        /\ \A v \in Works : clock'[v] # "off" => Kind[v] = "timer"
    BY <1>1, <2>2
  <2>4. awake' \in BOOLEAN
    BY <1>1, <1>11 DEF Fire, loop
  <2>5. (tasks \in Fifos(Works))' /\ Of(line, {"work", "cpp", "post"})'
        /\ Of(tasks.items, {"work", "cpp", "post", "local"})' /\ Of(immediates, {"immediate"})'
    BY <1>1, <2>2 DEF Of
  <2> QED BY <1>1, <2>1, <2>2, <2>3, <2>4, <2>5 DEF Typed
<1>12. CASE Fired \/ Start \/ CheckAlive
  <2>1. StackOK'
    BY <1>1, <1>12, FiredTop, StartTop, CheckAliveTop, StackKept
  <2>2. /\ UNCHANGED <<channel, tasks, immediates, thread, clock, begun, ran>>
        /\ active' \in Int /\ delta' \in Int
    BY <1>1, <1>12 DEF Fired, Start, CheckAlive, queues, loop, history
  <2>3. awake' \in BOOLEAN
    BY <1>1, <1>12 DEF Fired, Start, CheckAlive, loop
  <2> QED BY <2>1, <2>2, <2>3, TypedKept
<1> QED BY <1>2, <1>3, <1>4, <1>5, <1>6, <1>7, <1>8, <1>9, <1>10, <1>11, <1>12 DEF Turn

LEMMA TypedStep == Typed /\ [Next]_vars => Typed'
<1> SUFFICES ASSUME Typed, [Next]_vars PROVE Typed'
  OBVIOUS
<1>1. ASSUME NEW w \in Works, BeginAny(w) \/ WaitForPromise(w) \/ Pool(w) PROVE Typed'
  BY <1>1, TypedBegin, TypedWait, TypedPool
<1>2. CASE Turn
  BY <1>2, TypedTurn
<1>3. CASE UNCHANGED vars
  <2>1. UNCHANGED <<line, unlinked, tasks, immediates, active, delta, awake, thread, clock, stack, begun, ran>>
    BY <1>3 DEF vars, queues, channel, loop, history
  <2>2. StackOK'
    BY <2>1, StackKept DEF Typed
  <2>3. active' \in Int /\ delta' \in Int
    BY <2>1 DEF Typed
  <2>4. awake' \in BOOLEAN
    BY <2>1 DEF Typed
  <2> QED BY <2>1, <2>2, <2>3, <2>4, TypedKept DEF channel
<1> QED BY <1>1, <1>2, <1>3 DEF Next

-----------------------------------------------------------------------------
(* The loop never sleeps on work.                                          *)

Woken == awake \/ \E w \in Works : thread[w] \in {"swapped", "linked", "unrefed"}

Later(f) == f.pc \in {"immediates", "poll"} \/ (f.pc = "js" /\ f.from = "immediates")
Late(f)  == f.pc = "ticked" \/ Later(f)

\* What the loop may rely on when it last looked at the channel and found
\* nothing: whatever came since has woken it or is about to.
QuietTop(f) ==
    /\ f.pc = "take" => f.n <= Len(line) /\ (Len(line) > f.n \/ delta # 0 => Woken)
    /\ (f.pc = "run" /\ ~f.some) \/ Late(f) => (line # <<>> \/ delta # 0 => Woken)
    /\ Late(f) => tasks.items = <<>>
    /\ Later(f) => f.wait \notin ran
    /\ f.pc = "poll" => (immediates # <<>> => awake)

Threaded ==
    /\ \A w \in unlinked : thread[w] = "swapped"
    /\ \A w \in Works : thread[w] # "off" => w \in begun

Quiet == Threaded /\ QuietTop(Top)

LEMMA QuietInit == Init => Quiet
<1> SUFFICES ASSUME Init PROVE Quiet
  OBVIOUS
<1>1. Typed
  BY TypedInit
<1>2. PICK f : f = FrameOf("js", "first", NoWork)
  OBVIOUS
<1>3. f.pc = "js" /\ f.from = "entry"
  BY <1>2 DEF FrameOf
<1>4. Top = f
  BY <1>2 DEF Init, Top
<1>5. QuietTop(Top)
  BY <1>3, <1>4 DEF QuietTop, Late, Later
<1>6. Threaded
  BY DEF Threaded, Init
<1> QED BY <1>5, <1>6 DEF Quiet

LEMMA QuietPool ==
    ASSUME Typed, Quiet, NEW w \in Works, Pool(w)
    PROVE  Quiet'
<1>1. /\ thread \in [Works -> Threads] /\ line \in Seq(Works) /\ unlinked \subseteq Works
      /\ \A v \in unlinked : thread[v] = "swapped"
      /\ \A v \in Works : thread[v] # "off" => v \in begun
  BY DEF Typed, Quiet, Threaded
<1>2. UNCHANGED <<tasks, immediates, stack, begun, ran>>
  BY DEF Pool, Finish, LinkResult, WakeLoop, UnrefConcurrently, WakeUnrefed, loop, queues, history
<1>3. Woken'
  BY <1>1 DEF Pool, Finish, LinkResult, WakeLoop, UnrefConcurrently, WakeUnrefed, Woken
<1>4. awake => awake'
  BY DEF Pool, Finish, LinkResult, WakeLoop, UnrefConcurrently, WakeUnrefed, loop
<1>5. Threaded'
  <2>1. CASE Finish(w)
    <3>1. unlinked' = unlinked \cup {w} /\ thread' = [thread EXCEPT ![w] = "swapped"]
      BY <1>1, <2>1 DEF Finish, Channel!Send
    <3> QED BY <1>1, <1>2, <2>1, <3>1 DEF Finish, Threaded
  <2>2. CASE LinkResult(w)
    BY <1>1, <1>2, <2>2 DEF LinkResult, Channel!Link, Threaded
  <2>3. CASE WakeLoop(w) \/ UnrefConcurrently(w) \/ WakeUnrefed(w)
    BY <1>1, <1>2, <2>3 DEF WakeLoop, UnrefConcurrently, WakeUnrefed, queues, channel, Threaded
  <2> QED BY <2>1, <2>2, <2>3 DEF Pool
<1>6. Len(line') >= Len(line) /\ Len(line) \in Nat /\ Len(line') \in Nat
  <2>1. CASE Finish(w)
    BY <1>1, <2>1 DEF Finish, Channel!Send
  <2>2. CASE ~Finish(w)
    <3>1. line' = line
      BY <2>2 DEF Pool, LinkResult, Channel!Link, WakeLoop, UnrefConcurrently, WakeUnrefed, queues, channel
    <3> QED BY <1>1, <3>1
  <2> QED BY <2>1, <2>2
<1>7. Top' = Top
  BY <1>2 DEF Top
<1>8. QuietTop(Top)'
  <2>1. Top.pc = "take" => Top.n <= Len(line)
    BY DEF Quiet, QuietTop
  <2>2. Top.n \in Nat
    BY TopOK DEF Typed, Frame
  <2>3. Top.pc = "take" => Top.n <= Len(line')
    BY <1>6, <2>1, <2>2
  <2>4. /\ Late(Top) => tasks.items = <<>>
        /\ Later(Top) => Top.wait \notin ran
        /\ Top.pc = "poll" => (immediates # <<>> => awake)
    BY DEF Quiet, QuietTop
  <2>5. (Late(Top)' <=> Late(Top)) /\ (Later(Top)' <=> Later(Top))
    BY <1>7 DEF Late, Later
  <2> QED BY <1>2, <1>3, <1>4, <1>7, <2>3, <2>4, <2>5 DEF QuietTop
<1> QED BY <1>5, <1>8 DEF Quiet

LEMMA QuietBegin ==
    ASSUME Typed, Quiet, Immediates = {}, NEW w \in Works, BeginAny(w)
    PROVE  Quiet'
<1>1. /\ thread \in [Works -> Threads] /\ unlinked \subseteq Works
      /\ \A v \in unlinked : thread[v] = "swapped"
      /\ \A v \in Works : thread[v] # "off" => v \in begun
  BY DEF Typed, Quiet, Threaded
<1>2. /\ UNCHANGED <<stack, unlinked, ran>> /\ begun' = begun \cup {w} /\ w \notin begun
      /\ Top.pc = "js"
  BY DEF BeginAny, BeginWork, BeginCpp, Post, EnqueueTask, SetImmediate, SetTimeout, Begin, At,
         queues, channel
<1>3. thread' = thread \/ thread' = [thread EXCEPT ![w] = "pool"]
  BY DEF BeginAny, BeginWork, BeginCpp, Post, EnqueueTask, SetImmediate, SetTimeout
<1>4. thread[w] = "off"
  BY <1>1, <1>2
<1>5. Threaded'
  BY <1>1, <1>2, <1>3, <1>4 DEF Threaded
<1>6. awake => awake'
  BY DEF BeginAny, BeginWork, BeginCpp, Post, EnqueueTask, SetImmediate, SetTimeout, loop
<1>7. Woken => Woken'
  BY <1>1, <1>3, <1>4, <1>6 DEF Woken
<1>8. Woken' \/ (line' = line /\ delta' = delta)
  BY DEF BeginAny, BeginWork, BeginCpp, Post, EnqueueTask, SetImmediate, SetTimeout, Woken,
         loop, queues, channel
<1>9. Later(Top) => tasks' = tasks
  BY <1>2 DEF BeginAny, BeginWork, BeginCpp, Post, EnqueueTask, SetImmediate, SetTimeout,
              Later, May, queues
<1>10. Top' = Top /\ (Late(Top) <=> Later(Top))
  BY <1>2 DEF Top, Late
<1>11. QuietTop(Top)'
  <2>1. /\ Late(Top) => (line # <<>> \/ delta # 0 => Woken)
        /\ Late(Top) => tasks.items = <<>>
        /\ Later(Top) => Top.wait \notin ran
    BY DEF Quiet, QuietTop
  <2>2. (Late(Top)' <=> Late(Top)) /\ (Later(Top)' <=> Later(Top))
    BY <1>10 DEF Late, Later
  <2>3. Late(Top) => (line' # <<>> \/ delta' # 0 => Woken')
    BY <1>7, <1>8, <2>1
  <2> QED BY <1>2, <1>9, <1>10, <2>1, <2>2, <2>3 DEF QuietTop
<1> QED BY <1>5, <1>11 DEF Quiet

\* Any other frame on top has nothing to rely on.
Busy(f) == f.pc \notin {"take", "run", "ticked", "immediates", "poll"} /\ (f.pc = "js" => f.from # "immediates")

LEMMA QuietBusy ==
    ASSUME Quiet, UNCHANGED <<unlinked, thread, begun>>, Busy(Head(stack'))
    PROVE  Quiet'
<1>1. PICK g : g = Head(stack')
  OBVIOUS
<1>2. Top' = g /\ Busy(g)
  BY <1>1 DEF Top
<1>3. QuietTop(Top)'
  BY <1>2 DEF QuietTop, Late, Later, Busy
<1>4. Threaded'
  BY DEF Quiet, Threaded
<1> QED BY <1>3, <1>4 DEF Quiet

LEMMA QuietPop ==
    ASSUME Typed, Quiet, Immediates = {}, UNCHANGED <<unlinked, thread, begun>>, Pop
    PROVE  Quiet'
<1>1. Head(stack') = stack[2] /\ 2 \in 2..Len(stack)
  BY StackPop, TopOK DEF Pop, Typed
<1>2. Busy(stack[2])
  BY <1>1 DEF Typed, StackOK, Busy
<1> QED BY <1>1, <1>2, QuietBusy

LEMMA TopIs ==
    ASSUME Typed, NEW g, NewTop(g)
    PROVE  Head(stack') = g
BY StackSet DEF NewTop, Typed

LEMMA QuietTurn ==
    ASSUME Typed, Quiet, Immediates = {}, Turn
    PROVE  Quiet'
<1>1. /\ line \in Seq(Works) /\ Len(line) \in Nat /\ (Len(line) = 0 <=> line = <<>>)
      /\ unlinked \subseteq Works /\ thread \in [Works -> Threads] /\ ran \subseteq Works
      /\ FrameOK(Top) /\ Top \in Frame
  BY TopOK DEF Typed
<1>2. UNCHANGED <<thread, begun>>
  BY DEF Turn, Return, UpdateCounts, TakeBatch, RunTask, RanTasks, Ticked, RunImmediate,
         RanImmediates, Poll, Fire, Fired, Start, CheckAlive, history
<1>3. unlinked' = unlinked
  BY TakeTop DEF Turn, Return, UpdateCounts, RunTask, RanTasks, Ticked, RunImmediate,
         RanImmediates, Poll, Fire, Fired, Start, CheckAlive, queues, channel
<1>4. Threaded'
  BY <1>2, <1>3 DEF Quiet, Threaded
<1>5. CASE Return
  <2>1. PICK g : /\ NewTop(g) /\ g.wait = Top.wait /\ g.some = (Top.from = "run")
                 /\ g.pc = CASE Top.from = "entry"  -> "start"
                             [] Top.from = "before" -> "alive"
                             [] OTHER               -> Top.from
    BY <1>5, ReturnTop
  <2>2. Top' = g /\ Head(stack') = g
    BY <2>1, TopIs DEF Top
  <2>3. Top.pc = "js" /\ Top.from \in {"entry", "run", "immediates", "timers", "before"}
    BY <1>1, <1>5 DEF Return, At, Frame
  <2>4. CASE Top.from \in {"entry", "before", "timers"}
    <3>1. g.pc \in {"start", "alive", "timers"}
      BY <2>1, <2>3, <2>4
    <3> QED BY <1>2, <1>3, <2>2, <3>1, QuietBusy DEF Busy
  <2>5. CASE Top.from = "run"
    <3>1. g.pc = "run" /\ g.some
      BY <2>1, <2>5
    <3>2. QuietTop(Top)'
      BY <2>2, <3>1 DEF QuietTop, Late, Later
    <3> QED BY <1>4, <3>2 DEF Quiet
  <2>6. CASE Top.from = "immediates"
    <3>1. g.pc = "immediates" /\ Later(Top) /\ Late(Top)
      BY <2>1, <2>3, <2>6 DEF Later, Late
    <3>2. UNCHANGED <<line, delta, awake, tasks, ran>>
      BY <1>5 DEF Return, queues, channel, history
    <3>3. Woken' <=> Woken
      BY <1>2, <3>2 DEF Woken
    <3>4. /\ line # <<>> \/ delta # 0 => Woken
          /\ tasks.items = <<>> /\ Top.wait \notin ran
      BY <3>1 DEF Quiet, QuietTop
    <3>5. QuietTop(Top)'
      BY <2>1, <2>2, <3>1, <3>2, <3>3, <3>4 DEF QuietTop
    <3> QED BY <1>4, <3>5 DEF Quiet
  <2> QED BY <2>3, <2>4, <2>5, <2>6
<1>6. CASE UpdateCounts
  <2>1. PICK g : /\ NewTop(g) /\ g.pc = "take" /\ g.n \in 0..Len(line)
                 /\ g.n < Len(line) => Channel!Hidden # {}
    BY <1>6, CountTop
  <2>2. Top' = g
    BY <2>1, TopIs DEF Top
  <2>3. UNCHANGED <<line, awake>> /\ delta' = 0
    BY <1>6 DEF UpdateCounts, queues, channel
  <2>4. Channel!Hidden # {} => Woken'
    <3>1. ASSUME NEW i \in Channel!Hidden PROVE Woken'
      <4>1. PICK j \in 1..i : line[j] \in unlinked
        BY DEF Channel!Hidden
      <4>2. thread[line[j]] = "swapped" /\ line[j] \in Works
        BY <1>1, <4>1 DEF Quiet, Threaded
      <4> QED BY <1>2, <4>2 DEF Woken
    <3> QED BY <3>1
  <2>5. g.n <= Len(line) /\ (Len(line) > g.n => Woken')
    BY <1>1, <2>1, <2>4
  <2>6. QuietTop(Top)'
    BY <2>1, <2>2, <2>3, <2>5 DEF QuietTop, Late, Later
  <2> QED BY <1>4, <2>6 DEF Quiet
<1>7. ASSUME NEW k \in 0..Len(line), TakeBatch(k) PROVE Quiet'
  <2>1. PICK g : /\ NewTop(g) /\ g.pc \in {"counts", "run", "alive"}
                 /\ line' = SubSeq(line, k + 1, Len(line))
    BY <1>7, TakeTop
  <2>2. Top' = g
    BY <2>1, TopIs DEF Top
  <2>3. UNCHANGED <<awake, delta>>
    BY <1>7 DEF TakeBatch, loop
  <2>4. Woken' <=> Woken
    BY <1>2, <2>3 DEF Woken
  <2>5. /\ Top.pc = "take" /\ Top.n \in Nat /\ Top.n <= Len(line)
        /\ Len(line) > Top.n \/ delta # 0 => Woken
    BY <1>1, <1>7 DEF TakeBatch, At, Quiet, QuietTop, Frame
  <2>6. Len(line) = Top.n => line' = <<>>
    <3>1. ASSUME Len(line) = Top.n PROVE k = Len(line)
      <4>1. CASE Top.n > 0
        BY <1>7, <3>1, <4>1 DEF TakeBatch, Taken
      <4>2. CASE Top.n = 0
        BY <1>7, <3>1, <4>2 DEF TakeBatch
      <4> QED BY <2>5, <4>1, <4>2
    <3>2. SubSeq(line, Len(line) + 1, Len(line)) = <<>>
      BY <1>1
    <3> QED BY <2>1, <3>1, <3>2
  <2>7. line' # <<>> \/ delta' # 0 => Woken'
    BY <1>1, <2>3, <2>4, <2>5, <2>6
  <2>8. QuietTop(Top)'
    BY <2>1, <2>2, <2>7 DEF QuietTop, Late, Later
  <2> QED BY <1>4, <2>8 DEF Quiet
<1>8. CASE RunTask
  <2>1. PICK g : NewTop(g) /\ g.pc = "js" /\ g.from = "run"
    BY <1>8, RunTop
  <2> QED BY <1>2, <1>3, <2>1, TopIs, QuietBusy DEF Busy
<1>9. CASE RanTasks
  <2>1. PICK g : /\ NewTop(g) /\ g.pc \in {"counts", "ticked"} /\ (g.pc = "ticked" => ~Top.some)
                 /\ tasks'.items = <<>>
    BY <1>9, RanTop
  <2>2. Top' = g
    BY <2>1, TopIs DEF Top
  <2>3. UNCHANGED <<line, delta, awake>> /\ Top.pc = "run"
    BY <1>9 DEF RanTasks, At, channel, loop
  <2>4. Woken' <=> Woken
    BY <1>2, <2>3 DEF Woken
  <2>5. g.pc = "ticked" => (line # <<>> \/ delta # 0 => Woken)
    BY <2>1, <2>3 DEF Quiet, QuietTop
  <2>6. QuietTop(Top)'
    BY <2>1, <2>2, <2>3, <2>4, <2>5 DEF QuietTop, Late, Later
  <2> QED BY <1>4, <2>6 DEF Quiet
<1>10. CASE Ticked
  <2>1. CASE Pop
    BY <1>2, <1>3, <2>1, QuietPop
  <2>2. CASE \E g : NewTop(g) /\ g.pc = "alive"
    BY <1>2, <1>3, <2>2, TopIs, QuietBusy DEF Busy
  <2>3. CASE \E g : NewTop(g) /\ g.pc = "immediates" /\ g.wait \notin ran
    <3>1. PICK g : NewTop(g) /\ g.pc = "immediates" /\ g.wait \notin ran
      BY <2>3
    <3>2. Top' = g
      BY <3>1, TopIs DEF Top
    <3>3. UNCHANGED <<line, delta, awake, tasks, ran>> /\ Late(Top)
      BY <1>10 DEF Ticked, At, Late, channel, loop, history
    <3>4. Woken' <=> Woken
      BY <1>2, <3>3 DEF Woken
    <3>5. tasks.items = <<>> /\ (line # <<>> \/ delta # 0 => Woken)
      BY <3>3 DEF Quiet, QuietTop
    <3>6. QuietTop(Top)'
      BY <3>1, <3>2, <3>3, <3>4, <3>5 DEF QuietTop
    <3> QED BY <1>4, <3>6 DEF Quiet
  <2> QED BY <1>10, <2>1, <2>2, <2>3, TickedTop
<1>11. CASE RunImmediate
  <2>1. PICK g : /\ NewTop(g) /\ g.pc = "js" /\ g.from = "immediates" /\ g.wait = Top.wait
    BY <1>11, RunImmediateTop
  <2>2. Top' = g
    BY <2>1, TopIs DEF Top
  <2>3. UNCHANGED <<line, delta, awake, tasks>> /\ ran' = ran \cup {Head(Top.todo)} /\ Late(Top) /\ Later(Top)
    BY <1>11 DEF RunImmediate, At, Late, Later, queues, channel, loop
  <2>4. Woken' <=> Woken
    BY <1>2, <2>3 DEF Woken
  <2>5. /\ tasks.items = <<>> /\ (line # <<>> \/ delta # 0 => Woken)
        /\ Top.wait \notin ran
    BY <2>3 DEF Quiet, QuietTop
  <2>6. Kind[Head(Top.todo)] = "immediate" /\ Head(Top.todo) \in Works
    BY <1>11, RunImmediateTop
  <2>7. Top.wait # Head(Top.todo)
    BY <1>1, <2>6 DEF FrameOK
  <2>8. QuietTop(Top)'
    BY <2>1, <2>2, <2>3, <2>4, <2>5, <2>7 DEF QuietTop
  <2> QED BY <1>4, <2>8 DEF Quiet
<1>12. CASE RanImmediates
  <2>1. PICK g : NewTop(g) /\ g.pc = "poll" /\ g.wait = Top.wait
    BY <1>12, RanImmediatesTop
  <2>2. Top' = g
    BY <2>1, TopIs DEF Top
  <2>3. /\ UNCHANGED <<line, delta, tasks, immediates, ran>> /\ awake' = (awake \/ immediates # <<>>)
        /\ Late(Top) /\ Later(Top)
    BY <1>12 DEF RanImmediates, At, Late, Later, queues, channel, history
  <2>4. Woken => Woken'
    BY <1>2, <2>3 DEF Woken
  <2>5. /\ tasks.items = <<>> /\ (line # <<>> \/ delta # 0 => Woken)
        /\ Top.wait \notin ran
    BY <2>3 DEF Quiet, QuietTop
  <2>6. immediates' # <<>> => awake'
    BY <2>3
  <2>7. QuietTop(Top)'
    BY <2>1, <2>2, <2>3, <2>4, <2>5, <2>6 DEF QuietTop
  <2> QED BY <1>4, <2>7 DEF Quiet
<1>13. CASE Poll
  BY <1>2, <1>3, <1>13, PollTop, TopIs, QuietBusy DEF Busy
<1>14. ASSUME NEW w \in Works, Fire(w) PROVE Quiet'
  BY <1>2, <1>3, <1>14, FireTop, TopIs, QuietBusy DEF Busy
<1>15. CASE Fired
  BY <1>2, <1>3, <1>15, FiredTop, TopIs, QuietBusy, QuietPop DEF Busy
<1>16. CASE Start
  BY <1>2, <1>3, <1>16, StartTop, TopIs, QuietBusy DEF Busy
<1>17. CASE CheckAlive
  BY <1>2, <1>3, <1>17, CheckAliveTop, TopIs, QuietBusy DEF Busy
<1> QED BY <1>5, <1>6, <1>7, <1>8, <1>9, <1>10, <1>11, <1>12, <1>13, <1>14, <1>15, <1>16, <1>17 DEF Turn

LEMMA QuietStep == ASSUME Immediates = {} PROVE Typed /\ Quiet /\ [Next]_vars => Quiet'
<1> SUFFICES ASSUME Typed, Quiet, [Next]_vars PROVE Quiet'
  OBVIOUS
<1>1. ASSUME NEW w \in Works, BeginAny(w) PROVE Quiet'
  BY <1>1, QuietBegin
<1>2. ASSUME NEW w \in Works, WaitForPromise(w) PROVE Quiet'
  <2>1. UNCHANGED <<unlinked, thread, begun>>
    BY <1>2 DEF WaitForPromise, queues, channel, history
  <2>2. Head(stack').pc = "counts"
    BY <1>2, StackPush DEF WaitForPromise, Typed
  <2> QED BY <2>1, <2>2, QuietBusy DEF Busy
<1>3. ASSUME NEW w \in Works, Pool(w) PROVE Quiet'
  BY <1>3, QuietPool
<1>4. CASE Turn
  BY <1>4, QuietTurn
<1>5. CASE UNCHANGED vars
  <2>1. UNCHANGED <<line, unlinked, tasks, immediates, delta, awake, thread, stack, begun, ran>>
    BY <1>5 DEF vars, queues, channel, loop, history
  <2>2. Top' = Top
    BY <2>1 DEF Top
  <2>3. QuietTop(Top)'
    BY <2>1, <2>2 DEF Quiet, QuietTop, Late, Later, Woken
  <2>4. Threaded'
    BY <2>1 DEF Quiet, Threaded
  <2> QED BY <2>3, <2>4 DEF Quiet
<1> QED BY <1>1, <1>2, <1>3, <1>4, <1>5 DEF Next

\* When the callbacks of immediates neither enqueue tasks, nor wait for
\* promises, nor settle those that others wait for, the loop never sleeps in
\* epoll_wait on a task, an immediate or a settled promise, nor on a result
\* that a thread has pushed unless that thread is about to wake it.
THEOREM NeverSleepsOnWork == ASSUME Immediates = {} PROVE Spec => []NoLostWakeup
<1>1. Init => Typed /\ Quiet
  BY TypedInit, QuietInit
<1>2. Typed /\ Quiet /\ [Next]_vars => (Typed /\ Quiet)'
  BY TypedStep, QuietStep
<1>3. Typed /\ Quiet => NoLostWakeup
  <2> SUFFICES ASSUME Typed, Quiet, Blocked PROVE NoLostWakeup
    BY DEF NoLostWakeup
  <2>1. Top.pc = "poll" /\ ~awake /\ Late(Top) /\ Later(Top)
    BY DEF Blocked, At, Late, Later
  <2>2. /\ tasks.items = <<>> /\ immediates = <<>> /\ Top.wait \notin ran
        /\ line # <<>> \/ delta # 0 => Woken
    BY <2>1 DEF Quiet, QuietTop
  <2>3. Count(tasks) = 0
    BY <2>2 DEF Count
  <2> QED BY <2>1, <2>2, <2>3 DEF NoLostWakeup, Woken
<1> QED BY <1>1, <1>2, <1>3, PTL DEF Spec

-----------------------------------------------------------------------------
(* The references are counted exactly.                                     *)

\* The timers whose callback runs, in one of the loops.
Firing == {w \in Works : Kind[w] = "timer" /\ \E i \in DOMAIN stack : stack[i].task = w}

\* No timer fires in two loops.
Firings ==
    \A i, j \in DOMAIN stack :
        /\ stack[i].task \in Works /\ Kind[stack[i].task] = "timer" => stack[i].task \in ran
        /\ /\ stack[i].task \in Works /\ Kind[stack[i].task] = "timer"
           /\ stack[i].task = stack[j].task
           => i = j

Due(w) == w \in begun /\ w \notin ran /\ thread[w] # "pool"

\* Nothing is twice in two sequences.
Apart(q, r) ==
    /\ \A i, j \in DOMAIN q : q[i] = q[j] => i = j
    /\ \A i, j \in DOMAIN r : r[i] = r[j] => i = j
    /\ \A i \in DOMAIN q, j \in DOMAIN r : q[i] # r[j]

\* Nothing is in the channel or among the tasks twice, or after its callback.
Once ==
    /\ Apart(tasks.items, line)
    /\ \A i \in DOMAIN tasks.items : Due(tasks.items[i])
    /\ \A j \in DOMAIN line : Due(line[j])

Marks ==
    \A w \in Works :
        /\ thread[w] # "off" => w \in begun
        /\ thread[w] = "pool" => w \notin ran
        /\ thread[w] \in {"pushed", "unrefed"} => Kind[w] = "cpp"
        /\ clock[w] # "off" => w \in begun /\ w \notin ran
        /\ w \in ran => w \in begun

Tallied == Firings /\ Once /\ Marks /\ IsFiniteSet(begun)

\* The immediates that wait for their callbacks, in the list of the loop and in
\* those that the loops on the stack took from it.
Lists(q, s) == [a \in 0..Len(s) |-> IF a = 0 THEN q ELSE s[a].todo]

\* No item is in L twice, and all of them are in A.
Parted(L, A) ==
    \A a, b \in DOMAIN L : \A i \in DOMAIN L[a], j \in DOMAIN L[b] :
        L[a][i] \in A /\ (L[a][i] = L[b][j] => a = b /\ i = j)

Awaited == {w \in begun : Kind[w] = "immediate" /\ w \notin ran}

Pending == Parted(Lists(immediates, stack), Awaited)

Needs(w) ==
    \/ Kind[w] \in {"work", "immediate"} /\ w \notin ran
    \/ Kind[w] = "cpp" /\ thread[w] \in {"pool", "swapped", "linked", "pushed"}
    \/ Kind[w] = "timer" /\ (w \notin ran \/ w \in Firing)

LEMMA NeedsAre ==
    ASSUME Typed
    PROVE  Referencing = {w \in begun : Needs(w)}
<1>1. begun \subseteq Works
  BY DEF Typed
<1>2. ASSUME NEW w \in Works
      PROVE  (w \notin ran \ {stack[i].task : i \in DOMAIN stack})
               <=> (w \notin ran \/ \E i \in DOMAIN stack : stack[i].task = w)
  OBVIOUS
<1> QED BY <1>1, <1>2 DEF Referencing, Needs, Firing

LEMMA NeedsAreNext ==
    ASSUME Typed'
    PROVE  Referencing' = {w \in begun' : Needs(w)'}
<1>1. begun' \subseteq Works
  BY DEF Typed
<1>2. ASSUME NEW w \in Works
      PROVE  (w \notin ran' \ {stack'[i].task : i \in DOMAIN stack'})
               <=> (w \notin ran' \/ \E i \in DOMAIN stack' : stack'[i].task = w)
  OBVIOUS
<1> QED BY <1>1, <1>2 DEF Referencing, Needs, Firing

\* What keeps the loop alive, of some kinds.
Refs(kinds) == {w \in Referencing : Kind[w] \in kinds}

LEMMA RefsFinite ==
    ASSUME Typed, Tallied, NEW kinds
    PROVE  /\ IsFiniteSet(Refs(kinds)) /\ References(kinds) = Cardinality(Refs(kinds))
           /\ References(kinds) \in Nat
           /\ References(kinds)' = Cardinality(Refs(kinds)')
<1>1. Refs(kinds) \subseteq begun /\ IsFiniteSet(begun)
  BY DEF Refs, Referencing, Tallied
<1>2. IsFiniteSet(Refs(kinds)) /\ Cardinality(Refs(kinds)) \in Nat
  BY <1>1, FS_Subset, FS_CardinalityType
<1>3. References(kinds)' = Cardinality(Refs(kinds)')
  BY DEF References, Refs
<1> QED BY <1>2, <1>3 DEF References, Refs

LEMMA RefsSame ==
    ASSUME Typed, Typed', Tallied, NEW kinds, Referencing' = Referencing
    PROVE  References(kinds)' = References(kinds)
<1>1. Refs(kinds)' = Refs(kinds)
  BY DEF Refs
<1> QED BY <1>1, RefsFinite

LEMMA RefsMore ==
    ASSUME Typed, Typed', Tallied, NEW kinds, NEW v,
           v \notin Referencing, Referencing' = Referencing \cup {v}
    PROVE  References(kinds)' = References(kinds) + IF Kind[v] \in kinds THEN 1 ELSE 0
<1>1. CASE Kind[v] \in kinds
  <2>1. Refs(kinds)' = Refs(kinds) \cup {v} /\ v \notin Refs(kinds)
    BY <1>1 DEF Refs
  <2>2. IsFiniteSet(Refs(kinds)) /\ Cardinality(Refs(kinds)') = References(kinds)'
        /\ References(kinds) = Cardinality(Refs(kinds))
    BY RefsFinite
  <2>3. Cardinality(Refs(kinds)') = Cardinality(Refs(kinds)) + 1
    BY <2>1, <2>2, FS_AddElement
  <2> QED BY <1>1, <2>2, <2>3
<1>2. CASE Kind[v] \notin kinds
  <2>1. Refs(kinds)' = Refs(kinds)
    BY <1>2 DEF Refs
  <2> QED BY <1>2, <2>1, RefsFinite
<1> QED BY <1>1, <1>2

LEMMA RefsLess ==
    ASSUME Typed, Typed', Tallied, NEW kinds, NEW v,
           v \in Referencing, Referencing' = Referencing \ {v}
    PROVE  /\ References(kinds)' = References(kinds) - IF Kind[v] \in kinds THEN 1 ELSE 0
           /\ Kind[v] \in kinds => References(kinds) > 0
<1>1. CASE Kind[v] \in kinds
  <2>1. Refs(kinds)' = Refs(kinds) \ {v} /\ v \in Refs(kinds)
    BY <1>1 DEF Refs
  <2>2. IsFiniteSet(Refs(kinds)) /\ Cardinality(Refs(kinds)') = References(kinds)'
        /\ References(kinds) = Cardinality(Refs(kinds)) /\ References(kinds) \in Nat
    BY RefsFinite
  <2>3. Cardinality(Refs(kinds)') = Cardinality(Refs(kinds)) - 1
    BY <2>1, <2>2, FS_RemoveElement
  <2>4. References(kinds) # 0
    BY <2>1, <2>2, FS_EmptySet
  <2> QED BY <1>1, <2>2, <2>3, <2>4
<1>2. CASE Kind[v] \notin kinds
  <2>1. Refs(kinds)' = Refs(kinds)
    BY <1>2 DEF Refs
  <2> QED BY <1>2, <2>1, RefsFinite
<1> QED BY <1>1, <1>2

LEMMA SharedSum ==
    ASSUME NEW n \in Nat, NEW d \in {-1, 1}, n + d \in Nat
    PROVE  Shared(0, n + d) = Shared(0, n) + Shared(n, n + d)
BY DEF Shared

\* What CountsExact says of the next state.
CountedNext ==
    /\ timerRefs' = References({"timer"})' /\ immediateRefs' = References({"immediate"})'
    /\ active' + delta' = References({"work", "cpp"})'
                            + (Shared(0, timerRefs') + Shared(0, immediateRefs'))

LEMMA CountedNow ==
    ASSUME Typed, Tallied, CountsExact
    PROVE  /\ timerRefs = References({"timer"}) /\ immediateRefs = References({"immediate"})
           /\ active + delta = References({"work", "cpp"})
                                + (Shared(0, timerRefs) + Shared(0, immediateRefs))
           /\ timerRefs \in Nat /\ immediateRefs \in Nat /\ active \in Int /\ delta \in Int
           /\ References({"work", "cpp"}) \in Nat
           /\ Shared(0, timerRefs) \in Int /\ Shared(0, immediateRefs) \in Int
<1>1. /\ References({"timer"}) \in Nat /\ References({"immediate"}) \in Nat
      /\ References({"work", "cpp"}) \in Nat
  BY RefsFinite
<1>2. Shared(0, timerRefs) \in Int /\ Shared(0, immediateRefs) \in Int
  BY SharedType
<1>3. active \in Int /\ delta \in Int
  BY DEF Typed
<1> QED BY <1>1, <1>2, <1>3 DEF CountsExact

LEMMA CountedThen == ASSUME CountedNext, Typed', References({"work", "cpp"})' \in Int PROVE CountsExact'
<1>1. (Shared(0, timerRefs) + Shared(0, immediateRefs))' = Shared(0, timerRefs') + Shared(0, immediateRefs')
  BY DEF Shared
<1>2. Shared(0, timerRefs') \in Int /\ Shared(0, immediateRefs') \in Int
  BY SharedType
<1>3. CountsExact' <=>
        /\ timerRefs' = References({"timer"})' /\ immediateRefs' = References({"immediate"})'
        /\ active' + delta' = References({"work", "cpp"})' + Shared(0, timerRefs') + Shared(0, immediateRefs')
  BY DEF CountsExact, Shared
<1> QED BY <1>2, <1>3 DEF CountedNext

LEMMA SameNeeds ==
    ASSUME Typed, Typed', Tallied, CountsExact,
           begun \subseteq begun', \A w \in begun' \ begun : ~Needs(w)',
           \A w \in begun : Needs(w)' <=> Needs(w),
           active' + delta' = active + delta, UNCHANGED shared
    PROVE  CountsExact'
<1>1. Referencing' = Referencing
  BY NeedsAre, NeedsAreNext
<1>2. timerRefs' = timerRefs /\ immediateRefs' = immediateRefs
  BY DEF shared
<1>3. /\ References({"timer"})' = References({"timer"})
      /\ References({"immediate"})' = References({"immediate"})
      /\ References({"work", "cpp"})' = References({"work", "cpp"})
  BY <1>1, RefsSame
<1>4. CountedNext
  BY <1>2, <1>3, CountedNow DEF CountedNext
<1> QED BY <1>3, <1>4, CountedNow, CountedThen

\* A work of one of the kinds is begun, or is through: its reference, or the one
\* that its kind shares, is taken or given back.
Retakes(v, d) ==
    /\ Kind[v] \in {"work", "cpp"} => active' + delta' = active + delta + d /\ UNCHANGED shared
    /\ Kind[v] = "timer" => IncrementTimerRef(d) /\ delta' = delta /\ immediateRefs' = immediateRefs
    /\ Kind[v] = "immediate" => IncrementImmediateRef(d) /\ delta' = delta /\ timerRefs' = timerRefs

LEMMA Retaken ==
    ASSUME Typed, Typed', Tallied, CountsExact, NEW v, NEW d \in {-1, 1}, Retakes(v, d),
           Kind[v] \in {"work", "cpp", "timer", "immediate"},
           \A kinds : References(kinds)' = References(kinds) + IF Kind[v] \in kinds THEN d ELSE 0,
           d = -1 => \A kinds : Kind[v] \in kinds => References(kinds) > 0
    PROVE  CountsExact'
<1>1. /\ References({"timer"})' = timerRefs + IF Kind[v] = "timer" THEN d ELSE 0
      /\ References({"immediate"})' = immediateRefs + IF Kind[v] = "immediate" THEN d ELSE 0
      /\ References({"work", "cpp"})' =
            References({"work", "cpp"}) + IF Kind[v] \in {"work", "cpp"} THEN d ELSE 0
  BY CountedNow
<1>2. References({"work", "cpp"})' \in Int
  BY <1>1, CountedNow
<1>3. CASE Kind[v] \in {"work", "cpp"}
  <2>1. timerRefs' = timerRefs /\ immediateRefs' = immediateRefs /\ active' + delta' = active + delta + d
    BY <1>3 DEF Retakes, shared
  <2>2. CountedNext
    BY <1>1, <1>3, <2>1, CountedNow DEF CountedNext
  <2> QED BY <1>2, <2>2, CountedThen
<1>4. CASE Kind[v] = "timer"
  <2>1. /\ timerRefs' = timerRefs + d /\ active' = active + Shared(timerRefs, timerRefs + d)
        /\ delta' = delta /\ immediateRefs' = immediateRefs
    BY <1>4 DEF Retakes, IncrementTimerRef
  <2>2. timerRefs \in Nat /\ timerRefs + d \in Nat
    <3>1. d = -1 => timerRefs > 0
      BY <1>4, CountedNow
    <3> QED BY <3>1, CountedNow
  <2>3. Shared(0, timerRefs + d) = Shared(0, timerRefs) + Shared(timerRefs, timerRefs + d)
    BY <2>2, SharedSum
  <2>4. Shared(timerRefs, timerRefs + d) \in Int
    BY SharedType
  <2>5. CountedNext
    BY <1>1, <1>4, <2>1, <2>3, <2>4, CountedNow DEF CountedNext
  <2> QED BY <1>2, <2>5, CountedThen
<1>5. CASE Kind[v] = "immediate"
  <2>1. /\ immediateRefs' = immediateRefs + d /\ active' = active + Shared(immediateRefs, immediateRefs + d)
        /\ delta' = delta /\ timerRefs' = timerRefs
    BY <1>5 DEF Retakes, IncrementImmediateRef
  <2>2. immediateRefs \in Nat /\ immediateRefs + d \in Nat
    <3>1. d = -1 => immediateRefs > 0
      BY <1>5, CountedNow
    <3> QED BY <3>1, CountedNow
  <2>3. Shared(0, immediateRefs + d) = Shared(0, immediateRefs) + Shared(immediateRefs, immediateRefs + d)
    BY <2>2, SharedSum
  <2>4. Shared(immediateRefs, immediateRefs + d) \in Int
    BY SharedType
  <2>5. CountedNext
    BY <1>1, <1>5, <2>1, <2>3, <2>4, CountedNow DEF CountedNext
  <2> QED BY <1>2, <2>5, CountedThen
<1> QED BY <1>3, <1>4, <1>5

LEMMA OneMore ==
    ASSUME Typed, Typed', Tallied, CountsExact, NEW v \in Works, v \notin begun,
           begun' = begun \cup {v}, Needs(v)',
           \A w \in begun : Needs(w)' <=> Needs(w),
           Kind[v] \in {"work", "cpp", "timer", "immediate"}, Retakes(v, 1)
    PROVE  CountsExact'
<1>1. Referencing' = Referencing \cup {v} /\ v \notin Referencing
  BY NeedsAre, NeedsAreNext
<1>2. \A kinds : References(kinds)' = References(kinds) + IF Kind[v] \in kinds THEN 1 ELSE 0
  BY <1>1, RefsMore
<1> QED BY <1>2, Retaken

LEMMA OneLess ==
    ASSUME Typed, Typed', Tallied, CountsExact, NEW v \in begun, Needs(v), begun' = begun, ~Needs(v)',
           \A w \in begun \ {v} : Needs(w)' <=> Needs(w),
           Kind[v] \in {"work", "cpp", "timer", "immediate"}, Retakes(v, -1)
    PROVE  CountsExact'
<1>1. Referencing' = Referencing \ {v} /\ v \in Referencing
  BY NeedsAre, NeedsAreNext
<1>2. \A kinds : /\ References(kinds)' = References(kinds) - IF Kind[v] \in kinds THEN 1 ELSE 0
                 /\ Kind[v] \in kinds => References(kinds) > 0
  BY <1>1, RefsLess
<1>3. ASSUME NEW kinds
      PROVE  References(kinds)' = References(kinds) + IF Kind[v] \in kinds THEN -1 ELSE 0
  <2>1. References(kinds) \in Nat
    BY RefsFinite
  <2> QED BY <1>2, <2>1
<1> QED BY <1>2, <1>3, Retaken

LEMMA TalliedInit == Init => Tallied /\ CountsExact
<1> SUFFICES ASSUME Init PROVE Tallied /\ CountsExact
  OBVIOUS
<1>1. Typed
  BY TypedInit
<1>2. begun = {} /\ IsFiniteSet({}) /\ Cardinality({}) = 0
  BY FS_EmptySet DEF Init
<1>3. CountsExact
  <2>1. \A kinds : References(kinds) = 0
    BY <1>2 DEF References, Referencing
  <2>2. timerRefs = 0 /\ immediateRefs = 0 /\ active = 0 /\ delta = 0 /\ Shared(0, 0) = 0
    BY DEF Init, Shared
  <2> QED BY <2>1, <2>2 DEF CountsExact
<1>4. line = <<>> /\ tasks.items = <<>>
  <2>1. Capacity \in Nat
    BY TaskLoopAssumption
  <2> QED BY <2>1, RingEmpty, Reserves DEF Init
<1>5. Once
  BY <1>4 DEF Once, Apart
<1>6. Marks
  BY DEF Marks, Init
<1>7. Firings
  <2>1. PICK f : f = FrameOf("js", "first", NoWork)
    OBVIOUS
  <2>2. f.task = NoWork
    BY <2>1 DEF FrameOf
  <2>3. stack = <<f>>
    BY <2>1 DEF Init
  <2>4. DOMAIN stack = {1} /\ stack[1] = f
    BY <2>3
  <2> QED BY <2>2, <2>4, TaskLoopAssumption DEF Firings
<1> QED BY <1>2, <1>3, <1>5, <1>6, <1>7 DEF Tallied

\* What the ways in which the stack changes do to the timers that fire.
LEMMA FiringKept ==
    ASSUME Typed, Firings, \A w \in ran : w \in ran',
           \/ UNCHANGED stack
           \/ Pop
           \/ \E g : NewTop(g) /\ (g.task \in Works => Kind[g.task] # "timer")
                            /\ (Top.task \in Works => Kind[Top.task] # "timer")
    PROVE  Firings' /\ Firing' = Firing
<1>1. /\ StackOK /\ Len(stack) \in Nat /\ Len(stack) > 0
      /\ DOMAIN stack = 1..Len(stack) /\ Top = stack[1]
  BY TopOK DEF Typed
<1>2. CASE UNCHANGED stack
  BY <1>2 DEF Firings, Firing
<1>3. CASE Pop
  <2>1. /\ Len(stack') = Len(stack) - 1 /\ stack' \in Seq(Frame)
        /\ \A i \in 1..Len(stack) - 1 : stack'[i] = stack[i + 1]
    BY <1>1, <1>3, StackPop DEF Pop, StackOK
  <2>2. DOMAIN stack' = 1..Len(stack) - 1
    BY <1>1, <2>1
  <2>3. stack[1].task \notin Works
    BY <1>1, <1>3, TaskLoopAssumption DEF Pop
  <2>4. ASSUME NEW i \in DOMAIN stack' PROVE i + 1 \in DOMAIN stack /\ stack'[i] = stack[i + 1]
    BY <1>1, <2>1, <2>2
  <2>5. ASSUME NEW i \in DOMAIN stack, i # 1 PROVE i - 1 \in DOMAIN stack' /\ stack'[i - 1] = stack[i]
    <3>1. i - 1 \in 1..Len(stack) - 1
      BY <1>1, <2>5
    <3>2. stack'[i - 1] = stack[(i - 1) + 1] /\ (i - 1) + 1 = i
      BY <1>1, <2>1, <3>1
    <3> QED BY <2>2, <3>1, <3>2
  <2>6. Firing' = Firing
    <3>1. ASSUME NEW w \in Works
          PROVE  (\E i \in DOMAIN stack' : stack'[i].task = w) <=> \E i \in DOMAIN stack : stack[i].task = w
      BY <2>3, <2>4, <2>5
    <3> QED BY <3>1 DEF Firing
  <2>7. Firings'
    <3>1. SUFFICES ASSUME NEW i \in DOMAIN stack', NEW j \in DOMAIN stack'
                   PROVE  /\ stack'[i].task \in Works /\ Kind[stack'[i].task] = "timer" => stack'[i].task \in ran'
                          /\ /\ stack'[i].task \in Works /\ Kind[stack'[i].task] = "timer"
                             /\ stack'[i].task = stack'[j].task
                             => i = j
      BY DEF Firings
    <3>2. /\ i + 1 \in DOMAIN stack /\ stack'[i] = stack[i + 1] /\ j + 1 \in DOMAIN stack
          /\ stack'[j] = stack[j + 1] /\ i \in Int /\ j \in Int
      BY <2>2, <2>4
    <3>3. i + 1 = j + 1 => i = j
      BY <3>2
    <3> QED BY <3>2, <3>3 DEF Firings
  <2> QED BY <2>6, <2>7
<1>4. ASSUME NEW g, NewTop(g), g.task \in Works => Kind[g.task] # "timer",
             Top.task \in Works => Kind[Top.task] # "timer"
      PROVE  Firings' /\ Firing' = Firing
  <2>1. /\ Len(stack') = Len(stack) /\ stack' \in Seq(Frame) /\ stack'[1] = g
        /\ \A i \in 2..Len(stack) : stack'[i] = stack[i]
    BY <1>1, <1>4, StackSet DEF NewTop, StackOK
  <2>2. DOMAIN stack' = DOMAIN stack
    BY <1>1, <2>1
  <2>3. \A i \in DOMAIN stack : i # 1 => stack'[i] = stack[i]
    BY <1>1, <2>1
  <2> QED BY <1>1, <1>4, <2>1, <2>2, <2>3 DEF Firings, Firing
<1> QED BY <1>2, <1>3, <1>4

LEMMA FiringBegins ==
    ASSUME Typed, Firings, NEW g, NewTop(g), NEW w \in Works, g.task = w, Kind[w] = "timer",
           w \notin ran, ran' = ran \cup {w}, Top.task = NoWork
    PROVE  Firings' /\ Firing' = Firing \cup {w}
<1>1. /\ StackOK /\ Len(stack) \in Nat /\ Len(stack) > 0
      /\ DOMAIN stack = 1..Len(stack) /\ Top = stack[1]
  BY TopOK DEF Typed
<1>2. /\ Len(stack') = Len(stack) /\ stack' \in Seq(Frame) /\ stack'[1] = g
      /\ \A i \in 2..Len(stack) : stack'[i] = stack[i]
  BY <1>1, StackSet DEF NewTop, StackOK
<1>3. DOMAIN stack' = DOMAIN stack /\ 1 \in DOMAIN stack
  BY <1>1, <1>2
<1>4. \A i \in DOMAIN stack : i # 1 => stack'[i] = stack[i]
  BY <1>1, <1>2
<1>5. \A i \in DOMAIN stack : stack[i].task # w
  BY DEF Firings
<1>6. stack[1].task \notin Works
  BY <1>1, TaskLoopAssumption
<1>7. Firing' = Firing \cup {w}
  BY <1>2, <1>3, <1>4, <1>6 DEF Firing
<1>8. Firings'
  BY <1>2, <1>3, <1>4, <1>5 DEF Firings
<1> QED BY <1>7, <1>8

LEMMA FiringEnds ==
    ASSUME Typed, Firings, NEW g, NewTop(g), g.task = NoWork, ran' = ran,
           Top.task \in Works, Kind[Top.task] = "timer"
    PROVE  Firings' /\ Firing' = Firing \ {Top.task} /\ Top.task \in Firing
<1>1. /\ StackOK /\ Len(stack) \in Nat /\ Len(stack) > 0
      /\ DOMAIN stack = 1..Len(stack) /\ Top = stack[1]
  BY TopOK DEF Typed
<1>2. /\ Len(stack') = Len(stack) /\ stack' \in Seq(Frame) /\ stack'[1] = g
      /\ \A i \in 2..Len(stack) : stack'[i] = stack[i]
  BY <1>1, StackSet DEF NewTop, StackOK
<1>3. DOMAIN stack' = DOMAIN stack /\ 1 \in DOMAIN stack /\ g.task \notin Works
  BY <1>1, <1>2, TaskLoopAssumption
<1>4. \A i \in DOMAIN stack : i # 1 => stack'[i] = stack[i]
  BY <1>1, <1>2
<1>5. \A i \in DOMAIN stack : i # 1 => stack[i].task # stack[1].task
  BY <1>1, <1>3 DEF Firings
<1>6. Firing' = Firing \ {Top.task}
  BY <1>1, <1>2, <1>3, <1>4, <1>5 DEF Firing
<1>7. Firings'
  BY <1>2, <1>3, <1>4 DEF Firings
<1>8. Top.task \in Firing
  BY <1>1, <1>3 DEF Firing
<1> QED BY <1>6, <1>7, <1>8

LEMMA ApartTurned == ASSUME NEW q, NEW r, Apart(q, r) PROVE Apart(r, q)
BY DEF Apart

LEMMA ApartAppend ==
    ASSUME NEW q \in Seq(Works), NEW r \in Seq(Works), Apart(q, r), NEW w \in Works,
           \A i \in DOMAIN q : q[i] # w, \A i \in DOMAIN r : r[i] # w
    PROVE  Apart(q, Append(r, w))
<1>1. PICK t : t = Append(r, w)
  OBVIOUS
<1>2. /\ Len(r) \in Nat /\ DOMAIN r = 1..Len(r) /\ DOMAIN t = 1..Len(r) + 1
      /\ t[Len(r) + 1] = w /\ \A i \in 1..Len(r) : t[i] = r[i]
  BY <1>1
<1>3. \A i \in DOMAIN t : (i = Len(r) + 1 /\ t[i] = w) \/ (i \in DOMAIN r /\ t[i] = r[i])
  BY <1>2
<1> QED BY <1>1, <1>3 DEF Apart

LEMMA ApartTail ==
    ASSUME NEW q \in Seq(Works), NEW r \in Seq(Works), Apart(q, r), q # <<>>
    PROVE  /\ Apart(Tail(q), r)
           /\ \A i \in DOMAIN Tail(q) : Tail(q)[i] # Head(q) /\ \E j \in DOMAIN q : Tail(q)[i] = q[j]
           /\ \A i \in DOMAIN r : r[i] # Head(q)
<1>1. PICK t : t = Tail(q)
  OBVIOUS
<1>2. /\ t \in Seq(Works) /\ Len(t) = Len(q) - 1 /\ Len(q) \in Nat /\ Len(q) > 0
      /\ DOMAIN q = 1..Len(q) /\ Head(q) = q[1]
      /\ \A i \in 1..Len(q) - 1 : t[i] = q[i + 1]
  BY <1>1, SeqFacts
<1>3. DOMAIN t = 1..Len(q) - 1
  BY <1>2
<1>4. \A i \in DOMAIN t : i + 1 \in DOMAIN q /\ i + 1 # 1 /\ t[i] = q[i + 1]
  BY <1>2, <1>3
<1>5. \A i, j \in DOMAIN t : i + 1 = j + 1 => i = j
  BY <1>3
<1>6. 1 \in DOMAIN q
  BY <1>2
<1>7. Apart(t, r)
  BY <1>4, <1>5 DEF Apart
<1>8. \A i \in DOMAIN t : t[i] # q[1] /\ \E j \in DOMAIN q : t[i] = q[j]
  BY <1>4, <1>6 DEF Apart
<1>9. \A i \in DOMAIN r : r[i] # q[1]
  BY <1>6 DEF Apart
<1> QED BY <1>1, <1>2, <1>7, <1>8, <1>9

\* k items leave r, and the first n of them reach q.
Taking(q, r, k, n, t, u) ==
    /\ q \in Seq(Works) /\ r \in Seq(Works) /\ Apart(q, r)
    /\ k \in 0..Len(r) /\ n \in 0..k
    /\ t = q \o SubSeq(r, 1, n) /\ u = SubSeq(r, k + 1, Len(r))

LEMMA ApartTaken ==
    ASSUME NEW q, NEW r, NEW k, NEW n, NEW t, NEW u, Taking(q, r, k, n, t, u)
    PROVE  /\ Apart(t, u)
           /\ \A i \in DOMAIN t : (\E j \in DOMAIN q : t[i] = q[j]) \/ \E j \in DOMAIN r : t[i] = r[j]
           /\ \A i \in DOMAIN u : \E j \in DOMAIN r : u[i] = r[j]
<1>0. /\ q \in Seq(Works) /\ r \in Seq(Works) /\ Apart(q, r)
      /\ k \in 0..Len(r) /\ n \in 0..k
      /\ t = q \o SubSeq(r, 1, n) /\ u = SubSeq(r, k + 1, Len(r))
  BY DEF Taking
<1>1. Len(q) \in Nat /\ Len(r) \in Nat /\ DOMAIN q = 1..Len(q) /\ DOMAIN r = 1..Len(r) /\ n \in 0..Len(r)
  BY <1>0
<1>2. PICK b : b = SubSeq(r, 1, n)
  OBVIOUS
<1>3. b \in Seq(Works) /\ Len(b) = n /\ \A i \in 1..n : b[i] = r[i]
  BY <1>0, <1>1, <1>2, Prefix
<1>4. t = q \o b
  BY <1>0, <1>2
<1>5. /\ DOMAIN t = 1..Len(q) + n
      /\ \A i \in 1..Len(q) : t[i] = q[i]
      /\ \A i \in Len(q) + 1..Len(q) + n : t[i] = b[i - Len(q)]
  BY <1>0, <1>1, <1>3, <1>4
<1>6. /\ u \in Seq(Works) /\ Len(u) = Len(r) - k
      /\ \A i \in 1..Len(r) - k : u[i] = r[i + k]
  BY <1>0, Suffix
<1>7. DOMAIN u = 1..Len(r) - k
  <2>1. DOMAIN u = 1..Len(u)
    BY <1>6
  <2> QED BY <1>0, <1>6, <2>1
<1>8. \A i \in DOMAIN u : i + k \in DOMAIN r /\ i + k > n /\ u[i] = r[i + k]
  <2>1. SUFFICES ASSUME NEW i \in 1..Len(r) - k
                 PROVE  i + k \in 1..Len(r) /\ i + k > n /\ u[i] = r[i + k]
    BY <1>0, <1>1, <1>7
  <2>2. i + k \in 1..Len(r) /\ i + k > n
    BY <1>0, <1>1
  <2> QED BY <1>0, <1>6, <2>2
<1>9. \A i \in DOMAIN t : \/ i \in DOMAIN q /\ t[i] = q[i]
                         \/ /\ i \notin DOMAIN q /\ i - Len(q) \in DOMAIN r
                            /\ i - Len(q) <= n /\ t[i] = r[i - Len(q)]
  <2>1. SUFFICES ASSUME NEW i \in 1..Len(q) + n, i \notin DOMAIN q
                 PROVE  i - Len(q) \in DOMAIN r /\ i - Len(q) <= n /\ t[i] = r[i - Len(q)]
    BY <1>0, <1>1, <1>5
  <2>2. i - Len(q) \in 1..n /\ i - Len(q) \in 1..Len(r) /\ i \in Len(q) + 1..Len(q) + n
    BY <1>0, <1>1, <2>1
  <2> QED BY <1>0, <1>1, <1>3, <1>5, <2>2
<1>10. ASSUME NEW i \in DOMAIN t, NEW j \in DOMAIN t, t[i] = t[j] PROVE i = j
  <2>1. i \in Int /\ j \in Int
    BY <1>0, <1>1, <1>5
  <2>2. i - Len(q) = j - Len(q) => i = j
    BY <1>0, <1>1, <2>1
  <2>3. Apart(q, r)
    BY <1>0
  <2> QED BY <1>9, <1>10, <2>2, <2>3 DEF Apart
<1>11. ASSUME NEW i \in DOMAIN u, NEW j \in DOMAIN u, u[i] = u[j] PROVE i = j
  <2>1. i + k = j + k
    BY <1>0, <1>8, <1>11 DEF Apart
  <2> QED BY <1>0, <1>1, <1>7, <2>1
<1>12. ASSUME NEW i \in DOMAIN t, NEW j \in DOMAIN u, t[i] = u[j] PROVE FALSE
  <2>1. j + k \in DOMAIN r /\ j + k > n /\ u[j] = r[j + k]
    BY <1>8
  <2>2. CASE i \in DOMAIN q /\ t[i] = q[i]
    BY <1>0, <1>12, <2>1, <2>2 DEF Apart
  <2>3. CASE i - Len(q) \in DOMAIN r /\ i - Len(q) <= n /\ t[i] = r[i - Len(q)]
    <3>1. i - Len(q) = j + k
      BY <1>0, <1>12, <2>1, <2>3 DEF Apart
    <3> QED BY <1>0, <1>1, <1>5, <1>7, <2>1, <2>3, <3>1
  <2> QED BY <1>9, <2>2, <2>3
<1>13. Apart(t, u)
  BY <1>10, <1>11, <1>12 DEF Apart
<1> QED BY <1>8, <1>9, <1>13

DueNext(w) == w \in begun' /\ w \notin ran' /\ thread'[w] # "pool"

\* What is in line for its callback stays so.
LEMMA OnceNext ==
    ASSUME Apart(tasks'.items, line'),
           \A i \in DOMAIN tasks'.items : DueNext(tasks'.items[i]),
           \A i \in DOMAIN line' : DueNext(line'[i])
    PROVE  Once'
<1>1. Apart(tasks.items, line)'
  BY DEF Apart
<1> QED BY <1>1 DEF Once, Due, DueNext

LEMMA Lined ==
    ASSUME Typed, Once
    PROVE  /\ \A i \in DOMAIN line : /\ line[i] \in Works /\ Due(line[i])
                                    /\ Kind[line[i]] \notin {"immediate", "timer"}
           /\ \A i \in DOMAIN tasks.items : /\ tasks.items[i] \in Works /\ Due(tasks.items[i])
                                           /\ Kind[tasks.items[i]] \notin {"immediate", "timer"}
<1>1. line \in Seq(Works) /\ tasks.items \in Seq(Works)
  BY RingFields DEF Typed
<1>2. Of(line, {"work", "cpp", "post"}) /\ Of(tasks.items, {"work", "cpp", "post", "local"})
  BY DEF Typed
<1>3. /\ \A i \in DOMAIN line : line[i] \in Works
      /\ \A i \in DOMAIN tasks.items : tasks.items[i] \in Works
  BY <1>1
<1>4. /\ \A i \in DOMAIN line : Kind[line[i]] \notin {"immediate", "timer"}
      /\ \A i \in DOMAIN tasks.items : Kind[tasks.items[i]] \notin {"immediate", "timer"}
  BY <1>2 DEF Of
<1>5. /\ \A i \in DOMAIN line : Due(line[i])
      /\ \A i \in DOMAIN tasks.items : Due(tasks.items[i])
  BY DEF Once
<1> QED BY <1>3, <1>4, <1>5

LEMMA OnceKept ==
    ASSUME Typed, Once, UNCHANGED line, tasks'.items = tasks.items,
           \A w \in Works : Kind[w] \notin {"immediate", "timer"} /\ Due(w) => DueNext(w)
    PROVE  Once'
<1>1. /\ \A i \in DOMAIN line : DueNext(line[i])
      /\ \A i \in DOMAIN tasks.items : DueNext(tasks.items[i])
  BY Lined
<1> QED BY <1>1, OnceNext DEF Once

LEMMA AppendedOnly ==
    ASSUME NEW q \in Seq(Works), NEW w \in Works, NEW t, t = Append(q, w)
    PROVE  \A i \in DOMAIN t : t[i] = w \/ (i \in DOMAIN q /\ t[i] = q[i])
<1>1. /\ Len(q) \in Nat /\ DOMAIN q = 1..Len(q) /\ DOMAIN t = 1..Len(q) + 1
      /\ t[Len(q) + 1] = w /\ \A i \in 1..Len(q) : t[i] = q[i]
  OBVIOUS
<1> QED BY <1>1

LEMMA CountedPool ==
    ASSUME Typed, Typed', Tallied, CountsExact, NEW w \in Works, Pool(w)
    PROVE  Tallied' /\ CountsExact'
<1>1. /\ thread \in [Works -> Threads] /\ line \in Seq(Works) /\ tasks.items \in Seq(Works)
      /\ active \in Int /\ delta \in Int /\ begun \subseteq Works /\ Marks /\ Once /\ Firings
      /\ IsFiniteSet(begun)
  BY RingFields DEF Typed, Tallied
<1>2. UNCHANGED <<tasks, immediates, active, shared, clock, stack, begun, ran>>
  BY DEF Pool, Finish, LinkResult, WakeLoop, UnrefConcurrently, WakeUnrefed, loop, queues, history
<1>3. Firings' /\ Firing' = Firing
  BY <1>1, <1>2, FiringKept
<1>4. /\ w \in begun /\ thread[w] # "off" /\ thread'[w] # "pool"
      /\ \A v \in Works : v # w => thread'[v] = thread[v]
  BY <1>1 DEF Pool, Finish, LinkResult, WakeLoop, UnrefConcurrently, WakeUnrefed, Marks
<1>5. thread'[w] \in {"pushed", "unrefed"} => Kind[w] = "cpp"
  BY <1>1 DEF Pool, Finish, LinkResult, WakeLoop, UnrefConcurrently, WakeUnrefed, Marks
<1>6. Marks'
  BY <1>1, <1>2, <1>4, <1>5 DEF Marks
<1>7. \A v \in Works : Due(v) => DueNext(v)
  BY <1>2, <1>4 DEF Due, DueNext
<1>8. Once'
  <2>1. CASE Finish(w)
    <3>1. thread[w] = "pool" /\ w \notin ran
      BY <1>1, <2>1 DEF Finish, Marks
    <3>2. line' = Append(line, w)
      <4>1. line' = line \o <<w>>
        BY <2>1 DEF Finish, Channel!Send
      <4> QED BY <1>1, <4>1
    <3>3. (\A i \in DOMAIN tasks.items : tasks.items[i] # w) /\ \A i \in DOMAIN line : line[i] # w
      BY <1>1, <3>1 DEF Once, Due
    <3>4. Apart(tasks.items, line')
      BY <1>1, <3>2, <3>3, ApartAppend DEF Once
    <3>5. DueNext(w)
      BY <1>2, <1>4, <3>1 DEF DueNext
    <3>6. \A i \in DOMAIN line' : DueNext(line'[i])
      <4>1. \A i \in DOMAIN line' : line'[i] = w \/ (i \in DOMAIN line /\ line'[i] = line[i])
        BY <1>1, <3>2, AppendedOnly
      <4>2. \A i \in DOMAIN line : DueNext(line[i])
        BY <1>1, <1>7, Lined
      <4> QED BY <3>5, <4>1, <4>2
    <3>7. \A i \in DOMAIN tasks'.items : DueNext(tasks'.items[i])
      BY <1>1, <1>2, <1>7, Lined
    <3> QED BY <1>2, <3>4, <3>6, <3>7, OnceNext
  <2>2. CASE ~Finish(w)
    <3>1. line' = line
      BY <2>2 DEF Pool, LinkResult, Channel!Link, WakeLoop, UnrefConcurrently, WakeUnrefed, queues, channel
    <3> QED BY <1>1, <1>2, <1>7, <3>1, OnceKept
  <2> QED BY <2>1, <2>2
<1>9. Tallied'
  BY <1>1, <1>2, <1>3, <1>6, <1>8 DEF Tallied
<1>10. \A v \in begun \ {w} : Needs(v)' <=> Needs(v)
  BY <1>1, <1>2, <1>3, <1>4 DEF Needs
<1>11. CASE UnrefConcurrently(w)
  <2>1. /\ delta' = delta - 1 /\ thread[w] = "pushed" /\ thread'[w] = "unrefed" /\ Kind[w] = "cpp"
    BY <1>1, <1>11 DEF UnrefConcurrently, Marks
  <2>2. Needs(w) /\ ~Needs(w)'
    BY <2>1 DEF Needs
  <2>3. Retakes(w, -1) /\ Kind[w] \in {"work", "cpp", "timer", "immediate"}
    BY <1>1, <1>2, <2>1 DEF Retakes
  <2> QED BY <1>2, <1>4, <1>9, <1>10, <2>2, <2>3, OneLess
<1>12. CASE ~UnrefConcurrently(w)
  <2>1. delta' = delta
    BY <1>12 DEF Pool, Finish, LinkResult, WakeLoop, WakeUnrefed, loop
  <2>2. Kind[w] = "cpp" => /\ thread'[w] \in {"pool", "swapped", "linked", "pushed"}
                               <=> thread[w] \in {"pool", "swapped", "linked", "pushed"}
    BY <1>1, <1>12 DEF Pool, Finish, LinkResult, WakeLoop, WakeUnrefed
  <2>3. Needs(w)' <=> Needs(w)
    BY <1>2, <1>3, <2>2 DEF Needs
  <2>4. (\A v \in begun : Needs(v)' <=> Needs(v)) /\ begun' = begun /\ active' + delta' = active + delta
    BY <1>2, <1>10, <2>1, <2>3
  <2> QED BY <1>2, <1>9, <2>4, SameNeeds
<1> QED BY <1>9, <1>11, <1>12

LEMMA CountedBegin ==
    ASSUME Typed, Typed', Tallied, CountsExact, NEW w \in Works, BeginAny(w)
    PROVE  Tallied' /\ CountsExact'
<1>1. /\ thread \in [Works -> Threads] /\ clock \in [Works -> {"off", "armed", "due"}]
      /\ line \in Seq(Works) /\ tasks.items \in Seq(Works) /\ tasks \in Fifos(Works)
      /\ active \in Int /\ delta \in Int /\ begun \subseteq Works /\ Marks /\ Once /\ Firings
      /\ IsFiniteSet(begun)
  BY RingFields DEF Typed, Tallied
<1>2. /\ UNCHANGED <<stack, unlinked, ran>> /\ begun' = begun \cup {w} /\ w \notin begun
  BY DEF BeginAny, BeginWork, BeginCpp, Post, EnqueueTask, SetImmediate, SetTimeout, Begin,
         queues, channel
<1>3. Firings' /\ Firing' = Firing
  BY <1>1, <1>2, FiringKept
<1>4. thread[w] = "off" /\ clock[w] = "off" /\ w \notin ran
  BY <1>1, <1>2 DEF Marks
<1>5. /\ \A v \in Works : v # w => thread'[v] = thread[v] /\ clock'[v] = clock[v]
      /\ thread'[w] \in {"off", "pool"}
      /\ thread'[w] = "pool" <=> Kind[w] \in {"work", "cpp"}
      /\ clock'[w] # "off" => Kind[w] = "timer"
  BY <1>1, <1>4 DEF BeginAny, BeginWork, BeginCpp, Post, EnqueueTask, SetImmediate, SetTimeout, Begin
<1>6. Marks'
  BY <1>1, <1>2, <1>4, <1>5 DEF Marks
<1>7. (\A i \in DOMAIN tasks.items : tasks.items[i] # w) /\ \A i \in DOMAIN line : line[i] # w
  BY <1>1, <1>2 DEF Once, Due
<1>8. \A v \in Works : Due(v) => DueNext(v)
  BY <1>2, <1>5 DEF Due, DueNext
<1>9. Once'
  <2>1. CASE Post(w)
    <3>1. line' = Append(line, w) /\ tasks' = tasks /\ Kind[w] = "post"
      BY <2>1 DEF Post, Begin
    <3>2. Apart(tasks'.items, line')
      BY <1>1, <1>7, <3>1, ApartAppend DEF Once
    <3>3. DueNext(w)
      BY <1>2, <1>4, <1>5, <3>1 DEF DueNext
    <3>4. \A i \in DOMAIN line' : DueNext(line'[i])
      <4>1. \A i \in DOMAIN line' : line'[i] = w \/ (i \in DOMAIN line /\ line'[i] = line[i])
        BY <1>1, <3>1, AppendedOnly
      <4>2. \A i \in DOMAIN line : DueNext(line[i])
        BY <1>1, <1>8, Lined
      <4> QED BY <3>3, <4>1, <4>2
    <3>5. \A i \in DOMAIN tasks'.items : DueNext(tasks'.items[i])
      BY <1>1, <1>8, <3>1, Lined
    <3> QED BY <3>2, <3>4, <3>5, OnceNext
  <2>2. CASE EnqueueTask(w)
    <3>1. tasks' = Push(tasks, w) /\ line' = line /\ Kind[w] = "local"
      BY <2>2 DEF EnqueueTask, Begin, channel
    <3>2. tasks'.items = Append(tasks.items, w)
      BY <1>1, <3>1, Pushes
    <3>3. Apart(tasks'.items, line')
      <4>1. Apart(line, tasks.items)
        BY <1>1, ApartTurned DEF Once
      <4>2. Apart(line, Append(tasks.items, w))
        BY <1>1, <1>7, <4>1, ApartAppend
      <4> QED BY <3>1, <3>2, <4>2, ApartTurned
    <3>4. DueNext(w)
      BY <1>2, <1>4, <1>5, <3>1 DEF DueNext
    <3>5. \A i \in DOMAIN tasks'.items : DueNext(tasks'.items[i])
      <4>1. PICK t : t = tasks'.items
        OBVIOUS
      <4>2. \A i \in DOMAIN t : t[i] = w \/ (i \in DOMAIN tasks.items /\ t[i] = tasks.items[i])
        BY <1>1, <3>2, <4>1, AppendedOnly
      <4>3. \A i \in DOMAIN tasks.items : DueNext(tasks.items[i])
        BY <1>1, <1>8, Lined
      <4> QED BY <3>4, <4>1, <4>2, <4>3
    <3>6. \A i \in DOMAIN line' : DueNext(line'[i])
      BY <1>1, <1>8, <3>1, Lined
    <3> QED BY <3>3, <3>5, <3>6, OnceNext
  <2>3. CASE ~Post(w) /\ ~EnqueueTask(w)
    <3>1. line' = line /\ tasks' = tasks
      BY <2>3 DEF BeginAny, BeginWork, BeginCpp, SetImmediate, SetTimeout, queues, channel
    <3> QED BY <1>1, <1>8, <3>1, OnceKept
  <2> QED BY <2>1, <2>2, <2>3
<1>10. Tallied'
  <2>1. IsFiniteSet(begun')
    BY <1>1, <1>2, FS_AddElement
  <2> QED BY <1>3, <1>6, <1>9, <2>1 DEF Tallied
<1>11. \A v \in begun : Needs(v)' <=> Needs(v)
  BY <1>1, <1>2, <1>3, <1>5 DEF Needs
<1>12. CASE BeginWork(w) \/ BeginCpp(w) \/ SetTimeout(w) \/ SetImmediate(w)
  <2>1. Kind[w] \in {"work", "cpp", "timer", "immediate"}
    BY <1>12 DEF BeginWork, BeginCpp, SetTimeout, SetImmediate, Begin
  <2>2. Retakes(w, 1)
    <3>1. CASE BeginWork(w) \/ BeginCpp(w)
      <4>1. Kind[w] \in {"work", "cpp"} /\ UNCHANGED shared /\ active' + delta' = active + delta + 1
        <5>1. CASE BeginWork(w)
          <6>1. UNCHANGED shared /\ active' = active + 1 /\ delta' = delta /\ Kind[w] = "work"
            BY <5>1 DEF BeginWork, Begin
          <6> QED BY <1>1, <6>1
        <5>2. CASE BeginCpp(w)
          <6>1. UNCHANGED shared /\ delta' = delta + 1 /\ active' = active /\ Kind[w] = "cpp"
            BY <5>2 DEF BeginCpp, Begin
          <6> QED BY <1>1, <6>1
        <5> QED BY <3>1, <5>1, <5>2
      <4> QED BY <4>1 DEF Retakes
    <3>2. CASE SetTimeout(w)
      BY <3>2 DEF SetTimeout, Begin, Retakes
    <3>3. CASE SetImmediate(w)
      BY <3>3 DEF SetImmediate, Begin, Retakes
    <3> QED BY <1>12, <3>1, <3>2, <3>3
  <2>3. Needs(w)'
    BY <1>2, <1>4, <1>5, <2>1 DEF Needs
  <2> QED BY <1>2, <1>10, <1>11, <2>1, <2>2, <2>3, OneMore
<1>13. CASE Post(w) \/ EnqueueTask(w)
  <2>1. active' + delta' = active + delta /\ UNCHANGED shared
    BY <1>13 DEF Post, EnqueueTask, loop
  <2>2. Kind[w] \in {"post", "local"}
    BY <1>13 DEF Post, EnqueueTask, Begin
  <2>3. ~Needs(w)'
    BY <2>2 DEF Needs
  <2>4. begun \subseteq begun' /\ \A v \in begun' \ begun : ~Needs(v)'
    BY <1>2, <2>3
  <2> QED BY <1>10, <1>11, <2>1, <2>4, SameNeeds
<1> QED BY <1>10, <1>12, <1>13 DEF BeginAny

LEMMA CountedWait ==
    ASSUME Typed, Typed', Tallied, CountsExact, NEW w \in Works, WaitForPromise(w)
    PROVE  Tallied' /\ CountsExact'
<1>1. UNCHANGED <<line, tasks, active, shared, delta, thread, clock, begun, ran>>
  BY DEF WaitForPromise, queues, channel, loop, history
<1>2. Firings' /\ Firing' = Firing
  <2>1. /\ Len(stack') = Len(stack) + 1 /\ stack' \in Seq(Frame) /\ stack'[1].task = NoWork
        /\ \A i \in 1..Len(stack) : stack'[i + 1] = stack[i]
        /\ Len(stack) \in Nat /\ DOMAIN stack = 1..Len(stack)
    BY StackPush, TopOK DEF WaitForPromise, Typed, StackOK
  <2>2. DOMAIN stack' = 1..Len(stack) + 1
    BY <2>1
  <2>3. stack'[1].task \notin Works
    BY <2>1, TaskLoopAssumption
  <2>4. \A i \in DOMAIN stack : i + 1 \in DOMAIN stack' /\ stack'[i + 1] = stack[i]
    BY <2>1, <2>2
  <2>5. ASSUME NEW i \in DOMAIN stack', i # 1 PROVE i - 1 \in DOMAIN stack /\ stack'[i] = stack[i - 1]
    <3>1. i - 1 \in 1..Len(stack) /\ (i - 1) + 1 = i
      BY <2>1, <2>2, <2>5
    <3> QED BY <2>1, <3>1
  <2>6. Firing' = Firing
    <3>1. ASSUME NEW v \in Works
          PROVE  (\E i \in DOMAIN stack' : stack'[i].task = v) <=> \E i \in DOMAIN stack : stack[i].task = v
      BY <2>3, <2>4, <2>5
    <3> QED BY <3>1 DEF Firing
  <2>7. Firings'
    <3>1. SUFFICES ASSUME NEW i \in DOMAIN stack', NEW j \in DOMAIN stack',
                          stack'[i].task \in Works, Kind[stack'[i].task] = "timer"
                   PROVE  stack'[i].task \in ran' /\ (stack'[i].task = stack'[j].task => i = j)
      BY DEF Firings
    <3>2. i # 1 /\ i - 1 \in DOMAIN stack /\ stack'[i] = stack[i - 1]
      BY <2>3, <2>5, <3>1
    <3>3. stack'[i].task \in ran'
      BY <1>1, <3>1, <3>2 DEF Tallied, Firings
    <3>4. ASSUME stack'[i].task = stack'[j].task PROVE i = j
      <4>1. j # 1 /\ j - 1 \in DOMAIN stack /\ stack'[j] = stack[j - 1]
        BY <2>3, <2>5, <3>1, <3>4
      <4>2. i - 1 = j - 1
        BY <3>1, <3>2, <3>4, <4>1 DEF Tallied, Firings
      <4> QED BY <2>1, <2>2, <4>2
    <3> QED BY <3>3, <3>4
  <2> QED BY <2>6, <2>7
<1>3. Once'
  BY <1>1, OnceKept DEF Tallied, Due, DueNext
<1>4. Marks' /\ IsFiniteSet(begun')
  BY <1>1 DEF Tallied, Marks
<1>5. \A v \in begun : Needs(v)' <=> Needs(v)
  BY <1>1, <1>2 DEF Needs
<1> QED BY <1>1, <1>2, <1>3, <1>4, <1>5, SameNeeds DEF Tallied

LEMMA CountedKept ==
    ASSUME Typed, Typed', Tallied, CountsExact,
           UNCHANGED <<line, shared, thread, begun, ran>>, tasks'.items = tasks.items,
           \A w \in Works : clock'[w] # "off" => clock[w] # "off",
           active' + delta' = active + delta,
           \/ UNCHANGED stack
           \/ Pop
           \/ \E g : NewTop(g) /\ g.task = NoWork /\ (Top.task \in Works => Kind[Top.task] # "timer")
    PROVE  Tallied' /\ CountsExact'
<1>1. Firings' /\ Firing' = Firing
  <2>1. \/ UNCHANGED stack
        \/ Pop
        \/ \E g : NewTop(g) /\ (g.task \in Works => Kind[g.task] # "timer")
                         /\ (Top.task \in Works => Kind[Top.task] # "timer")
    BY TaskLoopAssumption
  <2> QED BY <2>1, FiringKept DEF Tallied
<1>2. Once'
  BY OnceKept DEF Tallied, Due, DueNext
<1>3. Marks' /\ IsFiniteSet(begun')
  BY DEF Tallied, Marks
<1>4. \A v \in begun : Needs(v)' <=> Needs(v)
  BY <1>1 DEF Needs
<1> QED BY <1>1, <1>2, <1>3, <1>4, SameNeeds DEF Tallied

-----------------------------------------------------------------------------
(* The immediates that wait, each in one place.                            *)

LEMMA PendingInit == Init => Pending
<1> SUFFICES ASSUME Init PROVE Pending
  OBVIOUS
<1>1. PICK f : f = FrameOf("js", "first", NoWork)
  OBVIOUS
<1>2. stack = <<f>> /\ f.todo = <<>> /\ immediates = <<>>
  BY <1>1 DEF Init, FrameOf
<1>3. Len(stack) = 1 /\ stack[1] = f
  BY <1>2
<1>4. PICK L : L = Lists(immediates, stack)
  OBVIOUS
<1>5. DOMAIN L = 0..1 /\ L[0] = <<>> /\ L[1] = <<>>
  BY <1>2, <1>3, <1>4 DEF Lists
<1>6. \A a \in DOMAIN L : DOMAIN L[a] = {}
  BY <1>5
<1> QED BY <1>4, <1>6 DEF Pending, Parted

LEMMA PendingNext ==
    ASSUME Parted(Lists(immediates', stack'), Awaited') PROVE Pending'
BY DEF Pending, Lists, Parted

LEMMA ListsAre ==
    ASSUME Typed
    PROVE  /\ DOMAIN Lists(immediates, stack) = 0..Len(stack)
           /\ Len(stack) \in Nat /\ Len(stack) > 0 /\ Top = stack[1]
           /\ Lists(immediates, stack)[0] = immediates
           /\ \A a \in 1..Len(stack) : Lists(immediates, stack)[a] = stack[a].todo
           /\ \A a \in 0..Len(stack) : Lists(immediates, stack)[a] \in Seq(Works)
<1>1. /\ StackOK /\ Len(stack) \in Nat /\ Len(stack) > 0 /\ Top = stack[1]
      /\ DOMAIN stack = 1..Len(stack) /\ immediates \in Seq(Works)
  BY TopOK DEF Typed
<1>2. \A a \in 1..Len(stack) : stack[a].todo \in Seq(Works)
  BY <1>1 DEF StackOK, FrameOK, Frame
<1> QED BY <1>1, <1>2 DEF Lists

LEMMA ListsNext ==
    ASSUME Typed'
    PROVE  /\ DOMAIN Lists(immediates', stack') = 0..Len(stack')
           /\ Len(stack') \in Nat /\ Len(stack') > 0
           /\ Lists(immediates', stack')[0] = immediates'
           /\ \A a \in 1..Len(stack') : Lists(immediates', stack')[a] = stack'[a].todo
<1>1. stack' \in Seq(Frame) /\ stack' # <<>>
  BY DEF Typed, StackOK
<1>2. Len(stack') \in Nat /\ Len(stack') > 0
  BY <1>1
<1> QED BY <1>2 DEF Lists

\* Every list of M is empty or one of those of L, at most once: m says which.
LEMMA PartedMoved ==
    ASSUME NEW L, NEW M, NEW A, NEW B, Parted(L, A), A \subseteq B, NEW m,
           \A a \in DOMAIN M : DOMAIN M[a] = {} \/ (m[a] \in DOMAIN L /\ M[a] = L[m[a]]),
           \A a, b \in DOMAIN M : m[a] = m[b] => a = b
    PROVE  Parted(M, B)
<1> SUFFICES ASSUME NEW a \in DOMAIN M, NEW b \in DOMAIN M, NEW i \in DOMAIN M[a], NEW j \in DOMAIN M[b]
             PROVE  M[a][i] \in B /\ (M[a][i] = M[b][j] => a = b /\ i = j)
  BY DEF Parted
<1>1. m[a] \in DOMAIN L /\ M[a] = L[m[a]] /\ m[b] \in DOMAIN L /\ M[b] = L[m[b]]
  OBVIOUS
<1>2. L[m[a]][i] \in A /\ (L[m[a]][i] = L[m[b]][j] => m[a] = m[b] /\ i = j)
  BY <1>1 DEF Parted
<1> QED BY <1>1, <1>2

\* The lists stay as they are.
LEMMA PendingKept ==
    ASSUME Typed, Typed', Pending, immediates' = immediates, Awaited \subseteq Awaited',
           stack' = stack \/ \E g : NewTop(g) /\ g.todo = Top.todo
    PROVE  Pending'
<1>1. /\ Len(stack') = Len(stack)
      /\ \A a \in 1..Len(stack) : stack'[a].todo = stack[a].todo
  <2>1. CASE stack' = stack
    BY <2>1
  <2>2. ASSUME NEW g, NewTop(g), g.todo = Top.todo
        PROVE  Len(stack') = Len(stack) /\ \A a \in 1..Len(stack) : stack'[a].todo = stack[a].todo
    <3>1. /\ Len(stack') = Len(stack) /\ stack'[1] = g /\ \A i \in 2..Len(stack) : stack'[i] = stack[i]
          /\ Len(stack) \in Nat
      BY <2>2, StackSet, ListsAre DEF NewTop, Typed
    <3> QED BY <2>2, <3>1, ListsAre
  <2> QED BY <2>1, <2>2
<1>2. Lists(immediates', stack') = Lists(immediates, stack)
  BY <1>1, ListsAre DEF Lists
<1>3. PICK L : L = Lists(immediates, stack)
  OBVIOUS
<1>4. Parted(L, Awaited')
  BY <1>3 DEF Pending, Parted
<1> QED BY <1>2, <1>3, <1>4, PendingNext

LEMMA PendingBegin ==
    ASSUME Typed, Typed', Tallied, Pending, NEW w \in Works, BeginAny(w)
    PROVE  Pending'
<1>1. begun' = begun \cup {w} /\ w \notin begun /\ UNCHANGED <<stack, ran>>
  BY DEF BeginAny, BeginWork, BeginCpp, Post, EnqueueTask, SetImmediate, SetTimeout, Begin
<1>2. Awaited \subseteq Awaited' /\ w \notin Awaited
  BY <1>1 DEF Awaited
<1>3. CASE SetImmediate(w)
  <2>1. immediates' = Append(immediates, w) /\ w \in Awaited' /\ immediates \in Seq(Works)
    <3>1. immediates' = Append(immediates, w) /\ Kind[w] = "immediate" /\ immediates \in Seq(Works)
      BY <1>3 DEF SetImmediate, Begin, Typed
    <3>2. w \notin ran
      BY <1>1 DEF Tallied, Marks
    <3> QED BY <1>1, <3>1, <3>2 DEF Awaited
  <2>2. PICK L, M : L = Lists(immediates, stack) /\ M = Lists(immediates', stack')
    OBVIOUS
  <2>3. /\ DOMAIN L = 0..Len(stack) /\ DOMAIN M = 0..Len(stack) /\ Len(stack) \in Nat
        /\ L[0] = immediates /\ M[0] = immediates' /\ \A a \in 1..Len(stack) : M[a] = L[a]
    BY <1>1, <2>2, ListsAre, ListsNext
  <2>4. /\ Len(immediates) \in Nat /\ DOMAIN L[0] = 1..Len(immediates)
        /\ DOMAIN M[0] = 1..Len(immediates) + 1 /\ M[0][Len(immediates) + 1] = w
        /\ \A i \in 1..Len(immediates) : M[0][i] = L[0][i]
    BY <2>1, <2>3, Appended
  <2>5. ASSUME NEW a \in DOMAIN M, NEW i \in DOMAIN M[a]
        PROVE  \/ a = 0 /\ i = Len(immediates) + 1 /\ M[a][i] = w
               \/ a \in DOMAIN L /\ i \in DOMAIN L[a] /\ M[a][i] = L[a][i]
    BY <2>3, <2>4
  <2>6. Parted(L, Awaited)
    BY <2>2 DEF Pending
  <2>7. Parted(M, Awaited')
    BY <1>2, <2>1, <2>5, <2>6 DEF Parted
  <2> QED BY <2>2, <2>7, PendingNext
<1>4. CASE ~SetImmediate(w)
  <2>1. immediates' = immediates
    BY <1>4 DEF BeginAny, BeginWork, BeginCpp, Post, EnqueueTask, SetTimeout, queues
  <2> QED BY <1>1, <1>2, <2>1, PendingKept
<1> QED BY <1>3, <1>4

LEMMA PendingWait ==
    ASSUME Typed, Typed', Pending, NEW w \in Works, WaitForPromise(w)
    PROVE  Pending'
<1>1. /\ Len(stack') = Len(stack) + 1 /\ \A i \in 1..Len(stack) : stack'[i + 1] = stack[i]
      /\ stack'[1].todo = <<>>
  <2>1. PICK f : f = FrameOf("counts", "wait", w)
    OBVIOUS
  <2>2. Len(stack') = Len(stack) + 1 /\ \A i \in 1..Len(stack) : stack'[i + 1] = stack[i]
    BY StackPush DEF WaitForPromise, Typed
  <2>3. stack' = <<f>> \o stack /\ stack \in Seq(Frame) /\ f.todo = <<>>
    BY <2>1 DEF WaitForPromise, Typed, StackOK, FrameOf
  <2>4. stack'[1] = f
    BY <2>3
  <2> QED BY <2>2, <2>3, <2>4
<1>2. UNCHANGED <<begun, ran, immediates>>
  BY DEF WaitForPromise, queues, history
<1>3. PICK L, M, m : /\ L = Lists(immediates, stack) /\ M = Lists(immediates', stack')
                     /\ m = [a \in 0..Len(stack) + 1 |-> IF a = 0 THEN 0 ELSE IF a = 1 THEN -1 ELSE a - 1]
  OBVIOUS
<1>4. /\ DOMAIN L = 0..Len(stack) /\ DOMAIN M = 0..Len(stack) + 1 /\ Len(stack) \in Nat
      /\ L[0] = immediates /\ M[0] = immediates' /\ M[1] = <<>>
      /\ \A a \in 1..Len(stack) : M[a + 1] = L[a]
  <2>1. /\ DOMAIN L = 0..Len(stack) /\ Len(stack) \in Nat /\ L[0] = immediates
        /\ \A a \in 1..Len(stack) : L[a] = stack[a].todo
    BY <1>3, ListsAre
  <2>2. /\ DOMAIN M = 0..Len(stack) + 1 /\ M[0] = immediates'
        /\ \A a \in 1..Len(stack) + 1 : M[a] = stack'[a].todo
    BY <1>1, <1>3, ListsNext
  <2>3. M[1] = <<>>
    BY <1>1, <2>1, <2>2
  <2>4. ASSUME NEW a \in 1..Len(stack) PROVE M[a + 1] = L[a]
    <3>1. a + 1 \in 1..Len(stack) + 1
      BY <2>1
    <3>2. stack'[a + 1] = stack[a]
      BY <1>1
    <3> QED BY <2>1, <2>2, <3>1, <3>2
  <2> QED BY <1>1, <1>2, <2>1, <2>2, <2>3, <2>4
<1>5. ASSUME NEW a \in DOMAIN M
      PROVE  DOMAIN M[a] = {} \/ (m[a] \in DOMAIN L /\ M[a] = L[m[a]])
  <2>1. CASE a = 0
    BY <1>2, <1>3, <1>4, <2>1
  <2>2. CASE a = 1
    BY <1>4, <2>2
  <2>3. CASE a # 0 /\ a # 1
    <3>1. a - 1 \in 1..Len(stack) /\ (a - 1) + 1 = a /\ m[a] = a - 1
      BY <1>3, <1>4, <2>3
    <3>2. M[a] = L[a - 1]
      BY <1>4, <3>1
    <3> QED BY <1>4, <3>1, <3>2
  <2> QED BY <2>1, <2>2, <2>3
<1>6. \A a, b \in DOMAIN M : m[a] = m[b] => a = b
  BY <1>3, <1>4
<1>7. Parted(L, Awaited) /\ Awaited \subseteq Awaited'
  BY <1>2, <1>3 DEF Pending, Awaited
<1>8. Parted(M, Awaited')
  BY <1>5, <1>6, <1>7, PartedMoved
<1> QED BY <1>3, <1>8, PendingNext

LEMMA PendingPop ==
    ASSUME Typed, Typed', Pending, Pop, Top.todo = <<>>, UNCHANGED <<begun, ran, immediates>>
    PROVE  Pending'
<1>1. /\ Len(stack') = Len(stack) - 1 /\ \A i \in 1..Len(stack) - 1 : stack'[i] = stack[i + 1]
  BY StackPop DEF Pop, Typed
<1>3. PICK L, M, m : /\ L = Lists(immediates, stack) /\ M = Lists(immediates', stack')
                     /\ m = [a \in 0..Len(stack) - 1 |-> IF a = 0 THEN 0 ELSE a + 1]
  OBVIOUS
<1>4. /\ DOMAIN L = 0..Len(stack) /\ DOMAIN M = 0..Len(stack) - 1 /\ Len(stack) \in Nat
      /\ L[0] = immediates /\ M[0] = immediates'
      /\ \A a \in 1..Len(stack) - 1 : M[a] = L[a + 1]
  <2>1. /\ DOMAIN L = 0..Len(stack) /\ Len(stack) \in Nat /\ L[0] = immediates
        /\ \A a \in 1..Len(stack) : L[a] = stack[a].todo
    BY <1>3, ListsAre
  <2>2. /\ DOMAIN M = 0..Len(stack) - 1 /\ M[0] = immediates'
        /\ \A a \in 1..Len(stack) - 1 : M[a] = stack'[a].todo
    BY <1>1, <1>3, ListsNext
  <2>3. \A a \in 1..Len(stack) - 1 : a + 1 \in 1..Len(stack)
    BY <2>1
  <2> QED BY <1>1, <2>1, <2>2, <2>3
<1>5. \A a \in DOMAIN M : m[a] \in DOMAIN L /\ M[a] = L[m[a]]
  BY <1>3, <1>4
<1>6. \A a, b \in DOMAIN M : m[a] = m[b] => a = b
  BY <1>3, <1>4
<1>7. Parted(L, Awaited) /\ Awaited \subseteq Awaited'
  BY <1>3 DEF Pending, Awaited
<1>8. Parted(M, Awaited')
  BY <1>5, <1>6, <1>7, PartedMoved
<1> QED BY <1>3, <1>8, PendingNext

\* A loop takes the immediates there are.
LEMMA PendingTaken ==
    ASSUME Typed, Typed', Pending, NEW g, NewTop(g), g.todo = immediates, immediates' = <<>>,
           Top.todo = <<>>, UNCHANGED <<begun, ran>>
    PROVE  Pending'
<1>1. /\ Len(stack') = Len(stack) /\ stack'[1] = g /\ \A i \in 2..Len(stack) : stack'[i] = stack[i]
  BY StackSet DEF NewTop, Typed
<1>3. PICK L, M, m : /\ L = Lists(immediates, stack) /\ M = Lists(immediates', stack')
                     /\ m = [a \in 0..Len(stack) |-> IF a = 0 THEN -1 ELSE IF a = 1 THEN 0 ELSE a]
  OBVIOUS
<1>4. /\ DOMAIN L = 0..Len(stack) /\ DOMAIN M = 0..Len(stack) /\ Len(stack) \in Nat /\ Len(stack) > 0
      /\ L[0] = immediates /\ M[0] = <<>> /\ M[1] = immediates
      /\ \A a \in 2..Len(stack) : M[a] = L[a]
  <2>1. /\ DOMAIN L = 0..Len(stack) /\ Len(stack) \in Nat /\ Len(stack) > 0 /\ L[0] = immediates
        /\ \A a \in 1..Len(stack) : L[a] = stack[a].todo
    BY <1>3, ListsAre
  <2>2. /\ DOMAIN M = 0..Len(stack) /\ M[0] = immediates'
        /\ \A a \in 1..Len(stack) : M[a] = stack'[a].todo
    BY <1>1, <1>3, ListsNext
  <2> QED BY <1>1, <2>1, <2>2
<1>5. ASSUME NEW a \in DOMAIN M
      PROVE  DOMAIN M[a] = {} \/ (m[a] \in DOMAIN L /\ M[a] = L[m[a]])
  <2>1. CASE a = 0
    BY <1>4, <2>1
  <2>2. CASE a = 1
    BY <1>3, <1>4, <2>2
  <2>3. CASE a \in 2..Len(stack)
    BY <1>3, <1>4, <2>3
  <2> QED BY <1>4, <2>1, <2>2, <2>3
<1>6. \A a, b \in DOMAIN M : m[a] = m[b] => a = b
  BY <1>3, <1>4
<1>7. Parted(L, Awaited) /\ Awaited \subseteq Awaited'
  BY <1>3 DEF Pending, Awaited
<1>8. Parted(M, Awaited')
  BY <1>5, <1>6, <1>7, PartedMoved
<1> QED BY <1>3, <1>8, PendingNext

\* The immediate that runs next has not run yet.
LEMMA NextAwaited ==
    ASSUME Typed, Pending, RunImmediate
    PROVE  Head(Top.todo) \in begun /\ Head(Top.todo) \notin ran
<1>1. Top.todo \in Seq(Works) /\ Top.todo # <<>>
  BY RunImmediateTop
<1>2. Head(Top.todo) = Top.todo[1] /\ 1 \in DOMAIN Top.todo
  BY <1>1, SeqFacts
<1>3. PICK L : L = Lists(immediates, stack)
  OBVIOUS
<1>4. 1 \in DOMAIN L /\ L[1] = Top.todo
  BY <1>3, ListsAre
<1>5. L[1][1] \in Awaited
  BY <1>2, <1>3, <1>4 DEF Pending, Parted
<1> QED BY <1>2, <1>4, <1>5 DEF Awaited

LEMMA PendingRun ==
    ASSUME Typed, Typed', Pending, RunImmediate
    PROVE  Pending'
<1>1. PICK w, q : w = Head(Top.todo) /\ q = Top.todo
  OBVIOUS
<1>2. PICK g : NewTop(g) /\ g.todo = Tail(q)
  BY <1>1, RunImmediateTop
<1>3. UNCHANGED <<begun, immediates>> /\ ran' = ran \cup {w}
  BY <1>1 DEF RunImmediate, queues
<1>4. /\ q \in Seq(Works) /\ q # <<>> /\ w = q[1] /\ Len(q) \in Nat /\ Len(q) > 0 /\ DOMAIN q = 1..Len(q)
      /\ Tail(q) \in Seq(Works) /\ Len(Tail(q)) = Len(q) - 1
      /\ \A i \in 1..Len(q) - 1 : Tail(q)[i] = q[i + 1]
  BY <1>1, RunImmediateTop, SeqFacts
<1>5. /\ Len(stack') = Len(stack) /\ stack'[1] = g /\ \A i \in 2..Len(stack) : stack'[i] = stack[i]
  BY <1>2, StackSet DEF NewTop, Typed
<1>6. PICK L, M : L = Lists(immediates, stack) /\ M = Lists(immediates', stack')
  OBVIOUS
<1>7. /\ DOMAIN L = 0..Len(stack) /\ DOMAIN M = 0..Len(stack) /\ Len(stack) \in Nat /\ Len(stack) > 0
      /\ M[0] = L[0] /\ L[1] = q /\ M[1] = Tail(q)
      /\ \A a \in 2..Len(stack) : M[a] = L[a]
  <2>1. /\ DOMAIN L = 0..Len(stack) /\ Len(stack) \in Nat /\ Len(stack) > 0 /\ L[0] = immediates
        /\ \A a \in 1..Len(stack) : L[a] = stack[a].todo
        /\ Top = stack[1]
    BY <1>6, ListsAre
  <2>2. /\ DOMAIN M = 0..Len(stack) /\ M[0] = immediates'
        /\ \A a \in 1..Len(stack) : M[a] = stack'[a].todo
    BY <1>5, <1>6, ListsNext
  <2> QED BY <1>1, <1>2, <1>3, <1>5, <2>1, <2>2
\* Where an item of M was in L.
<1> DEFINE Was(a, i) == IF a = 1 THEN i + 1 ELSE i
<1>8. ASSUME NEW a \in DOMAIN M, NEW i \in DOMAIN M[a]
      PROVE  /\ a \in DOMAIN L /\ Was(a, i) \in DOMAIN L[a] /\ M[a][i] = L[a][Was(a, i)]
             /\ a = 1 => i \in Int /\ Was(a, i) # 1
  <2>1. CASE a = 1
    <3>1. i \in 1..Len(q) - 1 /\ i + 1 \in 1..Len(q) /\ i + 1 # 1
      BY <1>4, <1>7, <2>1
    <3>2. Tail(q)[i] = q[i + 1]
      BY <1>4, <3>1
    <3> QED BY <1>4, <1>7, <2>1, <3>1, <3>2
  <2>2. CASE a # 1
    <3>1. M[a] = L[a]
      BY <1>7, <2>2
    <3> QED BY <1>7, <2>2, <3>1
  <2> QED BY <2>1, <2>2
<1>9. 1 \in DOMAIN L /\ 1 \in DOMAIN L[1] /\ L[1][1] = w
  BY <1>4, <1>7
<1>10. Parted(L, Awaited)
  BY <1>6 DEF Pending
<1>11. ASSUME NEW a \in DOMAIN M, NEW b \in DOMAIN M, NEW i \in DOMAIN M[a], NEW j \in DOMAIN M[b]
       PROVE  M[a][i] \in Awaited' /\ (M[a][i] = M[b][j] => a = b /\ i = j)
  <2>1. /\ a \in DOMAIN L /\ Was(a, i) \in DOMAIN L[a] /\ M[a][i] = L[a][Was(a, i)]
        /\ b \in DOMAIN L /\ Was(b, j) \in DOMAIN L[b] /\ M[b][j] = L[b][Was(b, j)]
        /\ a = 1 => i \in Int /\ Was(a, i) # 1
        /\ b = 1 => j \in Int
    BY <1>8
  <2>2. PICK x, y : x = Was(a, i) /\ y = Was(b, j)
    OBVIOUS
  <2>3. /\ L[a][x] \in Awaited
        /\ L[a][x] = L[b][y] => a = b /\ x = y
        /\ L[a][x] = L[1][1] => a = 1 /\ x = 1
    BY <1>9, <1>10, <2>1, <2>2 DEF Parted
  <2>4. M[a][i] # w
    BY <1>9, <2>1, <2>2, <2>3
  <2>5. M[a][i] \in Awaited'
    BY <1>3, <2>1, <2>2, <2>3, <2>4 DEF Awaited
  <2>6. a = b /\ x = y => i = j
    BY <2>1, <2>2
  <2> QED BY <2>1, <2>2, <2>3, <2>5, <2>6
<1>12. Parted(M, Awaited')
  BY <1>11 DEF Parted
<1> QED BY <1>6, <1>12, PendingNext

LEMMA TakeTodo ==
    ASSUME Typed, NEW k \in 0..Len(line), TakeBatch(k)
    PROVE  \E g : NewTop(g) /\ g.todo = Top.todo
<1>1. PICK g : g = Looked(tasks', k)
  OBVIOUS
<1>2. k \in Nat /\ tasks' \in Fifos(Works)
  <2>1. k \in Nat
    BY DEF Typed
  <2>2. tasks' \in Fifos(Works)
    BY TakeTop
  <2> QED BY <2>1, <2>2
<1>3. FrameOK(Top) /\ At("take")
  BY TopOK DEF Typed, TakeBatch
<1>4. FrameOK(g) /\ (g.mode = "wait" <=> Top.mode = "wait") /\ g.todo = Top.todo
  BY <1>1, <1>2, <1>3, Looks
<1>5. SetTop(g)
  BY <1>1 DEF TakeBatch
<1> QED BY <1>4, <1>5 DEF NewTop

LEMMA PendingTurn ==
    ASSUME Typed, Typed', Pending, Turn
    PROVE  Pending'
<1>1. FrameOK(Top)
  BY TopOK DEF Typed
<1>2. CASE Return \/ UpdateCounts \/ RanImmediates \/ Poll \/ Fired \/ Start \/ CheckAlive \/ RanTasks
  <2>1. (Pop /\ Top.todo = <<>>) \/ (\E g : NewTop(g) /\ g.todo = Top.todo)
    <3>1. CASE Fired
      <4>1. Top.todo = <<>>
        BY <1>1, <3>1 DEF Fired, At, FrameOK
      <4> QED BY <3>1, <4>1, FiredTop
    <3>2. CASE Return \/ UpdateCounts \/ RanImmediates \/ RanTasks
      BY <3>2, ReturnTop, CountTop, RanImmediatesTop, RanTop
    <3>3. CASE Poll \/ Start \/ CheckAlive
      BY <3>3, PollTop, StartTop, CheckAliveTop
    <3> QED BY <1>2, <3>1, <3>2, <3>3
  <2>2. UNCHANGED <<begun, ran, immediates>>
    BY <1>2 DEF Return, UpdateCounts, RanImmediates, Poll, Fired, Start, CheckAlive, RanTasks, queues, history
  <2>3. Awaited \subseteq Awaited'
    BY <2>2 DEF Awaited
  <2> QED BY <2>1, <2>2, <2>3, PendingKept, PendingPop
<1>3. ASSUME NEW k \in 0..Len(line), TakeBatch(k) PROVE Pending'
  <2>1. \E g : NewTop(g) /\ g.todo = Top.todo
    BY <1>3, TakeTodo
  <2>2. UNCHANGED <<begun, ran, immediates>>
    BY <1>3 DEF TakeBatch, history
  <2>3. Awaited \subseteq Awaited'
    BY <2>2 DEF Awaited
  <2> QED BY <2>1, <2>2, <2>3, PendingKept
<1>4. CASE RunTask
  <2>1. PICK w : w = Head(tasks.items)
    OBVIOUS
  <2>2. (\E g : NewTop(g) /\ g.todo = Top.todo) /\ Kind[w] # "immediate"
    BY <1>4, <2>1, RunTop
  <2>3. UNCHANGED <<begun, immediates>> /\ ran' = ran \cup {w}
    BY <1>4, <2>1 DEF RunTask, Ran
  <2>4. Awaited \subseteq Awaited'
    BY <2>2, <2>3 DEF Awaited
  <2> QED BY <2>2, <2>3, <2>4, PendingKept
<1>5. CASE Ticked
  <2>1. UNCHANGED <<begun, ran>> /\ Top.todo = <<>>
    BY <1>1, <1>5 DEF Ticked, history, At, FrameOK
  <2>2. CASE immediates' = immediates /\ (Pop \/ \E g : NewTop(g) /\ g.todo = Top.todo)
    <3>1. Awaited \subseteq Awaited'
      BY <2>1 DEF Awaited
    <3> QED BY <2>1, <2>2, <3>1, PendingKept, PendingPop
  <2>3. CASE immediates' = <<>> /\ \E g : NewTop(g) /\ g.todo = immediates
    BY <2>1, <2>3, PendingTaken
  <2> QED BY <1>5, <2>2, <2>3, TickedTop
<1>6. ASSUME NEW w \in Works, Fire(w) PROVE Pending'
  <2>1. (\E g : NewTop(g) /\ g.todo = Top.todo) /\ Kind[w] = "timer"
    BY <1>6, FireTop
  <2>2. UNCHANGED <<begun, immediates>> /\ ran' = ran \cup {w}
    BY <1>6 DEF Fire, queues
  <2>3. Awaited \subseteq Awaited'
    BY <2>1, <2>2 DEF Awaited
  <2> QED BY <2>1, <2>2, <2>3, PendingKept
<1> QED BY <1>2, <1>3, <1>4, <1>5, <1>6, PendingRun DEF Turn

LEMMA PendingStep == Typed /\ Typed' /\ Tallied /\ Pending /\ [Next]_vars => Pending'
<1> SUFFICES ASSUME Typed, Typed', Tallied, Pending, [Next]_vars PROVE Pending'
  OBVIOUS
<1>1. ASSUME NEW w \in Works, BeginAny(w) \/ WaitForPromise(w) PROVE Pending'
  BY <1>1, PendingBegin, PendingWait
<1>2. CASE UNCHANGED <<stack, immediates, begun, ran>>
  <2>1. Awaited \subseteq Awaited'
    BY <1>2 DEF Awaited
  <2> QED BY <1>2, <2>1, PendingKept
<1>3. ASSUME NEW w \in Works, Pool(w) PROVE UNCHANGED <<stack, immediates, begun, ran>>
  BY <1>3 DEF Pool, Finish, LinkResult, WakeLoop, UnrefConcurrently, WakeUnrefed, queues, history
<1> QED BY <1>1, <1>2, <1>3, PendingTurn DEF Next, vars, queues, history

LEMMA CountedTurn ==
    ASSUME Typed, Typed', Tallied, CountsExact, Pending, Turn
    PROVE  Tallied' /\ CountsExact'
<1>1. /\ line \in Seq(Works) /\ tasks.items \in Seq(Works)
      /\ active \in Int /\ delta \in Int /\ begun \subseteq Works /\ Marks /\ Once /\ Firings
      /\ IsFiniteSet(begun) /\ FrameOK(Top) /\ NoWork \notin Works
      /\ thread \in [Works -> Threads] /\ clock \in [Works -> {"off", "armed", "due"}]
  BY RingFields, TopOK, TaskLoopAssumption DEF Typed, Tallied
<1>2. CASE Return
  <2>1. PICK g : NewTop(g) /\ g.task = NoWork
    BY <1>2, ReturnTop
  <2>2. UNCHANGED <<line, tasks, immediateRefs, delta, thread, clock, begun, ran>>
    BY <1>2 DEF Return, queues, channel, history
  <2>3. CASE Top.from # "timers"
    <3>1. Top.task \in Works => Kind[Top.task] # "timer"
      BY <1>1, <2>3 DEF FrameOK
    <3>2. active' + delta' = active + delta /\ UNCHANGED shared
      BY <1>2, <2>2, <2>3 DEF Return, shared
    <3> QED BY <2>1, <2>2, <3>1, <3>2, CountedKept
  <2>4. CASE Top.from = "timers"
    <3>1. Top.task \in Works /\ Kind[Top.task] = "timer"
      BY <1>1, <1>2, <2>4 DEF FrameOK, Return, At
    <3>2. Firings' /\ Firing' = Firing \ {Top.task} /\ Top.task \in Firing
      BY <1>1, <2>1, <2>2, <3>1, FiringEnds
    <3>3. Top.task \in ran
      <4>1. Top = stack[1] /\ 1 \in DOMAIN stack
        BY TopOK DEF Typed
      <4> QED BY <1>1, <3>1, <4>1 DEF Firings
    <3>4. Top.task \in begun
      BY <1>1, <3>1, <3>3 DEF Marks
    <3>5. Once'
      BY <1>1, <2>2, OnceKept DEF Due, DueNext
    <3>6. Marks' /\ IsFiniteSet(begun')
      BY <1>1, <2>2 DEF Marks
    <3>7. \A v \in begun \ {Top.task} : Needs(v)' <=> Needs(v)
      BY <2>2, <3>2 DEF Needs
    <3>8. PICK v : v = Top.task
      OBVIOUS
    <3>9. Needs(v) /\ ~Needs(v)'
      BY <2>2, <3>1, <3>2, <3>3, <3>8 DEF Needs
    <3>10. Retakes(v, -1) /\ Kind[v] \in {"work", "cpp", "timer", "immediate"}
      <4>1. IncrementTimerRef(-1)
        BY <1>2, <2>4 DEF Return
      <4> QED BY <2>2, <3>1, <3>8, <4>1 DEF Retakes
    <3> QED BY <2>2, <3>2, <3>4, <3>5, <3>6, <3>7, <3>8, <3>9, <3>10, OneLess DEF Tallied
  <2> QED BY <2>3, <2>4
<1>3. CASE UpdateCounts
  <2>1. PICK g : NewTop(g) /\ g.task = NoWork
    BY <1>3, CountTop
  <2>2. /\ UNCHANGED <<line, tasks, shared, thread, clock, begun, ran>>
        /\ active' = active + delta /\ delta' = 0 /\ Top.pc = "counts"
    BY <1>3 DEF UpdateCounts, At, queues, channel, history
  <2>3. Top.task \notin Works
    BY <1>1, <2>2 DEF FrameOK
  <2>4. active' + delta' = active + delta
    BY <1>1, <2>2
  <2> QED BY <2>1, <2>2, <2>3, <2>4, CountedKept
<1>4. ASSUME NEW k \in 0..Len(line), TakeBatch(k) PROVE Tallied' /\ CountsExact'
  <2>1. PICK g : NewTop(g) /\ g.task = NoWork
    BY <1>4, TakeTop
  <2>2. PICK i \in 0..k : tasks'.items = tasks.items \o SubSeq(line, 1, i)
    BY <1>4, TakeTop
  <2>3. line' = SubSeq(line, k + 1, Len(line))
    BY <1>4, TakeTop
  <2>4. UNCHANGED <<active, shared, delta, thread, clock, begun, ran>> /\ Top.pc = "take"
    BY <1>4 DEF TakeBatch, At, loop, history
  <2>5. Top.task \notin Works
    BY <1>1, <2>4 DEF FrameOK
  <2>6. Firings' /\ Firing' = Firing
    BY <1>1, <2>1, <2>4, <2>5, FiringKept
  <2>7. Once'
    <3>1. PICK t, u : t = tasks'.items /\ u = line'
      OBVIOUS
    <3>2. /\ Apart(t, u)
          /\ \A m \in DOMAIN t : (\E j \in DOMAIN tasks.items : t[m] = tasks.items[j])
                                \/ \E j \in DOMAIN line : t[m] = line[j]
          /\ \A m \in DOMAIN u : \E j \in DOMAIN line : u[m] = line[j]
      <4>1. t = tasks.items \o SubSeq(line, 1, i) /\ u = SubSeq(line, k + 1, Len(line))
        BY <2>2, <2>3, <3>1
      <4>2. Apart(tasks.items, line)
        BY <1>1 DEF Once
      <4>3. k \in 0..Len(line) /\ i \in 0..k /\ tasks.items \in Seq(Works) /\ line \in Seq(Works)
        BY <1>1
      <4>4. PICK q, r : q = tasks.items /\ r = line
        OBVIOUS
      <4>6. /\ q \in Seq(Works) /\ r \in Seq(Works) /\ k \in 0..Len(r) /\ i \in 0..k
            /\ t = q \o SubSeq(r, 1, i) /\ u = SubSeq(r, k + 1, Len(r))
        BY <4>1, <4>3, <4>4
      <4>7. Apart(q, r)
        BY <4>2, <4>4
      <4>8. Taking(q, r, k, i, t, u)
        BY <4>6, <4>7 DEF Taking
      <4>5. /\ Apart(t, u)
            /\ \A m \in DOMAIN t : (\E j \in DOMAIN q : t[m] = q[j]) \/ \E j \in DOMAIN r : t[m] = r[j]
            /\ \A m \in DOMAIN u : \E j \in DOMAIN r : u[m] = r[j]
        BY <4>8, ApartTaken
      <4> QED BY <4>4, <4>5
    <3>3. /\ \A j \in DOMAIN tasks.items : DueNext(tasks.items[j])
          /\ \A j \in DOMAIN line : DueNext(line[j])
      BY <1>1, <2>4 DEF Once, Due, DueNext
    <3>4. (\A m \in DOMAIN t : DueNext(t[m])) /\ \A m \in DOMAIN u : DueNext(u[m])
      BY <3>2, <3>3
    <3> QED BY <3>1, <3>2, <3>4, OnceNext
  <2>8. Marks' /\ IsFiniteSet(begun')
    BY <1>1, <2>4 DEF Marks
  <2>9. \A v \in begun : Needs(v)' <=> Needs(v)
    BY <2>4, <2>6 DEF Needs
  <2> QED BY <2>4, <2>6, <2>7, <2>8, <2>9, SameNeeds DEF Tallied
<1>5. CASE RunTask
  <2>0. PICK w : w = Head(tasks.items)
    OBVIOUS
  <2>1. /\ w \in Works /\ tasks.items # <<>> /\ tasks'.items = Tail(tasks.items)
        /\ Kind[w] \in {"work", "cpp", "post", "local"}
    BY <1>5, <2>0, RunTop
  <2>2. PICK g : NewTop(g) /\ g.task = w
    BY <1>5, <2>0, RunTop
  <2>3. /\ UNCHANGED <<line, shared, delta, thread, clock, begun>> /\ ran' = ran \cup {w} /\ Top.pc = "run"
        /\ active' = IF Kind[w] = "work" THEN active - 1 ELSE active
    BY <1>5, <2>0 DEF RunTask, Ran, At, channel
  <2>4. Due(w)
    <3>1. w = tasks.items[1] /\ 1 \in DOMAIN tasks.items
      BY <1>1, <2>0, <2>1, SeqFacts
    <3> QED BY <1>1, <3>1 DEF Once
  <2>5. Firings' /\ Firing' = Firing
    <3>1. Top.task \notin Works
      BY <1>1, <2>3 DEF FrameOK
    <3> QED BY <1>1, <2>1, <2>2, <2>3, <3>1, FiringKept
  <2>6. Once'
    <3>1. /\ Apart(Tail(tasks.items), line)
          /\ \A i \in DOMAIN Tail(tasks.items) :
               Tail(tasks.items)[i] # w /\ \E j \in DOMAIN tasks.items : Tail(tasks.items)[i] = tasks.items[j]
          /\ \A i \in DOMAIN line : line[i] # w
      BY <1>1, <2>0, <2>1, ApartTail DEF Once
    <3>2. \A v : Due(v) /\ v # w => DueNext(v)
      BY <2>3 DEF Due, DueNext
    <3>3. /\ \A j \in DOMAIN tasks.items : Due(tasks.items[j])
          /\ \A j \in DOMAIN line : Due(line[j])
      BY <1>1 DEF Once
    <3>4. PICK t : t = Tail(tasks.items)
      OBVIOUS
    <3>5. (\A i \in DOMAIN t : DueNext(t[i])) /\ \A i \in DOMAIN line : DueNext(line[i])
      BY <3>1, <3>2, <3>3, <3>4
    <3> QED BY <2>1, <2>3, <3>1, <3>4, <3>5, OnceNext
  <2>7. Marks' /\ IsFiniteSet(begun')
    <3>1. clock[w] = "off" /\ w \in begun /\ thread[w] # "pool"
      BY <1>1, <2>1, <2>4 DEF Typed, Due
    <3> QED BY <1>1, <2>1, <2>3, <3>1 DEF Marks
  <2>8. \A v \in begun \ {w} : Needs(v)' <=> Needs(v)
    BY <2>3, <2>5 DEF Needs
  <2>9. CASE Kind[w] = "work"
    <3>1. w \in begun /\ Needs(w) /\ ~Needs(w)'
      BY <2>3, <2>4, <2>9 DEF Needs, Due
    <3>2. Retakes(w, -1) /\ Kind[w] \in {"work", "cpp", "timer", "immediate"}
      BY <1>1, <2>3, <2>9 DEF Retakes
    <3> QED BY <2>3, <2>5, <2>6, <2>7, <2>8, <3>1, <3>2, OneLess DEF Tallied
  <2>10. CASE Kind[w] # "work"
    <3>1. Needs(w)' <=> Needs(w)
      BY <2>1, <2>3, <2>10 DEF Needs
    <3>2. active' + delta' = active + delta
      BY <2>3, <2>10
    <3>3. \A v \in begun : Needs(v)' <=> Needs(v)
      BY <2>8, <3>1
    <3> QED BY <2>3, <2>5, <2>6, <2>7, <3>2, <3>3, SameNeeds DEF Tallied
  <2> QED BY <2>9, <2>10
<1>6. CASE RanTasks
  <2>1. PICK g : NewTop(g) /\ g.task = NoWork /\ tasks'.items = tasks.items
    BY <1>6, RanTop
  <2>2. UNCHANGED <<line, active, shared, delta, thread, clock, begun, ran>> /\ Top.pc = "run"
    BY <1>6 DEF RanTasks, At, channel, loop, history
  <2>3. Top.task \notin Works
    BY <1>1, <2>2 DEF FrameOK
  <2> QED BY <2>1, <2>2, <2>3, CountedKept
<1>7. CASE Ticked
  <2>1. Pop \/ \E g : NewTop(g) /\ g.task = NoWork
    BY <1>7, TickedTop
  <2>2. UNCHANGED <<line, tasks, active, shared, delta, thread, clock, begun, ran>> /\ Top.pc = "ticked"
    BY <1>7 DEF Ticked, At, channel, loop, history
  <2>3. Top.task \notin Works
    BY <1>1, <2>2 DEF FrameOK
  <2> QED BY <2>1, <2>2, <2>3, CountedKept
<1>8. CASE RunImmediate
  <2>0. PICK w : w = Head(Top.todo)
    OBVIOUS
  <2>1. w \in Works /\ Kind[w] = "immediate"
    BY <1>8, <2>0, RunImmediateTop
  <2>2. PICK g : NewTop(g) /\ g.task = w
    BY <1>8, <2>0, RunImmediateTop
  <2>3. /\ UNCHANGED <<line, tasks, timerRefs, delta, thread, clock, begun>> /\ ran' = ran \cup {w}
        /\ Top.pc = "immediates" /\ IncrementImmediateRef(-1)
    BY <1>8, <2>0 DEF RunImmediate, At, queues, channel
  <2>9. w \in begun /\ w \notin ran
    BY <1>8, <2>0, NextAwaited
  <2>4. Top.task \notin Works
    BY <1>1, <2>3 DEF FrameOK
  <2>5. Firings' /\ Firing' = Firing
    BY <1>1, <2>1, <2>2, <2>3, <2>4, FiringKept
  <2>6. Once'
    BY <1>1, <2>1, <2>3, OnceKept DEF Due, DueNext
  <2>7. Marks' /\ IsFiniteSet(begun')
    <3>1. thread[w] = "off" /\ clock[w] = "off"
      BY <1>1, <2>1 DEF Typed
    <3> QED BY <1>1, <2>1, <2>3, <2>9, <3>1 DEF Marks
  <2>8. \A v \in begun \ {w} : Needs(v)' <=> Needs(v)
    BY <2>1, <2>3, <2>5 DEF Needs
  <2>10. Needs(w) /\ ~Needs(w)'
    BY <2>1, <2>3, <2>9 DEF Needs
  <2>11. Retakes(w, -1) /\ Kind[w] \in {"work", "cpp", "timer", "immediate"}
    BY <2>1, <2>3 DEF Retakes
  <2> QED BY <2>3, <2>5, <2>6, <2>7, <2>8, <2>9, <2>10, <2>11, OneLess DEF Tallied
<1>9. CASE RanImmediates
  <2>1. PICK g : NewTop(g) /\ g.task = NoWork
    BY <1>9, RanImmediatesTop
  <2>2. UNCHANGED <<line, tasks, active, shared, delta, thread, clock, begun, ran>> /\ Top.pc = "immediates"
    BY <1>9 DEF RanImmediates, At, queues, channel, history
  <2>3. Top.task \notin Works
    BY <1>1, <2>2 DEF FrameOK
  <2> QED BY <2>1, <2>2, <2>3, CountedKept
<1>10. CASE Poll
  <2>1. (\E g : NewTop(g) /\ g.task = NoWork) /\ \A w \in Works : clock'[w] # "off" => clock[w] # "off"
    BY <1>10, PollTop
  <2>2. UNCHANGED <<line, tasks, active, shared, delta, thread, begun, ran>> /\ Top.pc = "poll"
    BY <1>10 DEF Poll, At, queues, channel, history
  <2>3. Top.task \notin Works
    BY <1>1, <2>2 DEF FrameOK
  <2> QED BY <2>1, <2>2, <2>3, CountedKept
<1>11. ASSUME NEW w \in Works, Fire(w) PROVE Tallied' /\ CountsExact'
  <2>1. PICK g : NewTop(g) /\ g.task = w /\ Kind[w] = "timer"
    BY <1>11, FireTop
  <2>2. /\ UNCHANGED <<line, tasks, active, shared, delta, thread, begun>> /\ ran' = ran \cup {w}
        /\ clock' = [clock EXCEPT ![w] = "off"] /\ clock[w] = "due" /\ Top.pc = "timers"
    BY <1>11 DEF Fire, At, queues, channel, loop
  <2>3. Top.task = NoWork /\ w \in begun /\ w \notin ran
    BY <1>1, <2>2 DEF FrameOK, Marks
  <2>4. Firings' /\ Firing' = Firing \cup {w}
    BY <1>1, <2>1, <2>2, <2>3, FiringBegins
  <2>5. Once'
    BY <1>1, <2>1, <2>2, OnceKept DEF Due, DueNext
  <2>6. Marks' /\ IsFiniteSet(begun')
    <3>1. thread[w] = "off" /\ clock'[w] = "off" /\ \A v \in Works : v # w => clock'[v] = clock[v]
      BY SMTT(60), <1>1, <2>1, <2>2 DEF Typed
    <3> QED BY <1>1, <2>2, <2>3, <3>1 DEF Marks
  <2>7. \A v \in begun : Needs(v)' <=> Needs(v)
    BY <2>1, <2>2, <2>3, <2>4 DEF Needs
  <2> QED BY <2>2, <2>4, <2>5, <2>6, <2>7, SameNeeds DEF Tallied
<1>12. CASE Fired \/ Start \/ CheckAlive
  <2>1. Pop \/ \E g : NewTop(g) /\ g.task = NoWork
    BY <1>12, FiredTop, StartTop, CheckAliveTop
  <2>2. UNCHANGED <<line, tasks, active, shared, delta, thread, clock, begun, ran>> /\ Top.pc # "js"
    BY <1>12 DEF Fired, Start, CheckAlive, At, queues, channel, loop, history
  <2>3. Top.task \notin Works
    BY <1>1, <2>2 DEF FrameOK
  <2> QED BY <2>1, <2>2, <2>3, CountedKept
<1> QED BY <1>2, <1>3, <1>4, <1>5, <1>6, <1>7, <1>8, <1>9, <1>10, <1>11, <1>12 DEF Turn

LEMMA CountedStep ==
    Typed /\ Typed' /\ Tallied /\ CountsExact /\ Pending /\ [Next]_vars
        => Tallied' /\ CountsExact' /\ Pending'
<1> SUFFICES ASSUME Typed, Typed', Tallied, CountsExact, Pending, [Next]_vars
             PROVE  Tallied' /\ CountsExact'
  BY PendingStep
<1>1. ASSUME NEW w \in Works, BeginAny(w) \/ WaitForPromise(w) \/ Pool(w) PROVE Tallied' /\ CountsExact'
  BY <1>1, CountedBegin, CountedWait, CountedPool
<1>2. CASE Turn
  BY <1>2, CountedTurn
<1>3. CASE UNCHANGED vars
  <2>1. UNCHANGED <<line, tasks, active, shared, delta, thread, clock, stack, begun, ran>>
    BY <1>3 DEF vars, queues, channel, loop, history
  <2> QED BY <2>1, CountedKept
<1> QED BY <1>1, <1>2, <1>3 DEF Next

\* The references that the loop counts, applied or not, are in every state
\* those of the works that still need it: none leaks and none is given back
\* twice, whatever the program begins and however its loops are nested.
THEOREM ReferencesExact == Spec => []CountsExact
<1>1. Init => Typed /\ Tallied /\ CountsExact /\ Pending
  BY TypedInit, TalliedInit, PendingInit
<1>2. Typed /\ Tallied /\ CountsExact /\ Pending /\ [Next]_vars => (Typed /\ Tallied /\ CountsExact /\ Pending)'
  BY TypedStep, CountedStep
<1> QED BY <1>1, <1>2, PTL DEF Spec

-----------------------------------------------------------------------------
(* The types in full, and the exit.                                        *)

LEMMA SetsOf ==
    ASSUME NEW q \in Seq(Works)
    PROVE  /\ Sets(q) \subseteq Works /\ (q = <<>> => Sets(q) = {})
           /\ \A w : w \in Sets(q) <=> \E i \in 1..Len(q) : q[i] = w
BY DEF Sets

LEMMA SetsAppended ==
    ASSUME NEW q \in Seq(Works), NEW w \in Works
    PROVE  Sets(Append(q, w)) = Sets(q) \cup {w}
<1>1. PICK t : t = Append(q, w)
  OBVIOUS
<1>2. /\ t \in Seq(Works) /\ Len(t) = Len(q) + 1 /\ Len(q) \in Nat
      /\ t[Len(q) + 1] = w /\ \A i \in 1..Len(q) : t[i] = q[i]
  BY <1>1, Appended
<1>3. \A v : v \in Sets(t) <=> \E i \in 1..Len(q) + 1 : t[i] = v
  BY <1>2, SetsOf
<1>4. \A v : v \in Sets(q) <=> \E i \in 1..Len(q) : q[i] = v
  BY SetsOf
<1>5. ASSUME NEW v PROVE v \in Sets(t) <=> v \in Sets(q) \/ v = w
  <2>1. ASSUME NEW i \in 1..Len(q) + 1, t[i] = v PROVE v \in Sets(q) \/ v = w
    BY <1>2, <1>4, <2>1
  <2>2. ASSUME v \in Sets(q) PROVE v \in Sets(t)
    <3>1. PICK i \in 1..Len(q) : q[i] = v
      BY <1>4, <2>2
    <3> QED BY <1>2, <1>3, <3>1
  <2>3. ASSUME v = w PROVE v \in Sets(t)
    BY <1>2, <1>3, <2>3
  <2> QED BY <1>3, <2>1, <2>2, <2>3
<1> QED BY <1>1, <1>5

LEMMA SetsConcat ==
    ASSUME NEW q \in Seq(Works), NEW r \in Seq(Works)
    PROVE  Sets(q \o r) = Sets(q) \cup Sets(r)
<1>1. PICK t : t = q \o r
  OBVIOUS
<1>2. /\ t \in Seq(Works) /\ Len(t) = Len(q) + Len(r) /\ Len(q) \in Nat /\ Len(r) \in Nat
      /\ \A i \in 1..Len(q) : t[i] = q[i]
      /\ \A i \in 1..Len(r) : t[Len(q) + i] = r[i]
  BY <1>1, Concat
<1>3. \A v : v \in Sets(t) <=> \E i \in 1..Len(q) + Len(r) : t[i] = v
  BY <1>2, SetsOf
<1>4. /\ \A v : v \in Sets(q) <=> \E i \in 1..Len(q) : q[i] = v
      /\ \A v : v \in Sets(r) <=> \E i \in 1..Len(r) : r[i] = v
  BY SetsOf
<1>5. ASSUME NEW v PROVE v \in Sets(t) <=> v \in Sets(q) \/ v \in Sets(r)
  <2>1. ASSUME NEW i \in 1..Len(q) + Len(r), t[i] = v PROVE v \in Sets(q) \/ v \in Sets(r)
    <3>1. CASE i <= Len(q)
      BY <1>2, <1>4, <2>1, <3>1
    <3>2. CASE i > Len(q)
      <4>1. PICK j \in 1..Len(r) : i = Len(q) + j
        <5>1. i - Len(q) \in 1..Len(r) /\ i = Len(q) + (i - Len(q))
          BY <1>2, <3>2
        <5> QED BY <5>1
      <4> QED BY <1>2, <1>4, <2>1, <4>1
    <3> QED BY <1>2, <3>1, <3>2
  <2>2. ASSUME v \in Sets(q) PROVE v \in Sets(t)
    <3>1. PICK i \in 1..Len(q) : q[i] = v
      BY <1>4, <2>2
    <3> QED BY <1>2, <1>3, <3>1
  <2>3. ASSUME v \in Sets(r) PROVE v \in Sets(t)
    <3>1. PICK i \in 1..Len(r) : r[i] = v
      BY <1>4, <2>3
    <3>2. Len(q) + i \in 1..Len(q) + Len(r)
      BY <1>2
    <3> QED BY <1>2, <1>3, <3>1, <3>2
  <2> QED BY <1>3, <2>1, <2>2, <2>3
<1> QED BY <1>1, <1>5

LEMMA SetsTail ==
    ASSUME NEW q \in Seq(Works), q # <<>>
    PROVE  Sets(q) = Sets(Tail(q)) \cup {Head(q)}
<1>1. PICK t, h : t = Tail(q) /\ h = Head(q)
  OBVIOUS
<1>2. /\ t \in Seq(Works) /\ h \in Works /\ <<h>> \o t = q
  <2>1. Tail(q) \in Seq(Works) /\ Head(q) \in Works
    BY SeqFacts
  <2>2. <<Head(q)>> \o Tail(q) = q
    BY HeadAndTail
  <2> QED BY <1>1, <2>1, <2>2
<1>3. <<h>> \in Seq(Works) /\ Sets(<<h>>) = {h}
  <2>1. PICK r : r = <<h>>
    OBVIOUS
  <2>2. r \in Seq(Works) /\ Len(r) = 1 /\ r[1] = h
    BY <1>2, <2>1
  <2>3. \A v : v \in Sets(r) <=> \E i \in 1..Len(r) : r[i] = v
    BY <2>2, SetsOf
  <2>4. Sets(r) = {h}
    BY <2>2, <2>3
  <2> QED BY <2>1, <2>2, <2>4
<1>4. Sets(<<h>> \o t) = Sets(<<h>>) \cup Sets(t)
  BY <1>2, <1>3, SetsConcat
<1> QED BY <1>1, <1>2, <1>3, <1>4

\* The immediates that loops took and have not run yet.
Todos == UNION {Sets(stack[i].todo) : i \in DOMAIN stack}

\* Every loop but the first is nested.
Nested == \A i \in 1..Len(stack) - 1 : stack[i].mode = "wait"

LEMMA FrameTodo ==
    ASSUME NEW f, FrameOK(f)
    PROVE  f.todo \in Seq(Works) /\ Sets(f.todo) \subseteq Works
BY SetsOf DEF FrameOK, Frame

\* What a change of the frame on top does to them.
LEMMA TodosTop ==
    ASSUME Typed, Nested, NEW g, NewTop(g), NEW rest,
           rest = UNION {Sets(stack[i].todo) : i \in 2..Len(stack)}
    PROVE  /\ Nested' /\ Todos = Sets(Top.todo) \cup rest
           /\ Todos' = Sets(g.todo) \cup rest
<1>1. /\ StackOK /\ Len(stack) \in Nat /\ Len(stack) > 0
      /\ DOMAIN stack = 1..Len(stack) /\ Top = stack[1]
  BY TopOK DEF Typed
<1>2. /\ StackOK' /\ stack'[1] = g /\ Len(stack') = Len(stack)
      /\ \A i \in 2..Len(stack) : stack'[i] = stack[i]
  BY <1>1, StackSet DEF NewTop
<1>3. DOMAIN stack' = 1..Len(stack)
  BY <1>2 DEF StackOK
<1>4. Nested'
  <2>1. SUFFICES ASSUME NEW i \in 1..Len(stack) - 1 PROVE stack'[i].mode = "wait"
    BY <1>2 DEF Nested
  <2>2. CASE i = 1
    BY <1>1, <1>2, <2>2 DEF Nested, NewTop
  <2>3. CASE i # 1
    <3>1. stack'[i] = stack[i]
      BY <1>1, <1>2, <2>3
    <3> QED BY <3>1 DEF Nested
  <2> QED BY <2>2, <2>3
<1>5. 1..Len(stack) = {1} \cup 2..Len(stack)
  BY <1>1
<1>6. Todos = Sets(Top.todo) \cup rest
  BY <1>1, <1>5 DEF Todos
<1>7. Todos' = Sets(g.todo) \cup rest
  <2>1. Todos' = UNION {Sets(stack'[i].todo) : i \in 1..Len(stack)}
    BY <1>3 DEF Todos
  <2>2. Todos' = Sets(stack'[1].todo) \cup UNION {Sets(stack'[i].todo) : i \in 2..Len(stack)}
    BY <1>5, <2>1
  <2>3. {Sets(stack'[i].todo) : i \in 2..Len(stack)} = {Sets(stack[i].todo) : i \in 2..Len(stack)}
    BY <1>2
  <2> QED BY <1>2, <2>2, <2>3
<1> QED BY <1>4, <1>6, <1>7

LEMMA TodosPopped ==
    ASSUME Typed, Nested, Pop, Top.todo = <<>>
    PROVE  Nested' /\ Todos' = Todos
<1>1. /\ StackOK /\ Len(stack) \in Nat /\ Len(stack) > 0
      /\ DOMAIN stack = 1..Len(stack) /\ Top = stack[1]
  BY TopOK DEF Typed
<1>2. /\ StackOK' /\ Len(stack) > 1 /\ Len(stack') = Len(stack) - 1
      /\ \A i \in 1..Len(stack) - 1 : stack'[i] = stack[i + 1]
  BY <1>1, StackPop DEF Pop
<1>3. DOMAIN stack' = 1..Len(stack) - 1
  BY <1>2 DEF StackOK
<1>4. Nested'
  <2>1. SUFFICES ASSUME NEW i \in 1..Len(stack) - 2 PROVE stack'[i].mode = "wait"
    BY <1>1, <1>2 DEF Nested
  <2>2. i \in 1..Len(stack) - 1 /\ i + 1 \in 1..Len(stack) - 1
    BY <1>1
  <2> QED BY <1>2, <2>2 DEF Nested
<1>5. Sets(Top.todo) = {}
  BY DEF Sets
<1>6. ASSUME NEW v PROVE v \in Todos' <=> v \in Todos
  <2>1. ASSUME NEW i \in 1..Len(stack) - 1, v \in Sets(stack'[i].todo) PROVE v \in Todos
    <3>1. i + 1 \in DOMAIN stack /\ stack'[i] = stack[i + 1]
      BY <1>1, <1>2
    <3> QED BY <2>1, <3>1 DEF Todos
  <2>2. ASSUME NEW i \in 1..Len(stack), v \in Sets(stack[i].todo) PROVE v \in Todos'
    <3>1. i # 1
      BY <1>1, <1>5, <2>2
    <3>2. i - 1 \in 1..Len(stack) - 1 /\ (i - 1) + 1 = i
      BY <1>1, <3>1
    <3>3. stack'[i - 1] = stack[i]
      BY <1>2, <3>2
    <3> QED BY <1>3, <2>2, <3>2, <3>3 DEF Todos
  <2>3. v \in Todos <=> \E i \in 1..Len(stack) : v \in Sets(stack[i].todo)
    BY <1>1 DEF Todos
  <2>4. v \in Todos' <=> \E i \in 1..Len(stack) - 1 : v \in Sets(stack'[i].todo)
    BY <1>3 DEF Todos
  <2> QED BY <2>1, <2>2, <2>3, <2>4
<1> QED BY <1>4, <1>6

\* The frames keep what they hold.
LEMMA TodosKept ==
    ASSUME Typed, Nested,
           \/ UNCHANGED stack
           \/ Pop /\ Top.todo = <<>>
           \/ \E g : NewTop(g) /\ g.todo = Top.todo
    PROVE  Nested' /\ Todos' = Todos
<1>1. CASE UNCHANGED stack
  BY <1>1 DEF Nested, Todos
<1>2. CASE \E g : NewTop(g) /\ g.todo = Top.todo
  BY <1>2, TodosTop
<1> QED BY <1>1, <1>2, TodosPopped

\* What the program began is counted, listed or done.
Concurrent ==
    {w \in begun : Kind[w] = "cpp" /\ thread[w] \in {"pool", "swapped", "linked", "pushed"}}

Histories == sent \in Seq(Works) /\ got \in Seq(Works)

Listed ==
    /\ ran \subseteq begun /\ Sets(immediates) \subseteq begun /\ Todos \subseteq begun
    /\ \A w \in begun \ ran :
         /\ Kind[w] = "local" => w \in Sets(tasks.items)
         /\ Kind[w] = "immediate" => w \in Sets(immediates) \cup Todos

\* More references are not given back, when the loop has yet to learn of it,
\* than it has yet to learn were taken.
Applied == delta <= Cardinality(Concurrent)

Accounted == Histories /\ Nested /\ Listed /\ Applied

LEMMA AccountedInit == Init => Accounted
<1> SUFFICES ASSUME Init PROVE Accounted
  OBVIOUS
<1>1. PICK f : f = FrameOf("js", "first", NoWork)
  OBVIOUS
<1>2. stack = <<f>> /\ f.todo = <<>>
  BY <1>1 DEF Init, FrameOf
<1>3. Len(stack) = 1 /\ DOMAIN stack = {1} /\ stack[1] = f
  BY <1>2
<1>4. Todos = {} /\ Nested
  BY <1>2, <1>3 DEF Todos, Nested, Sets
<1>5. Listed
  BY <1>4 DEF Init, Listed, Sets
<1>6. Applied
  <2>1. Concurrent = {} /\ delta = 0
    BY DEF Init, Concurrent
  <2> QED BY <2>1, FS_EmptySet DEF Applied
<1>7. Histories
  BY DEF Init, Histories
<1> QED BY <1>4, <1>5, <1>6, <1>7 DEF Accounted

LEMMA HistoriesStep == Typed /\ Histories /\ [Next]_vars => Histories'
<1> SUFFICES ASSUME Typed, Histories, [Next]_vars PROVE Histories'
  OBVIOUS
<1>1. CASE UNCHANGED <<sent, got>>
  BY <1>1 DEF Histories
<1>2. ASSUME NEW w \in Works, sent' = Append(sent, w), got' = got PROVE Histories'
  BY <1>2, Appended DEF Histories
<1>3. CASE RunTask
  <2>1. Head(tasks.items) \in Works /\ sent' = sent
    BY <1>3, RunTop DEF RunTask
  <2>2. got' = got \/ got' = Append(got, Head(tasks.items))
    BY <1>3 DEF RunTask, Ran
  <2> QED BY <2>1, <2>2, Appended DEF Histories
<1>4. ASSUME NEW w \in Works, BeginAny(w) \/ WaitForPromise(w) \/ Pool(w)
      PROVE  (sent' = sent \/ sent' = Append(sent, w)) /\ got' = got
  BY <1>4 DEF BeginAny, BeginWork, BeginCpp, Post, EnqueueTask, SetImmediate, SetTimeout, WaitForPromise,
              Pool, Finish, LinkResult, WakeLoop, UnrefConcurrently, WakeUnrefed, history
<1>5. ASSUME Turn, ~RunTask PROVE UNCHANGED <<sent, got>>
  BY <1>5 DEF Turn, Return, UpdateCounts, TakeBatch, RanTasks, Ticked, RunImmediate, RanImmediates,
              Poll, Fire, Fired, Start, CheckAlive, history
<1> QED BY <1>1, <1>2, <1>3, <1>4, <1>5 DEF Next, vars, history

LEMMA AppliedKept ==
    ASSUME Applied, Tallied, Tallied', delta' <= delta, delta \in Int, delta' \in Int,
           begun \subseteq begun',
           \A w \in begun : thread'[w] = thread[w]
    PROVE  Applied'
<1>1. Concurrent \subseteq Concurrent'
  BY DEF Concurrent
<1>2. IsFiniteSet(Concurrent') /\ Concurrent' \subseteq begun'
  BY FS_Subset DEF Concurrent, Tallied
<1>3. /\ Cardinality(Concurrent) <= Cardinality(Concurrent')
      /\ Cardinality(Concurrent) \in Nat /\ Cardinality(Concurrent') \in Nat
  BY <1>1, <1>2, FS_Subset, FS_CardinalityType
<1> QED BY <1>3 DEF Applied

LEMMA AppliedStep ==
    Typed /\ Typed' /\ Tallied /\ Tallied' /\ Applied /\ [Next]_vars => Applied'
<1> SUFFICES ASSUME Typed, Typed', Tallied, Tallied', Applied, [Next]_vars PROVE Applied'
  OBVIOUS
<1>1. /\ delta \in Int /\ delta' \in Int /\ begun \subseteq Works
      /\ thread \in [Works -> Threads] /\ Marks /\ IsFiniteSet(begun)
  BY DEF Typed, Tallied
<1>2. /\ IsFiniteSet(Concurrent) /\ Concurrent \subseteq begun
      /\ Cardinality(Concurrent) \in Nat
  <2>1. Concurrent \subseteq begun
    BY DEF Concurrent
  <2> QED BY <1>1, <2>1, FS_Subset, FS_CardinalityType
<1>3. ASSUME NEW w \in Works, BeginCpp(w) PROVE Applied'
  <2>1. /\ delta' = delta + 1 /\ begun' = begun \cup {w} /\ w \notin begun /\ Kind[w] = "cpp"
        /\ thread' = [thread EXCEPT ![w] = "pool"]
    BY <1>3 DEF BeginCpp, Begin
  <2>2. Concurrent' = Concurrent \cup {w} /\ w \notin Concurrent
    BY <1>1, <2>1 DEF Concurrent
  <2>3. Cardinality(Concurrent') = Cardinality(Concurrent) + 1
    BY <1>2, <2>2, FS_AddElement
  <2> QED BY <1>1, <1>2, <2>1, <2>3 DEF Applied
<1>4. ASSUME NEW w \in Works, BeginAny(w), ~BeginCpp(w) PROVE Applied'
  <2>1. delta' = delta /\ begun' = begun \cup {w} /\ w \notin begun
    BY <1>4 DEF BeginAny, BeginWork, Post, EnqueueTask, SetImmediate, SetTimeout, Begin, loop
  <2>2. \A v \in begun : thread'[v] = thread[v]
    BY <1>1, <1>4, <2>1 DEF BeginAny, BeginWork, Post, EnqueueTask, SetImmediate, SetTimeout
  <2> QED BY <1>1, <2>1, <2>2, AppliedKept
<1>5. ASSUME NEW w \in Works, UnrefConcurrently(w) PROVE Applied'
  <2>1. /\ delta' = delta - 1 /\ begun' = begun /\ thread[w] = "pushed"
        /\ thread' = [thread EXCEPT ![w] = "unrefed"]
    BY <1>5 DEF UnrefConcurrently, history
  <2>2. w \in Concurrent /\ Concurrent' = Concurrent \ {w}
    BY <1>1, <2>1 DEF Concurrent, Marks
  <2>3. Cardinality(Concurrent') = Cardinality(Concurrent) - 1
    BY <1>2, <2>2, FS_RemoveElement
  <2> QED BY <1>1, <1>2, <2>1, <2>3 DEF Applied
<1>6. ASSUME NEW w \in Works, Pool(w), ~UnrefConcurrently(w) PROVE Applied'
  <2>1. delta' = delta /\ begun' = begun
    BY <1>6 DEF Pool, Finish, LinkResult, WakeLoop, WakeUnrefed, loop, history
  <2>2. /\ \A v \in begun : v # w => thread'[v] = thread[v]
        /\ Kind[w] = "cpp" => /\ thread'[w] \in {"pool", "swapped", "linked", "pushed"}
                                 <=> thread[w] \in {"pool", "swapped", "linked", "pushed"}
    BY <1>1, <1>6 DEF Pool, Finish, LinkResult, WakeLoop, WakeUnrefed
  <2>3. Concurrent' = Concurrent
    BY <2>1, <2>2 DEF Concurrent
  <2> QED BY <2>1, <2>3 DEF Applied
<1>7. CASE UpdateCounts
  <2>1. delta' = 0 /\ Concurrent' = Concurrent
    BY <1>7 DEF UpdateCounts, history, Concurrent
  <2> QED BY <1>2, <2>1 DEF Applied
<1>8. CASE (Turn /\ ~UpdateCounts) \/ (\E w \in Works : WaitForPromise(w)) \/ UNCHANGED vars
  <2>1. UNCHANGED <<delta, thread, begun>>
    BY <1>8 DEF Turn, Return, TakeBatch, RunTask, RanTasks, Ticked, RunImmediate, RanImmediates,
              Poll, Fire, Fired, Start, CheckAlive, WaitForPromise, history, loop, vars
  <2> QED BY <2>1 DEF Applied, Concurrent
<1> QED BY <1>3, <1>4, <1>5, <1>6, <1>7, <1>8 DEF Next

\* What the steps of Turn leave of the lists, one after the other.
LEMMA ListedKept ==
    ASSUME Listed, UNCHANGED <<begun, ran, immediates>>, Todos' = Todos,
           Sets(tasks.items) \subseteq Sets(tasks'.items)
    PROVE  Listed'
<1>1. Sets(immediates)' = Sets(immediates) /\ Sets(tasks.items)' = Sets(tasks'.items)
  BY DEF Sets
<1> QED BY <1>1 DEF Listed

LEMMA ListedBegin ==
    ASSUME Typed, Nested, Listed, NEW w \in Works, BeginAny(w)
    PROVE  Nested' /\ Listed'
<1>1. /\ UNCHANGED <<stack, ran>> /\ begun' = begun \cup {w} /\ w \notin begun
  BY DEF BeginAny, BeginWork, BeginCpp, Post, EnqueueTask, SetImmediate, SetTimeout, Begin
<1>2. Nested' /\ Todos' = Todos
  BY <1>1, TodosKept
<1>3. tasks \in Fifos(Works) /\ tasks.items \in Seq(Works) /\ immediates \in Seq(Works)
  BY RingFields DEF Typed
<1>4. /\ Sets(immediates)' = Sets(immediates) \/ Sets(immediates)' = Sets(immediates) \cup {w}
      /\ Kind[w] = "immediate" => w \in Sets(immediates)'
  <2>1. CASE SetImmediate(w)
    <3>1. immediates' = Append(immediates, w) /\ Kind[w] = "immediate"
      BY <2>1 DEF SetImmediate, Begin
    <3>2. Sets(immediates)' = Sets(immediates) \cup {w}
      BY <1>3, <3>1, SetsAppended DEF Sets
    <3> QED BY <3>1, <3>2
  <2>2. CASE ~SetImmediate(w)
    <3>1. immediates' = immediates
      BY <2>2 DEF BeginAny, BeginWork, BeginCpp, Post, EnqueueTask, SetTimeout, queues
    <3>2. Kind[w] # "immediate"
      BY <2>2 DEF BeginAny, BeginWork, BeginCpp, Post, EnqueueTask, SetTimeout, Begin
    <3> QED BY <3>1, <3>2 DEF Sets
  <2> QED BY <2>1, <2>2
<1>5. /\ Sets(tasks.items) \subseteq Sets(tasks.items)'
      /\ Kind[w] = "local" => w \in Sets(tasks.items)'
  <2>1. CASE EnqueueTask(w)
    <3>1. tasks' = Push(tasks, w)
      BY <2>1 DEF EnqueueTask
    <3>2. Push(tasks, w).items = Append(tasks.items, w)
      BY <1>3, Pushes
    <3>3. Sets(Append(tasks.items, w)) = Sets(tasks.items) \cup {w}
      BY <1>3, SetsAppended
    <3> QED BY <3>1, <3>2, <3>3 DEF Sets
  <2>2. CASE ~EnqueueTask(w)
    <3>1. tasks' = tasks
      BY <2>2 DEF BeginAny, BeginWork, BeginCpp, Post, SetImmediate, SetTimeout, queues
    <3>2. Kind[w] # "local"
      BY <2>2 DEF BeginAny, BeginWork, BeginCpp, Post, SetImmediate, SetTimeout, Begin
    <3> QED BY <3>1, <3>2 DEF Sets
  <2> QED BY <2>1, <2>2
<1> QED BY <1>1, <1>2, <1>4, <1>5 DEF Listed

LEMMA ListedWait ==
    ASSUME Typed, Nested, Listed, NEW w \in Works, WaitForPromise(w)
    PROVE  Nested' /\ Listed'
<1>1. /\ Len(stack') = Len(stack) + 1 /\ \A i \in 1..Len(stack) : stack'[i + 1] = stack[i]
      /\ Len(stack) \in Nat /\ DOMAIN stack = 1..Len(stack) /\ stack' \in Seq(Frame)
      /\ stack'[1].mode = "wait" /\ stack'[1].todo = <<>>
  <2>1. PICK f : f = FrameOf("counts", "wait", w)
    OBVIOUS
  <2>2. /\ Len(stack') = Len(stack) + 1 /\ \A i \in 1..Len(stack) : stack'[i + 1] = stack[i]
        /\ Len(stack) \in Nat /\ DOMAIN stack = 1..Len(stack) /\ StackOK'
    BY StackPush, TopOK DEF WaitForPromise, Typed, StackOK
  <2>3. stack' = <<f>> \o stack /\ stack \in Seq(Frame)
    BY <2>1 DEF WaitForPromise, Typed, StackOK
  <2>4. stack'[1] = f
    BY <2>3
  <2>5. f.mode = "wait" /\ f.todo = <<>>
    BY <2>1 DEF FrameOf
  <2> QED BY <2>2, <2>4, <2>5 DEF StackOK
<1>2. Nested'
  <2>1. SUFFICES ASSUME NEW i \in 1..Len(stack) PROVE stack'[i].mode = "wait"
    BY <1>1 DEF Nested
  <2>2. CASE i # 1
    <3>1. i - 1 \in 1..Len(stack) - 1 /\ i - 1 \in 1..Len(stack) /\ (i - 1) + 1 = i
      BY <1>1, <2>2
    <3>2. stack'[i] = stack[i - 1]
      BY <1>1, <3>1
    <3> QED BY <3>1, <3>2 DEF Nested
  <2> QED BY <1>1, <2>2
<1>3. Todos' = Todos
  <2>1. Sets(stack'[1].todo) = {}
    BY <1>1 DEF Sets
  <2>2. ASSUME NEW v PROVE v \in Todos' <=> v \in Todos
    <3>1. ASSUME NEW i \in 1..Len(stack) + 1, v \in Sets(stack'[i].todo) PROVE v \in Todos
      <4>1. i # 1
        BY <2>1, <3>1
      <4>2. i - 1 \in 1..Len(stack) /\ (i - 1) + 1 = i
        BY <1>1, <4>1
      <4>3. stack'[i] = stack[i - 1]
        BY <1>1, <4>2
      <4> QED BY <1>1, <3>1, <4>2, <4>3 DEF Todos
    <3>2. ASSUME NEW i \in 1..Len(stack), v \in Sets(stack[i].todo) PROVE v \in Todos'
      <4>1. i + 1 \in DOMAIN stack' /\ stack'[i + 1] = stack[i]
        BY <1>1
      <4> QED BY <3>2, <4>1 DEF Todos
    <3>3. v \in Todos <=> \E i \in 1..Len(stack) : v \in Sets(stack[i].todo)
      BY <1>1 DEF Todos
    <3>4. v \in Todos' <=> \E i \in 1..Len(stack) + 1 : v \in Sets(stack'[i].todo)
      BY <1>1 DEF Todos
    <3> QED BY <3>1, <3>2, <3>3, <3>4
  <2> QED BY <2>2
<1>4. UNCHANGED <<begun, ran, immediates, tasks>>
  BY DEF WaitForPromise, queues, history
<1> QED BY <1>2, <1>3, <1>4, ListedKept

LEMMA ListedTurn ==
    ASSUME Typed, Tallied, Nested, Listed, Turn
    PROVE  Nested' /\ Listed'
<1>1. /\ FrameOK(Top) /\ tasks \in Fifos(Works) /\ tasks.items \in Seq(Works)
      /\ immediates \in Seq(Works) /\ line \in Seq(Works)
  BY TopOK, RingFields DEF Typed
<1>2. CASE Return \/ UpdateCounts \/ RanImmediates \/ Poll \/ Fired \/ Start \/ CheckAlive
  <2>1. (Pop /\ Top.todo = <<>>) \/ (\E g : NewTop(g) /\ g.todo = Top.todo)
    <3>1. CASE Fired
      <4>1. Top.todo = <<>>
        BY <1>1, <3>1 DEF Fired, At, FrameOK
      <4> QED BY <3>1, <4>1, FiredTop
    <3>2. CASE Return \/ UpdateCounts \/ RanImmediates
      BY <3>2, ReturnTop, CountTop, RanImmediatesTop
    <3>3. CASE Poll \/ Start \/ CheckAlive
      BY <3>3, PollTop, StartTop, CheckAliveTop
    <3> QED BY <1>2, <3>1, <3>2, <3>3
  <2>2. UNCHANGED <<begun, ran, immediates, tasks>>
    BY <1>2 DEF Return, UpdateCounts, RanImmediates, Poll, Fired, Start, CheckAlive, queues, history
  <2>3. Nested' /\ Todos' = Todos
    BY <2>1, TodosKept
  <2> QED BY <2>2, <2>3, ListedKept
<1>3. ASSUME NEW k \in 0..Len(line), TakeBatch(k) PROVE Nested' /\ Listed'
  <2>1. PICK g : NewTop(g) /\ g.todo = Top.todo
    BY <1>3, TakeTodo
  <2>2. PICK i \in 0..k : tasks'.items = tasks.items \o SubSeq(line, 1, i)
    BY <1>3, TakeTop
  <2>3. UNCHANGED <<begun, ran, immediates>>
    BY <1>3 DEF TakeBatch, history
  <2>4. Nested' /\ Todos' = Todos
    BY <2>1, TodosKept
  <2>5. i \in 0..Len(line)
    BY <1>1
  <2>6. PICK b : b = SubSeq(line, 1, i)
    OBVIOUS
  <2>7. b \in Seq(Works)
    BY <1>1, <2>5, <2>6, Prefix
  <2>8. Sets(tasks.items \o b) = Sets(tasks.items) \cup Sets(b)
    BY <1>1, <2>7, SetsConcat
  <2> QED BY <2>2, <2>3, <2>4, <2>6, <2>8, ListedKept
<1>4. CASE RanTasks
  <2>1. (\E g : NewTop(g) /\ g.todo = Top.todo) /\ tasks'.items = tasks.items
    BY <1>4, RanTop
  <2>2. UNCHANGED <<begun, ran, immediates>>
    BY <1>4 DEF RanTasks, history
  <2>3. Nested' /\ Todos' = Todos
    BY <2>1, TodosKept
  <2> QED BY <2>1, <2>2, <2>3, ListedKept
<1>5. CASE RunTask
  <2>1. PICK w : w = Head(tasks.items)
    OBVIOUS
  <2>2. w \in Works /\ tasks.items # <<>> /\ tasks'.items = Tail(tasks.items)
    BY <1>5, <2>1, RunTop
  <2>3. \E g : NewTop(g) /\ g.todo = Top.todo
    BY <1>5, RunTop
  <2>4. Nested' /\ Todos' = Todos
    BY <2>3, TodosKept
  <2>5. UNCHANGED <<begun, immediates>> /\ ran' = ran \cup {w}
    BY <1>5, <2>1 DEF RunTask, Ran
  <2>6. Sets(tasks.items) = Sets(tasks.items)' \cup {w}
    <3>1. Sets(tasks.items) = Sets(Tail(tasks.items)) \cup {Head(tasks.items)}
      BY <1>1, <2>2, SetsTail
    <3>2. Sets(tasks.items)' = Sets(tasks'.items)
      BY DEF Sets
    <3> QED BY <2>1, <2>2, <3>1, <3>2
  <2>7. w \in begun
    <3>1. w = tasks.items[1] /\ 1 \in DOMAIN tasks.items
      BY <1>1, <2>1, <2>2, SeqFacts
    <3> QED BY <3>1 DEF Tallied, Once, Due
  <2>8. Sets(immediates)' = Sets(immediates)
    BY <2>5 DEF Sets
  <2> QED BY <2>4, <2>5, <2>6, <2>7, <2>8 DEF Listed
<1>6. CASE Ticked
  <2>1. UNCHANGED <<begun, ran, tasks>> /\ Top.todo = <<>>
    BY <1>1, <1>6 DEF Ticked, history, At, FrameOK
  <2>2. CASE immediates' = immediates /\ (Pop \/ \E g : NewTop(g) /\ g.todo = Top.todo)
    <3>1. Nested' /\ Todos' = Todos
      BY <2>1, <2>2, TodosKept
    <3> QED BY <2>1, <2>2, <3>1, ListedKept
  <2>3. CASE immediates' = <<>> /\ \E g : NewTop(g) /\ g.todo = immediates
    <3>1. PICK g : NewTop(g) /\ g.todo = immediates
      BY <2>3
    <3>2. Sets(Top.todo) = {} /\ Sets(immediates)' = {}
      BY <2>1, <2>3 DEF Sets
    <3>3. Nested' /\ Todos' = Sets(immediates) \cup Todos
      BY <3>1, <3>2, TodosTop
    <3>4. Sets(tasks.items)' = Sets(tasks.items)
      BY <2>1 DEF Sets
    <3> QED BY <2>1, <3>2, <3>3, <3>4 DEF Listed
  <2> QED BY <1>6, <2>2, <2>3, TickedTop
<1>7. CASE RunImmediate
  <2>1. PICK w : w = Head(Top.todo)
    OBVIOUS
  <2>2. w \in Works /\ Kind[w] = "immediate" /\ Top.todo \in Seq(Works) /\ Top.todo # <<>>
    BY <1>7, <2>1, RunImmediateTop
  <2>3. PICK g : NewTop(g) /\ g.todo = Tail(Top.todo)
    BY <1>7, RunImmediateTop
  <2>4. PICK rest : rest = UNION {Sets(stack[i].todo) : i \in 2..Len(stack)}
    OBVIOUS
  <2>5. /\ Nested' /\ Todos = Sets(Top.todo) \cup rest
        /\ Todos' = Sets(g.todo) \cup rest
    BY <2>3, <2>4, TodosTop
  <2>6. Sets(Top.todo) = Sets(g.todo) \cup {w}
    <3>1. Sets(Top.todo) = Sets(Tail(Top.todo)) \cup {Head(Top.todo)}
      BY <2>2, SetsTail
    <3> QED BY <2>1, <2>3, <3>1
  <2>7. UNCHANGED <<begun, tasks, immediates>> /\ ran' = ran \cup {w}
    BY <1>7, <2>1 DEF RunImmediate, queues
  <2>8. Sets(immediates)' = Sets(immediates) /\ Sets(tasks.items)' = Sets(tasks.items)
    BY <2>7 DEF Sets
  <2>9. Todos = Todos' \cup {w}
    BY <2>5, <2>6
  <2> QED BY <2>5, <2>7, <2>8, <2>9 DEF Listed
<1>8. ASSUME NEW w \in Works, Fire(w) PROVE Nested' /\ Listed'
  <2>1. (\E g : NewTop(g) /\ g.todo = Top.todo) /\ Kind[w] = "timer"
    BY <1>8, FireTop
  <2>2. UNCHANGED <<begun, tasks, immediates>> /\ ran' = ran \cup {w} /\ clock[w] = "due"
    BY <1>8 DEF Fire, queues
  <2>3. Nested' /\ Todos' = Todos
    BY <2>1, TodosKept
  <2>4. w \in begun
    BY <2>2 DEF Tallied, Marks
  <2>5. Sets(immediates)' = Sets(immediates) /\ Sets(tasks.items)' = Sets(tasks.items)
    BY <2>2 DEF Sets
  <2> QED BY <2>2, <2>3, <2>4, <2>5 DEF Listed
<1> QED BY <1>2, <1>3, <1>4, <1>5, <1>6, <1>7, <1>8 DEF Turn

LEMMA AccountedStep ==
    Typed /\ Typed' /\ Tallied /\ Tallied' /\ Accounted /\ [Next]_vars => Accounted'
<1> SUFFICES ASSUME Typed, Typed', Tallied, Tallied', Accounted, [Next]_vars PROVE Accounted'
  OBVIOUS
<1>1. Histories /\ Nested /\ Listed /\ Applied
  BY DEF Accounted
<1>2. Histories' /\ Applied'
  BY <1>1, HistoriesStep, AppliedStep
<1>3. Nested' /\ Listed'
  <2>1. ASSUME NEW w \in Works, BeginAny(w) \/ WaitForPromise(w) PROVE Nested' /\ Listed'
    BY <1>1, <2>1, ListedBegin, ListedWait
  <2>2. CASE UNCHANGED <<stack, tasks, immediates, begun, ran>>
    <3>1. Nested' /\ Todos' = Todos
      BY <1>1, <2>2, TodosKept
    <3> QED BY <1>1, <2>2, <3>1, ListedKept
  <2>3. ASSUME NEW w \in Works, Pool(w) PROVE UNCHANGED <<stack, tasks, immediates, begun, ran>>
    BY <2>3 DEF Pool, Finish, LinkResult, WakeLoop, UnrefConcurrently, WakeUnrefed, queues, history
  <2>4. CASE Turn
    BY <1>1, <2>4, ListedTurn
  <2> QED BY <2>1, <2>2, <2>3, <2>4 DEF Next, vars, queues, history
<1> QED BY <1>2, <1>3 DEF Accounted

LEMMA ReferencesBound ==
    ASSUME Typed, Tallied, CountsExact, Accounted
    PROVE  /\ active \in Nat
           /\ delta <= References({"work", "cpp"})
<1>1. Concurrent \subseteq Refs({"work", "cpp"})
  BY DEF Concurrent, Referencing, Refs
<1>2. Cardinality(Concurrent) <= References({"work", "cpp"}) /\ Cardinality(Concurrent) \in Nat
  <2>1. IsFiniteSet(Refs({"work", "cpp"})) /\ References({"work", "cpp"}) = Cardinality(Refs({"work", "cpp"}))
    BY RefsFinite
  <2> QED BY <1>1, <2>1, FS_Subset, FS_CardinalityType
<1>3. delta <= Cardinality(Concurrent)
  BY DEF Accounted, Applied
<1>4. Shared(0, timerRefs) >= 0 /\ Shared(0, immediateRefs) >= 0
  BY CountedNow DEF Shared
<1>5. delta <= References({"work", "cpp"})
  BY <1>2, <1>3, CountedNow
<1>6. active \in Nat
  BY <1>4, <1>5, CountedNow
<1> QED BY <1>5, <1>6

LEMMA TypesFollow == Typed /\ Tallied /\ CountsExact /\ Accounted => TypeOK
<1> SUFFICES ASSUME Typed, Tallied, CountsExact, Accounted PROVE TypeOK
  OBVIOUS
<1>1. active \in Nat /\ timerRefs \in Nat /\ immediateRefs \in Nat
  BY ReferencesBound, CountedNow
<1>2. ran \subseteq begun /\ sent \in Seq(Works) /\ got \in Seq(Works)
  BY DEF Accounted, Listed, Histories
<1>3. stack \in Seq(Frame) /\ stack # <<>>
  BY DEF Typed, StackOK
<1>4. thread \in [Works -> {"off", "pool", "swapped", "linked", "pushed", "unrefed"}]
  BY DEF Typed, Threads
<1> QED BY <1>1, <1>2, <1>3, <1>4 DEF Typed, TypeOK

\* Every variable keeps its type, loop.active included: the count of the
\* references never goes below zero, however late the loop learns of those
\* that other threads take and give back.
THEOREM TypeCorrect == Spec => []TypeOK
<1>1. Init => Typed /\ Tallied /\ CountsExact /\ Pending /\ Accounted
  BY TypedInit, TalliedInit, PendingInit, AccountedInit
<1>2. Typed /\ Tallied /\ CountsExact /\ Pending /\ Accounted /\ [Next]_vars
        => (Typed /\ Tallied /\ CountsExact /\ Pending /\ Accounted)'
  BY TypedStep, CountedStep, AccountedStep
<1>3. Typed /\ Tallied /\ CountsExact /\ Pending /\ Accounted => TypeOK
  BY TypesFollow
<1> QED BY <1>1, <1>2, <1>3, PTL DEF Spec

\* The process only exits from a loop that is not alive, and then nothing moves.
Idle == At("exit") => ~Alive

LEMMA Still ==
    ASSUME At("exit"), [Next]_vars
    PROVE  UNCHANGED vars
<1>1. ~Running /\ Top.pc = "exit"
  BY DEF Running, At
<1>2. ASSUME NEW w \in Works PROVE ~BeginAny(w) /\ ~WaitForPromise(w) /\ ~Pool(w)
  <2>1. ~BeginAny(w)
    BY <1>1 DEF BeginAny, BeginWork, BeginCpp, Post, EnqueueTask, SetImmediate, SetTimeout, Begin, At
  <2>2. ~WaitForPromise(w)
    BY <1>1 DEF WaitForPromise, At
  <2>3. ~Pool(w)
    BY <1>1 DEF Pool, Finish, LinkResult, WakeLoop, UnrefConcurrently, WakeUnrefed
  <2> QED BY <2>1, <2>2, <2>3
<1>3. ~Turn
  BY <1>1 DEF Turn, Return, UpdateCounts, TakeBatch, RunTask, RanTasks, Ticked, RunImmediate,
              RanImmediates, Poll, Fire, Fired, Start, CheckAlive, At
<1> QED BY <1>2, <1>3 DEF Next

\* Every other step leaves a loop on top that has not exited.
LEMMA GoesOn ==
    ASSUME Typed, Turn, ~CheckAlive
    PROVE  Head(stack').pc # "exit"
<1>1. ASSUME NEW g, NewTop(g), g.pc # "exit" PROVE Head(stack').pc # "exit"
  BY <1>1, TopIs
<1>2. ASSUME Pop PROVE Head(stack').pc # "exit"
  <2>1. Head(stack') = stack[2] /\ 2 \in 2..Len(stack)
    BY <1>2, StackPop, TopOK DEF Pop, Typed
  <2> QED BY <2>1 DEF Typed, StackOK
<1>3. CASE Return
  <2>1. PICK g : /\ NewTop(g)
                 /\ g.pc = CASE Top.from = "entry"  -> "start"
                             [] Top.from = "before" -> "alive"
                             [] OTHER               -> Top.from
    BY <1>3, ReturnTop
  <2>2. Top.from \in {"entry", "run", "immediates", "timers", "before"}
    BY TopOK DEF Typed, Frame
  <2>3. g.pc # "exit"
    BY <2>1, <2>2
  <2> QED BY <1>1, <2>1, <2>3
<1>4. CASE UpdateCounts
  <2>1. PICK g : NewTop(g) /\ g.pc = "take"
    BY <1>4, CountTop
  <2> QED BY <1>1, <2>1
<1>5. ASSUME NEW k \in 0..Len(line), TakeBatch(k) PROVE Head(stack').pc # "exit"
  <2>1. PICK g : NewTop(g) /\ g.pc \in {"counts", "run", "alive"}
    BY <1>5, TakeTop
  <2> QED BY <1>1, <2>1
<1>6. CASE RunTask
  <2>1. PICK g : NewTop(g) /\ g.pc = "js"
    BY <1>6, RunTop
  <2> QED BY <1>1, <2>1
<1>7. CASE RanTasks
  <2>1. PICK g : NewTop(g) /\ g.pc \in {"counts", "ticked"}
    BY <1>7, RanTop
  <2> QED BY <1>1, <2>1
<1>8. CASE Ticked
  <2>1. Pop \/ (\E g : NewTop(g) /\ g.pc = "alive") \/ (\E g : NewTop(g) /\ g.pc = "immediates")
    BY <1>8, TickedTop
  <2> QED BY <1>1, <1>2, <2>1
<1>9. CASE RunImmediate
  <2>1. PICK g : NewTop(g) /\ g.pc = "js"
    BY <1>9, RunImmediateTop
  <2> QED BY <1>1, <2>1
<1>10. CASE RanImmediates
  <2>1. PICK g : NewTop(g) /\ g.pc = "poll"
    BY <1>10, RanImmediatesTop
  <2> QED BY <1>1, <2>1
<1>11. CASE Poll
  <2>1. PICK g : NewTop(g) /\ g.pc = "timers"
    BY <1>11, PollTop
  <2> QED BY <1>1, <2>1
<1>12. ASSUME NEW w \in Works, Fire(w) PROVE Head(stack').pc # "exit"
  <2>1. PICK g : NewTop(g) /\ g.pc = "js"
    BY <1>12, FireTop
  <2> QED BY <1>1, <2>1
<1>13. CASE Fired
  <2>1. Pop \/ \E g : NewTop(g) /\ g.pc \in {"alive", "counts"}
    BY <1>13, FiredTop
  <2> QED BY <1>1, <1>2, <2>1
<1>14. CASE Start
  <2>1. PICK g : NewTop(g) /\ g.pc = "counts"
    BY <1>14, StartTop
  <2> QED BY <1>1, <2>1
<1> QED BY <1>3, <1>4, <1>5, <1>6, <1>7, <1>8, <1>9, <1>10, <1>11, <1>12, <1>13, <1>14 DEF Turn

LEMMA IdleStep == Typed /\ Idle /\ [Next]_vars => Idle'
<1> SUFFICES ASSUME Typed, Idle, [Next]_vars PROVE Idle'
  OBVIOUS
<1>1. CASE UNCHANGED vars
  BY <1>1 DEF Idle, Alive, At, Top, vars, queues, loop
<1>2. CASE ~At("exit") /\ CheckAlive
  <2>1. CASE Alive
    <3>1. FrameOK(Top) /\ Top.pc = "alive" /\ Top.task = NoWork
      BY <1>2, TopOK DEF Typed, FrameOK, CheckAlive, At
    <3>2. Head(stack').pc = "counts"
      <4>1. PICK m : m = (IF Top.mode = "before" THEN "again" ELSE Top.mode)
        OBVIOUS
      <4>2. PICK t : t = [Top EXCEPT !.pc = "counts", !.phase = "enter", !.mode = m]
        OBVIOUS
      <4>3. t.pc = "counts"
        BY <3>1, <4>2 DEF FrameOK, Frame
      <4>4. stack' = <<t>> \o Tail(stack)
        BY <1>2, <2>1, <4>1, <4>2 DEF CheckAlive, Tick, SetTop
      <4>5. Head(stack') = t
        BY <4>4, TopOK, SeqFacts DEF Typed, StackOK
      <4> QED BY <4>3, <4>5
    <3> QED BY <3>2 DEF Idle, At, Top
  <2>2. CASE ~Alive
    BY <1>2, <2>2 DEF CheckAlive, Idle, Alive, queues, loop
  <2> QED BY <2>1, <2>2
<1>3. CASE ~At("exit") /\ Turn /\ ~CheckAlive
  BY <1>3, GoesOn DEF Idle, At, Top
<1>4. ASSUME NEW w \in Works, ~At("exit"), BeginAny(w) \/ Pool(w) PROVE Idle'
  <2>1. stack' = stack
    BY <1>4 DEF BeginAny, BeginWork, BeginCpp, Post, EnqueueTask, SetImmediate, SetTimeout,
                Pool, Finish, LinkResult, WakeLoop, UnrefConcurrently, WakeUnrefed
  <2> QED BY <1>4, <2>1 DEF Idle, At, Top
<1>5. ASSUME NEW w \in Works, WaitForPromise(w) PROVE Idle'
  <2>1. PICK t : t = FrameOf("counts", "wait", w)
    OBVIOUS
  <2>2. stack' = <<t>> \o stack /\ t.pc = "counts"
    BY <1>5, <2>1 DEF WaitForPromise, FrameOf
  <2>3. Head(stack') = t
    BY <2>2, TopOK DEF Typed, StackOK
  <2> QED BY <2>2, <2>3 DEF Idle, At, Top
<1> QED BY <1>1, <1>2, <1>3, <1>4, <1>5, Still DEF Next

LEMMA ExitIsDone ==
    Typed /\ Tallied /\ CountsExact /\ Accounted /\ Idle => ExitsDone
<1> SUFFICES ASSUME Typed, Tallied, CountsExact, Accounted, Idle, At("exit"),
                    NEW w \in begun, Kind[w] \in {"work", "local", "immediate", "timer"}
             PROVE  w \in ran
  BY DEF ExitsDone
<1>1. ~Alive
  BY DEF Idle
<1>2. \A kinds \in {{"work", "cpp"}, {"timer"}, {"immediate"}} : Refs(kinds) = {}
  <2>1. ~(active > 0) /\ ~(delta > 0) /\ active \in Nat
    BY <1>1, ReferencesBound DEF Alive
  <2>2. /\ Shared(0, timerRefs) = IF timerRefs > 0 THEN 1 ELSE 0
        /\ Shared(0, immediateRefs) = IF immediateRefs > 0 THEN 1 ELSE 0
    BY CountedNow DEF Shared
  <2>3. timerRefs = 0 /\ immediateRefs = 0 /\ References({"work", "cpp"}) = 0
    BY <2>1, <2>2, CountedNow
  <2>4. /\ References({"timer"}) = 0 /\ References({"immediate"}) = 0
        /\ References({"work", "cpp"}) = 0
    BY <2>3, CountedNow
  <2>5. ASSUME NEW kinds, References(kinds) = 0 PROVE Refs(kinds) = {}
    BY <2>5, RefsFinite, FS_EmptySet
  <2> QED BY <2>4, <2>5
<1>3. tasks.items = <<>> /\ immediates = <<>>
  <2>1. tasks.items \in Seq(Works)
    BY RingFields DEF Typed
  <2>2. ~(Len(tasks.items) > 0) /\ immediates = <<>>
    BY <1>1 DEF Alive, Count
  <2> QED BY <2>1, <2>2
<1>4. Todos = {}
  <2>1. FrameOK(Top) /\ Top.pc = "exit" /\ Top = stack[1] /\ Len(stack) \in Nat /\ Len(stack) > 0
    BY TopOK DEF Typed, At
  <2>2. Top.mode # "wait" /\ Top.todo = <<>>
    BY <2>1 DEF FrameOK
  <2>3. Len(stack) = 1
    <3>1. \A i \in 1..Len(stack) - 1 : stack[i].mode = "wait"
      BY DEF Accounted, Nested
    <3>2. PICK n, m : n = Len(stack) /\ m = stack[1].mode
      OBVIOUS
    <3>3. n \in Nat /\ n > 0 /\ m # "wait"
      BY <2>1, <2>2, <3>2
    <3>4. 1 \in 1..n - 1 => m = "wait"
      BY <3>1, <3>2
    <3>5. n = 1
      BY <3>3, <3>4
    <3> QED BY <3>2, <3>5
  <2>4. DOMAIN stack = {1}
    BY <2>3, TopOK DEF Typed
  <2> QED BY <2>1, <2>2, <2>4 DEF Todos, Sets
<1>5. Sets(tasks.items) = {} /\ Sets(immediates) = {}
  BY <1>3 DEF Sets
<1>6. SUFFICES ASSUME w \notin ran PROVE FALSE
  OBVIOUS
<1>7. Kind[w] \notin {"work", "timer"}
  <2>1. w \in Works
    BY DEF Typed
  <2>2. Kind[w] \in {"work", "timer"} => w \in Referencing
    BY <1>6, <2>1 DEF Referencing
  <2> QED BY <1>2, <2>2 DEF Refs
<1>8. Kind[w] \notin {"local", "immediate"}
  BY <1>4, <1>5, <1>6 DEF Accounted, Listed
<1> QED BY <1>7, <1>8

\* The process does not exit while a callback is due that is referenced or that
\* the loop knows of: nothing that was begun is lost by then, in the queues of
\* the loop, among the immediates that a loop took, or in a nested loop.
THEOREM NothingLeftAtExit == Spec => []ExitsDone
<1>1. Init => Typed /\ Tallied /\ CountsExact /\ Pending /\ Accounted /\ Idle
  <2>1. Init => Idle
    <3> SUFFICES ASSUME Init PROVE Idle
      OBVIOUS
    <3>1. PICK t : t = FrameOf("js", "first", NoWork)
      OBVIOUS
    <3>2. stack = <<t>> /\ t.pc = "js"
      BY <3>1 DEF Init, FrameOf
    <3> QED BY <3>2 DEF Idle, At, Top
  <2> QED BY <2>1, TypedInit, TalliedInit, PendingInit, AccountedInit
<1>2. Typed /\ Tallied /\ CountsExact /\ Pending /\ Accounted /\ Idle /\ [Next]_vars
        => (Typed /\ Tallied /\ CountsExact /\ Pending /\ Accounted /\ Idle)'
  BY TypedStep, CountedStep, AccountedStep, IdleStep
<1>3. Typed /\ Tallied /\ CountsExact /\ Pending /\ Accounted /\ Idle => ExitsDone
  BY ExitIsDone
<1> QED BY <1>1, <1>2, <1>3, PTL DEF Spec

-----------------------------------------------------------------------------
(* The results among the tasks.                                            *)

\* f takes the results of q, item by item.
Takes(f, q) ==
    /\ f = [n \in 0..Len(q) |-> f[n]] /\ f[0] = <<>>
    /\ \A n \in 1..Len(q) :
         f[n] = IF FromChannel(q[n]) THEN Append(f[n - 1], q[n]) ELSE f[n - 1]

LEMMA TakesSome == ASSUME NEW q \in Seq(Works) PROVE \E f : Takes(f, q)
<1> DEFINE T == {s \in Seq(Works) : \E f : Takes(f, s)}
<1>1. <<>> \in T
  <2>1. PICK f : f = [n \in 0..0 |-> <<>>]
    OBVIOUS
  <2>2. Len(<<>>) = 0 /\ <<>> \in Seq(Works)
    OBVIOUS
  <2>3. f[0] = <<>> /\ f = [n \in 0..0 |-> f[n]]
    BY <2>1
  <2>4. Takes(f, <<>>)
    BY <2>2, <2>3 DEF Takes
  <2> QED BY <2>2, <2>4
<1>2. ASSUME NEW s \in Seq(Works), s \in T, NEW x \in Works PROVE Append(s, x) \in T
  <2>1. PICK f : Takes(f, s)
    BY <1>2
  <2>2. PICK t, m : t = Append(s, x) /\ m = Len(s)
    OBVIOUS
  <2>3. t \in Seq(Works) /\ Len(t) = m + 1 /\ m \in Nat /\ (\A i \in 1..m : t[i] = s[i]) /\ t[m + 1] = x
    BY <2>2, Appended
  <2>4. PICK v : v = IF FromChannel(x) THEN Append(f[m], x) ELSE f[m]
    OBVIOUS
  <2>5. PICK g : g = [n \in 0..m + 1 |-> IF n = m + 1 THEN v ELSE f[n]]
    OBVIOUS
  <2>6. /\ g = [n \in 0..m + 1 |-> g[n]] /\ g[m + 1] = v /\ \A n \in 0..m : g[n] = f[n]
    BY <2>3, <2>5
  <2>7. f[0] = <<>> /\ \A n \in 1..m : f[n] = IF FromChannel(s[n]) THEN Append(f[n - 1], s[n]) ELSE f[n - 1]
    BY <2>1, <2>2 DEF Takes
  <2>8. ASSUME NEW n \in 1..m + 1
        PROVE  g[n] = IF FromChannel(t[n]) THEN Append(g[n - 1], t[n]) ELSE g[n - 1]
    <3>1. CASE n = m + 1
      <4>1. n - 1 = m /\ m \in 0..m
        BY <2>3, <3>1
      <4>2. g[n] = v /\ g[n - 1] = f[m] /\ t[n] = x
        BY <2>3, <2>6, <3>1, <4>1
      <4> QED BY <2>4, <4>2
    <3>2. CASE n # m + 1
      <4>1. n \in 1..m /\ n \in 0..m /\ n - 1 \in 0..m
        BY <2>3, <3>2
      <4>2. g[n] = f[n] /\ g[n - 1] = f[n - 1] /\ t[n] = s[n]
        BY <2>3, <2>6, <4>1
      <4> QED BY <2>7, <4>1, <4>2
    <3> QED BY <3>1, <3>2
  <2>9. g[0] = <<>>
    <3>1. 0 \in 0..m
      BY <2>3
    <3> QED BY <2>6, <2>7, <3>1
  <2>10. Takes(g, t)
    BY <2>3, <2>6, <2>8, <2>9 DEF Takes
  <2> QED BY <2>2, <2>3, <2>10
<1> HIDE DEF T
<1>3. Seq(Works) \subseteq T
  BY <1>1, <1>2, SequenceInduction
<1> QED BY <1>3 DEF T

\* What is taken of the first k items depends on them alone.
LEMMA TakesAlike ==
    ASSUME NEW q \in Seq(Works), NEW r \in Seq(Works), NEW k \in Nat, k <= Len(q), k <= Len(r),
           \A i \in 1..k : q[i] = r[i], NEW f, Takes(f, q), NEW g, Takes(g, r)
    PROVE  f[k] = g[k]
<1> DEFINE T == {n \in Nat : n <= k => f[n] = g[n]}
<1>1. 0 \in T
  BY DEF Takes
<1>2. ASSUME NEW n \in Nat, n \in T PROVE n + 1 \in T
  <2> SUFFICES ASSUME n + 1 <= k PROVE f[n + 1] = g[n + 1]
    OBVIOUS
  <2>1. f[n] = g[n]
    BY <1>2
  <2>2. n + 1 \in 1..Len(q) /\ n + 1 \in 1..Len(r) /\ n + 1 \in 1..k /\ (n + 1) - 1 = n
    OBVIOUS
  <2>3. PICK j : j = n + 1
    OBVIOUS
  <2>4. f[j] = IF FromChannel(q[j]) THEN Append(f[j - 1], q[j]) ELSE f[j - 1]
    BY <2>2, <2>3 DEF Takes
  <2>5. g[j] = IF FromChannel(r[j]) THEN Append(g[j - 1], r[j]) ELSE g[j - 1]
    BY <2>2, <2>3 DEF Takes
  <2>6. q[j] = r[j] /\ f[j - 1] = g[j - 1]
    BY <2>1, <2>2, <2>3
  <2> QED BY <2>3, <2>4, <2>5, <2>6
<1> HIDE DEF T
<1>3. Nat \subseteq T
  BY <1>1, <1>2, SetInduction
<1> QED BY <1>3 DEF T

LEMMA ResultsAre ==
    ASSUME NEW q \in Seq(Works), NEW f, Takes(f, q)
    PROVE  Results(q) = f[Len(q)]
<1> DEFINE Body(g) == [n \in 0..Len(q) |->
                         IF n = 0 THEN <<>>
                         ELSE IF FromChannel(q[n]) THEN Append(g[n - 1], q[n]) ELSE g[n - 1]]
<1>1. Len(q) \in Nat
  OBVIOUS
<1>2. f = Body(f)
  <2>1. f = [n \in 0..Len(q) |-> f[n]]
    BY DEF Takes
  <2>2. ASSUME NEW n \in 0..Len(q)
        PROVE  f[n] = IF n = 0 THEN <<>>
                      ELSE IF FromChannel(q[n]) THEN Append(f[n - 1], q[n]) ELSE f[n - 1]
    <3>1. CASE n = 0
      BY <3>1 DEF Takes
    <3>2. CASE n # 0
      <4>1. n \in 1..Len(q)
        BY <3>2
      <4> QED BY <3>2, <4>1 DEF Takes
    <3> QED BY <3>1, <3>2
  <2> QED BY <2>1, <2>2
<1>3. PICK g : g = (CHOOSE h : h = Body(h))
  OBVIOUS
<1>4. g = Body(g)
  BY <1>2, <1>3
<1>5. Takes(g, q)
  <2>1. g = [n \in 0..Len(q) |-> g[n]]
    BY <1>4
  <2>2. g[0] = <<>>
    BY <1>1, <1>4
  <2>3. ASSUME NEW n \in 1..Len(q)
        PROVE  g[n] = IF FromChannel(q[n]) THEN Append(g[n - 1], q[n]) ELSE g[n - 1]
    <3>1. n \in 0..Len(q) /\ n # 0
      BY <1>1
    <3> QED BY <1>4, <3>1
  <2> QED BY <2>1, <2>2, <2>3 DEF Takes
<1>6. Results(q) = g[Len(q)]
  BY <1>3 DEF Results
<1>7. f[Len(q)] = g[Len(q)]
  BY <1>1, <1>5, TakesAlike
<1> QED BY <1>6, <1>7

LEMMA ResultsEmpty == Results(<<>>) = <<>>
<1>1. PICK q : q = <<>>
  OBVIOUS
<1>2. q \in Seq(Works) /\ Len(q) = 0
  BY <1>1
<1>3. PICK f : Takes(f, q)
  BY <1>2, TakesSome
<1>4. Results(q) = f[0] /\ f[0] = <<>>
  BY <1>2, <1>3, ResultsAre DEF Takes
<1> QED BY <1>1, <1>4

LEMMA ResultsAppend ==
    ASSUME NEW q \in Seq(Works), NEW x \in Works
    PROVE  Results(Append(q, x)) = IF FromChannel(x) THEN Append(Results(q), x) ELSE Results(q)
<1>1. PICK t, m : t = Append(q, x) /\ m = Len(q)
  OBVIOUS
<1>2. t \in Seq(Works) /\ Len(t) = m + 1 /\ m \in Nat /\ (\A i \in 1..m : t[i] = q[i]) /\ t[m + 1] = x
  BY <1>1, Appended
<1>3. PICK f : Takes(f, q)
  BY TakesSome
<1>4. PICK g : Takes(g, t)
  BY <1>2, TakesSome
<1>5. Results(q) = f[m] /\ Results(t) = g[m + 1]
  BY <1>1, <1>2, <1>3, <1>4, ResultsAre
<1>6. f[m] = g[m]
  <2>1. m <= Len(q) /\ m <= Len(t) /\ \A i \in 1..m : q[i] = t[i]
    BY <1>1, <1>2
  <2> QED BY <1>2, <1>3, <1>4, <2>1, TakesAlike
<1>7. m + 1 \in 1..Len(t) /\ (m + 1) - 1 = m
  BY <1>2
<1>8. g[m + 1] = IF FromChannel(t[m + 1]) THEN Append(g[(m + 1) - 1], t[m + 1]) ELSE g[(m + 1) - 1]
  BY <1>4, <1>7 DEF Takes
<1> QED BY <1>1, <1>2, <1>5, <1>6, <1>7, <1>8

LEMMA ResultsType == ASSUME NEW q \in Seq(Works) PROVE Results(q) \in Seq(Works)
<1> DEFINE T == {s \in Seq(Works) : Results(s) \in Seq(Works)}
<1>1. <<>> \in T
  BY ResultsEmpty, <<>> \in Seq(Works)
<1>2. ASSUME NEW s \in Seq(Works), s \in T, NEW x \in Works PROVE Append(s, x) \in T
  <2>1. PICK r : r = Results(s)
    OBVIOUS
  <2>2. r \in Seq(Works)
    BY <1>2, <2>1
  <2>3. Append(r, x) \in Seq(Works) /\ Append(s, x) \in Seq(Works)
    BY <2>2, Appended
  <2> QED BY <2>1, <2>2, <2>3, ResultsAppend
<1> HIDE DEF T
<1>3. Seq(Works) \subseteq T
  BY <1>1, <1>2, SequenceInduction
<1> QED BY <1>3 DEF T

LEMMA ResultsConcat ==
    ASSUME NEW q \in Seq(Works), NEW r \in Seq(Works)
    PROVE  Results(q \o r) = Results(q) \o Results(r)
<1> DEFINE T == {s \in Seq(Works) : Results(q \o s) = Results(q) \o Results(s)}
<1>1. <<>> \in T
  <2>1. Results(q) \in Seq(Works) /\ <<>> \in Seq(Works)
    BY ResultsType
  <2>2. q \o <<>> = q /\ Results(q) \o <<>> = Results(q)
    BY <2>1, ConcatEmpty
  <2> QED BY <2>1, <2>2, ResultsEmpty
<1>2. ASSUME NEW s \in Seq(Works), s \in T, NEW x \in Works PROVE Append(s, x) \in T
  <2>1. PICK a, b, c : a = Results(q) /\ b = Results(s) /\ c = q \o s
    OBVIOUS
  <2>2. a \in Seq(Works) /\ b \in Seq(Works) /\ c \in Seq(Works)
    BY <2>1, ResultsType, Concat
  <2>3. Results(c) = a \o b
    BY <1>2, <2>1
  <2>4. q \o Append(s, x) = Append(c, x)
    BY <2>1, ConcatAppend
  <2>5. a \o Append(b, x) = Append(a \o b, x)
    BY <2>2, ConcatAppend
  <2>6. Results(Append(c, x)) = IF FromChannel(x) THEN Append(a \o b, x) ELSE a \o b
    BY <2>2, <2>3, ResultsAppend
  <2>7. Results(Append(s, x)) = IF FromChannel(x) THEN Append(b, x) ELSE b
    BY <2>1, ResultsAppend
  <2>8. Append(s, x) \in Seq(Works)
    BY Appended
  <2> QED BY <2>1, <2>4, <2>5, <2>6, <2>7, <2>8
<1> HIDE DEF T
<1>3. Seq(Works) \subseteq T
  BY <1>1, <1>2, SequenceInduction
<1> QED BY <1>3 DEF T

LEMMA ResultsAll ==
    ASSUME NEW q \in Seq(Works), \A i \in DOMAIN q : FromChannel(q[i])
    PROVE  Results(q) = q
<1> DEFINE T == {s \in Seq(Works) : (\A i \in DOMAIN s : FromChannel(s[i])) => Results(s) = s}
<1>1. <<>> \in T
  BY ResultsEmpty, <<>> \in Seq(Works)
<1>2. ASSUME NEW s \in Seq(Works), s \in T, NEW x \in Works PROVE Append(s, x) \in T
  <2>1. PICK t : t = Append(s, x)
    OBVIOUS
  <2>2. t \in Seq(Works) /\ Len(t) = Len(s) + 1 /\ (\A i \in 1..Len(s) : t[i] = s[i]) /\ t[Len(s) + 1] = x
    BY <2>1, Appended
  <2> SUFFICES ASSUME \A i \in DOMAIN t : FromChannel(t[i]) PROVE Results(t) = t
    BY <2>1, <2>2
  <2>3. FromChannel(x) /\ \A i \in DOMAIN s : FromChannel(s[i])
    <3>1. DOMAIN t = 1..Len(s) + 1 /\ DOMAIN s = 1..Len(s) /\ Len(s) \in Nat
      BY <2>2
    <3> QED BY <2>2, <3>1
  <2>4. Results(s) = s
    BY <1>2, <2>3
  <2> QED BY <2>1, <2>3, <2>4, ResultsAppend
<1> HIDE DEF T
<1>3. Seq(Works) \subseteq T
  BY <1>1, <1>2, SequenceInduction
<1> QED BY <1>3 DEF T

LEMMA ResultsTail ==
    ASSUME NEW q \in Seq(Works), q # <<>>
    PROVE  Results(q) = IF FromChannel(Head(q)) THEN <<Head(q)>> \o Results(Tail(q)) ELSE Results(Tail(q))
<1>1. PICK h, t, e : h = Head(q) /\ t = Tail(q) /\ e = <<>>
  OBVIOUS
<1>2. h \in Works /\ t \in Seq(Works) /\ e \in Seq(Works) /\ <<h>> \in Seq(Works)
  BY <1>1, SeqFacts
<1>3. q = <<h>> \o t
  BY <1>1, HeadAndTail
<1>4. Append(e, h) = <<h>>
  BY <1>1
<1>5. Results(<<h>>) = IF FromChannel(h) THEN <<h>> ELSE <<>>
  BY <1>1, <1>2, <1>4, ResultsAppend, ResultsEmpty
<1>6. Results(<<h>> \o t) = Results(<<h>>) \o Results(t)
  BY <1>2, ResultsConcat
<1>7. <<>> \o Results(t) = Results(t)
  BY <1>2, ResultsType, ConcatEmpty
<1> QED BY <1>1, <1>3, <1>5, <1>6, <1>7

-----------------------------------------------------------------------------
(* Without nested loops no result is dropped.                              *)

\* The only loop there is takes tasks from the ring.
InTasks(f) == f.pc = "run" \/ (f.pc = "js" /\ f.from = "run")

\* With one loop, every look at the channel finds the ring with its head at the
\* front, so that what room it has is in one piece.
Whole ==
    /\ Len(stack) = 1
    /\ tasks.head # 0 => InTasks(Top)

LEMMA OneLoop ==
    ASSUME MaxDepth = 1, Typed, Whole
    PROVE  /\ ~Pop
           /\ \A w \in Works : ~WaitForPromise(w)
           /\ \A g : NewTop(g) => Len(stack') = 1 /\ Head(stack') = g
<1>1. ~Pop
  BY StackPop DEF Pop, Typed, Whole
<1>2. \A w \in Works : ~WaitForPromise(w)
  BY DEF WaitForPromise, Whole
<1>3. ASSUME NEW g, NewTop(g) PROVE Len(stack') = 1 /\ Head(stack') = g
  BY <1>3, StackSet DEF NewTop, Typed, Whole
<1> QED BY <1>1, <1>2, <1>3

LEMMA WholeKept ==
    ASSUME MaxDepth = 1, Typed, Whole, tasks' = tasks,
           stack' = stack \/ \E g : NewTop(g) /\ (InTasks(Top) => InTasks(g))
    PROVE  Whole'
<1>1. CASE stack' = stack
  BY <1>1 DEF Whole, InTasks, Top
<1>2. ASSUME NEW g, NewTop(g), InTasks(Top) => InTasks(g) PROVE Whole'
  <2>1. Len(stack') = 1 /\ Head(stack') = g
    BY <1>2, OneLoop
  <2> QED BY <1>2, <2>1 DEF Whole, InTasks, Top
<1> QED BY <1>1, <1>2

LEMMA WholeStep ==
    ASSUME MaxDepth = 1
    PROVE  Typed /\ Whole /\ [Next]_vars => Whole'
<1> SUFFICES ASSUME Typed, Whole, [Next]_vars PROVE Whole'
  OBVIOUS
<1>1. FrameOK(Top) /\ tasks \in Fifos(Works)
  BY TopOK DEF Typed
<1>2. CASE UNCHANGED vars
  BY <1>2, WholeKept DEF vars, queues
<1>3. ASSUME NEW w \in Works, BeginAny(w) \/ Pool(w) PROVE Whole'
  <2>1. stack' = stack
    BY <1>3 DEF BeginAny, BeginWork, BeginCpp, Post, EnqueueTask, SetImmediate, SetTimeout,
                Pool, Finish, LinkResult, WakeLoop, UnrefConcurrently, WakeUnrefed
  <2>2. tasks' = tasks \/ tasks' = Push(tasks, w)
    BY <1>3 DEF BeginAny, BeginWork, BeginCpp, Post, EnqueueTask, SetImmediate, SetTimeout,
                Pool, Finish, LinkResult, WakeLoop, UnrefConcurrently, WakeUnrefed, queues
  <2>3. tasks.head = 0 => tasks'.head = 0
    BY <1>1, <2>2, Pushes
  <2> QED BY <2>1, <2>3 DEF Whole, InTasks, Top
<1>4. CASE Return
  <2>1. PICK g : /\ NewTop(g)
                 /\ g.pc = CASE Top.from = "entry"  -> "start"
                             [] Top.from = "before" -> "alive"
                             [] OTHER               -> Top.from
    BY <1>4, ReturnTop
  <2>2. Top.pc = "js" /\ tasks' = tasks
    BY <1>4 DEF Return, At, queues
  <2>3. InTasks(Top) => InTasks(g)
    BY <2>1, <2>2 DEF InTasks
  <2> QED BY <2>1, <2>2, <2>3, WholeKept
<1>5. CASE UpdateCounts \/ RanImmediates \/ Poll \/ Start \/ CheckAlive
  <2>1. \E g : NewTop(g)
    BY <1>5, CountTop, RanImmediatesTop, PollTop, StartTop, CheckAliveTop
  <2>2. ~InTasks(Top) /\ tasks' = tasks
    BY <1>5 DEF UpdateCounts, RanImmediates, Poll, Start, CheckAlive, At, InTasks, queues
  <2> QED BY <2>1, <2>2, WholeKept
<1>6. ASSUME NEW k \in 0..Len(line), TakeBatch(k) PROVE Whole'
  <2>1. PICK g : NewTop(g) /\ g.pc \in {"counts", "run", "alive"}
    BY <1>6, TakeTop
  <2>2. Top.pc = "take"
    BY <1>6 DEF TakeBatch, At
  <2>3. tasks.head = 0
    BY <2>2 DEF Whole, InTasks
  <2>4. tasks'.head = 0
    <3>1. tasks.head = 0 => tasks'.head = 0 /\ tasks'.items = tasks.items \o SubSeq(line, 1, k)
      BY <1>6, TakeTop
    <3> QED BY <2>3, <3>1
  <2>5. Len(stack') = 1
    BY <2>1, OneLoop
  <2> QED BY <2>4, <2>5 DEF Whole
<1>7. CASE RunTask
  <2>1. PICK g : NewTop(g) /\ g.pc = "js" /\ g.from = "run"
    BY <1>7, RunTop
  <2>2. Len(stack') = 1 /\ Head(stack') = g
    BY <2>1, OneLoop
  <2> QED BY <2>1, <2>2 DEF Whole, InTasks, Top
<1>8. CASE RanTasks
  <2>1. tasks'.head = 0 /\ \E g : NewTop(g)
    BY <1>8, RanTop
  <2>2. Len(stack') = 1
    BY <2>1, OneLoop
  <2> QED BY <2>1, <2>2 DEF Whole
<1>9. CASE Ticked
  <2>1. Pop \/ \E g : NewTop(g)
    BY <1>9, TickedTop
  <2>2. ~InTasks(Top) /\ tasks' = tasks
    BY <1>9 DEF Ticked, At, InTasks
  <2> QED BY <2>1, <2>2, OneLoop, WholeKept
<1>10. CASE RunImmediate
  <2>1. \E g : NewTop(g)
    BY <1>10, RunImmediateTop
  <2>2. ~InTasks(Top) /\ tasks' = tasks
    BY <1>10 DEF RunImmediate, At, InTasks, queues
  <2> QED BY <2>1, <2>2, WholeKept
<1>11. ASSUME NEW w \in Works, Fire(w) PROVE Whole'
  <2>1. \E g : NewTop(g)
    BY <1>11, FireTop
  <2>2. ~InTasks(Top) /\ tasks' = tasks
    BY <1>11 DEF Fire, At, InTasks, queues
  <2> QED BY <2>1, <2>2, WholeKept
<1>12. CASE Fired
  <2>1. Pop \/ \E g : NewTop(g)
    BY <1>12, FiredTop
  <2>2. ~InTasks(Top) /\ tasks' = tasks
    BY <1>12 DEF Fired, At, InTasks, queues
  <2> QED BY <2>1, <2>2, OneLoop, WholeKept
<1> QED BY <1>2, <1>3, <1>4, <1>5, <1>6, <1>7, <1>8, <1>9, <1>10, <1>11, <1>12, OneLoop DEF Next, Turn

LEMMA ResultsNext == Results(tasks.items)' = Results(tasks'.items)
BY DEF Results, FromChannel

LEMMA DroppedStep ==
    ASSUME MaxDepth = 1
    PROVE  Typed /\ Histories /\ Whole /\ NoTaskDropped /\ [Next]_vars => NoTaskDropped'
<1> SUFFICES ASSUME Typed, Histories, Whole, NoTaskDropped, [Next]_vars PROVE NoTaskDropped'
  OBVIOUS
<1>1. /\ tasks \in Fifos(Works) /\ tasks.items \in Seq(Works) /\ line \in Seq(Works)
      /\ Of(line, {"work", "cpp", "post"}) /\ sent \in Seq(Works) /\ got \in Seq(Works)
      /\ FrameOK(Top)
  BY RingFields, TopOK DEF Typed, Histories
<1>2. PICK q, r : q = tasks.items /\ r = Results(q)
  OBVIOUS
<1>3. q \in Seq(Works) /\ r \in Seq(Works)
  BY <1>1, <1>2, ResultsType
<1>4. got \o r \o line = sent
  BY <1>2 DEF NoTaskDropped
<1>5. got \o r \in Seq(Works)
  BY <1>1, <1>3, Concat
<1>6. ASSUME UNCHANGED <<line, sent, got>>, Results(tasks'.items) = r PROVE NoTaskDropped'
  BY <1>4, <1>6, ResultsNext DEF NoTaskDropped
<1>7. ASSUME UNCHANGED <<line, sent, got, tasks>> PROVE NoTaskDropped'
  BY <1>2, <1>6, <1>7
<1>8. ASSUME NEW w \in Works, UNCHANGED <<tasks, got>>, sent' = Append(sent, w),
             line' = Append(line, w)
      PROVE  NoTaskDropped'
  <2>1. Results(tasks.items)' = r
    BY <1>2, <1>8, ResultsNext
  <2>2. (got \o r) \o Append(line, w) = Append((got \o r) \o line, w)
    BY SMTT(60), <1>1, <1>5, ConcatAppend
  <2> QED BY <1>4, <1>8, <2>1, <2>2 DEF NoTaskDropped
<1>9. ASSUME NEW w \in Works, BeginAny(w) \/ Pool(w) PROVE NoTaskDropped'
  <2>1. CASE Finish(w)
    <3>1. line' = line \o <<w>> /\ UNCHANGED <<tasks, got>> /\ sent' = Append(sent, w)
      BY <2>1 DEF Finish, Channel!Send
    <3>2. line \o <<w>> = Append(line, w)
      BY <1>1, AppendIsConcat
    <3> QED BY <1>8, <3>1, <3>2
  <2>2. CASE Post(w)
    BY <1>8, <2>2 DEF Post
  <2>3. CASE EnqueueTask(w)
    <3>1. Kind[w] = "local" /\ tasks' = Push(tasks, w) /\ UNCHANGED <<line, sent, got>>
      BY <2>3 DEF EnqueueTask, Begin, channel
    <3>2. tasks'.items = Append(q, w)
      BY <1>1, <1>2, <3>1, Pushes
    <3>3. ~FromChannel(w)
      BY <3>1 DEF FromChannel
    <3>4. Results(Append(q, w)) = r
      BY <1>2, <1>3, <3>3, ResultsAppend
    <3> QED BY <1>6, <3>1, <3>2, <3>4
  <2>4. CASE ~(Finish(w) \/ Post(w) \/ EnqueueTask(w))
    <3>1. UNCHANGED <<line, sent, got, tasks>>
      BY <1>9, <2>4 DEF BeginAny, BeginWork, BeginCpp, SetImmediate, SetTimeout, Channel!Link,
           Pool, LinkResult, WakeLoop, UnrefConcurrently, WakeUnrefed, queues, channel, history
    <3> QED BY <1>7, <3>1
  <2> QED BY <2>1, <2>2, <2>3, <2>4
<1>10. ASSUME NEW k \in 0..Len(line), TakeBatch(k) PROVE NoTaskDropped'
  <2>1. PICK b, t : b = SubSeq(line, 1, k) /\ t = SubSeq(line, k + 1, Len(line))
    OBVIOUS
  <2>2. b \in Seq(Works) /\ t \in Seq(Works) /\ Len(b) = k /\ (\A i \in 1..k : b[i] = line[i])
    BY <1>1, <2>1, Prefix, Suffix
  <2>3. b \o t = line
    BY <1>1, <2>1, Split
  <2>4. Top.pc = "take" /\ UNCHANGED <<sent, got>>
    BY <1>10 DEF TakeBatch, At, history
  <2>5. tasks.head = 0
    BY <2>4 DEF Whole, InTasks
  <2>6. tasks'.items = q \o b
    <3>1. tasks.head = 0 => tasks'.head = 0 /\ tasks'.items = tasks.items \o SubSeq(line, 1, k)
      BY <1>10, TakeTop
    <3> QED BY <1>2, <2>1, <2>5, <3>1
  <2>7. line' = t
    <3>1. line' = SubSeq(line, k + 1, Len(line))
      BY <1>10, TakeTop
    <3> QED BY <2>1, <3>1
  <2>8. Results(b) = b
    <3>1. ASSUME NEW i \in 1..k PROVE FromChannel(b[i])
      <4>1. i \in DOMAIN line /\ b[i] = line[i]
        BY <1>1, <2>2
      <4> QED BY <1>1, <4>1 DEF Of, FromChannel
    <3>2. DOMAIN b = 1..k
      BY <2>2
    <3> QED BY <2>2, <3>1, <3>2, ResultsAll
  <2>9. Results(q \o b) = r \o b
    BY <1>2, <1>3, <2>2, <2>8, ResultsConcat
  <2>10. Results(tasks.items)' = r \o b
    BY <2>6, <2>9, ResultsNext
  <2>11. (got \o r) \o b = got \o (r \o b)
    <3>1. got \in Seq(Works) /\ r \in Seq(Works) /\ b \in Seq(Works)
      BY <1>1, <1>3, <2>2
    <3> QED BY SMTT(60), <3>1, ConcatAssoc
  <2>12. ((got \o r) \o b) \o t = (got \o r) \o (b \o t)
    <3>1. PICK a : a = got \o r
      OBVIOUS
    <3>2. a \in Seq(Works) /\ b \in Seq(Works) /\ t \in Seq(Works)
      BY <1>5, <2>2, <3>1
    <3>3. (a \o b) \o t = a \o (b \o t)
      BY SMTT(60), <3>2, ConcatAssoc
    <3> QED BY <3>1, <3>3
  <2> QED BY <1>4, <2>3, <2>4, <2>7, <2>10, <2>11, <2>12 DEF NoTaskDropped
<1>11. CASE RunTask
  <2>1. PICK h, t : h = Head(q) /\ t = Tail(q)
    OBVIOUS
  <2>2. q # <<>> /\ tasks'.items = t /\ h \in Works
    BY <1>2, <1>11, <2>1, RunTop
  <2>3. UNCHANGED <<line, sent>>
    BY <1>11 DEF RunTask, channel
  <2>4. got' = IF FromChannel(h) THEN Append(got, h) ELSE got
    BY <1>2, <1>11, <2>1 DEF RunTask, Ran
  <2>5. PICK p : p = Results(t)
    OBVIOUS
  <2>6. t \in Seq(Works) /\ p \in Seq(Works) /\ <<h>> \in Seq(Works)
    <3>1. t \in Seq(Works)
      BY <1>3, <2>1, <2>2, SeqFacts
    <3> QED BY <2>2, <2>5, <3>1, ResultsType
  <2>7. r = IF FromChannel(h) THEN <<h>> \o p ELSE p
    BY <1>2, <1>3, <2>1, <2>2, <2>5, ResultsTail
  <2>8. Results(tasks.items)' = p
    BY <2>2, <2>5, ResultsNext
  <2>9. CASE FromChannel(h)
    <3>1. got \o (<<h>> \o p) = (got \o <<h>>) \o p
      <4>1. got \in Seq(Works)
        BY <1>1
      <4>2. PICK a : a = <<h>>
        OBVIOUS
      <4>3. got \o (a \o p) = (got \o a) \o p
        BY <2>6, <4>1, <4>2, ConcatAssoc
      <4> QED BY <4>2, <4>3
    <3>2. got \o <<h>> = Append(got, h)
      BY <1>1, <2>2, AppendIsConcat
    <3> QED BY <1>4, <2>3, <2>4, <2>7, <2>8, <2>9, <3>1, <3>2 DEF NoTaskDropped
  <2>10. CASE ~FromChannel(h)
    BY <1>4, <2>3, <2>4, <2>7, <2>8, <2>10 DEF NoTaskDropped
  <2> QED BY <2>9, <2>10
<1>12. CASE RanTasks
  <2>1. tasks'.items = q
    BY <1>2, <1>12, RanTop
  <2>2. UNCHANGED <<line, sent, got>>
    BY <1>12 DEF RanTasks, channel, history
  <2> QED BY <1>2, <1>6, <2>1, <2>2
<1>13. CASE Turn /\ ~RunTask /\ ~RanTasks /\ \A k \in 0..Len(line) : ~TakeBatch(k)
  <2>1. UNCHANGED <<line, sent, got, tasks>>
    BY <1>13 DEF Turn, Return, UpdateCounts, Ticked, RunImmediate, RanImmediates,
                Poll, Fire, Fired, Start, CheckAlive, queues, channel, history
  <2> QED BY <1>7, <2>1
<1>14. CASE UNCHANGED vars
  BY <1>7, <1>14 DEF vars, queues, channel, history
<1> QED BY <1>9, <1>10, <1>11, <1>12, <1>13, <1>14, OneLoop DEF Next

\* In a program that never waits in a nested loop, every result that another
\* thread has handed over is still in the channel, among the tasks, or has had
\* its callback, and the callbacks come in the order in which the results were
\* handed over: tickConcurrentWithCount always has room for what it takes.
THEOREM NothingDropped == ASSUME MaxDepth = 1 PROVE Spec => []NoTaskDropped
<1>1. Init => Typed /\ Tallied /\ CountsExact /\ Pending /\ Accounted /\ Whole /\ NoTaskDropped
  <2>1. Init => Whole
    <3> SUFFICES ASSUME Init PROVE Whole
      OBVIOUS
    <3>1. Len(stack) = 1
      BY DEF Init
    <3>2. tasks.head = 0
      <4>1. EmptyFifo \in Fifos(Works) /\ EmptyFifo.head = 0 /\ Capacity \in Nat
        BY RingEmpty, TaskLoopAssumption DEF EmptyFifo
      <4>2. Reserve(EmptyFifo, Capacity) = EmptyFifo \/ Reserve(EmptyFifo, Capacity).head = 0
        BY <4>1, Reserves
      <4> QED BY <4>1, <4>2 DEF Init
    <3> QED BY <3>1, <3>2 DEF Whole
  <2>2. Init => NoTaskDropped
    <3> SUFFICES ASSUME Init PROVE NoTaskDropped
      OBVIOUS
    <3>1. tasks.items = <<>>
      <4>1. EmptyFifo \in Fifos(Works) /\ EmptyFifo.items = <<>> /\ Capacity \in Nat
        BY RingEmpty, TaskLoopAssumption
      <4>2. Reserve(EmptyFifo, Capacity).items = EmptyFifo.items
        BY <4>1, Reserves
      <4> QED BY <4>1, <4>2 DEF Init
    <3>2. Results(tasks.items) = <<>>
      BY <3>1, ResultsEmpty
    <3> QED BY <3>2 DEF Init, NoTaskDropped
  <2> QED BY <2>1, <2>2, TypedInit, TalliedInit, PendingInit, AccountedInit
<1>2. Typed /\ Tallied /\ CountsExact /\ Pending /\ Accounted /\ Whole /\ NoTaskDropped /\ [Next]_vars
        => (Typed /\ Tallied /\ CountsExact /\ Pending /\ Accounted /\ Whole /\ NoTaskDropped)'
  BY TypedStep, CountedStep, AccountedStep, WholeStep, DroppedStep DEF Accounted
<1> QED BY <1>1, <1>2, PTL DEF Spec
=============================================================================
