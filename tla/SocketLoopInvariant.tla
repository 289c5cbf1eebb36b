------------------------- MODULE SocketLoopInvariant -------------------------
(***************************************************************************)
(* The inductive invariants of SocketLoop: what the functions on the stack *)
(* rely on, whether they run or wait for a callback, and the heap they     *)
(* find.                                                                   *)
(***************************************************************************)
EXTENDS SocketLoop, SocketHeapInvariant

-----------------------------------------------------------------------------
(* The locals of the functions, for every program.                         *)

\* What each function keeps in its locals while it is on the stack.
FrameOK(f) ==
    /\ f.op \in {"dispatch", "close", "accept"} => f.s \in Sockets
    /\ f.op = "cb" /\ f.pc # "pre" => f.s \in Sockets
    /\ f.op = "cclose" => f.c \in Contexts
    /\ f.op = "sweep" /\ f.pc # "context" => f.c \in Contexts
    /\ f.op = "sweep" /\ f.pc \in {"long", "step"} => f.s \in Sockets

\* A dispatch between its checks of the socket and the use it makes of them.
Checked(f) == f.op = "dispatch" /\ f.pc \in {"writable", "readable"}

\* The frames that may wait under another one.
Parked == {f \in Frame : FrameOK(f) /\ ~Checked(f)}

\* Only the running function can be in the middle of a checked step.
StackOK(st) ==
    st # <<>> => /\ Head(st) \in Frame /\ FrameOK(Head(st))
                 /\ Tail(st) \in Seq(Parked)

\* The inductive invariant of the types and of the pending ready polls.
IInv ==
    /\ TypeOK
    /\ Sound(h)
    /\ StackOK(stack)
    /\ stack # <<>> /\ Checked(Top) => ~IsClosed(h, Top.s)

-----------------------------------------------------------------------------
(* The shape of the stack.                                                 *)

\* The programs the theorems are about: the loop is never entered again from a
\* callback, and sockets that wait in the low-priority queue are not adopted,
\* written to or resumed.
Tame ==
    /\ "tick" \notin Calls
    /\ "lowprio" \in Calls => Calls \cap {"adopt", "write", "write2", "pause"} = {}

Mode == [plain |-> "lowprio" \notin Calls]

Frames(st) == {st[i] : i \in 1..Len(st)}

\* The sockets whose close has not finished.
Closes(st) == {s \in Sockets : \E f \in Frames(st) : f.op = "close" /\ f.s = s}

\* The callback f was made by the function g.
CalledFrom(f, g) ==
    \/ f.pc \in {"pre", "on_connect_error"} /\ g.op = "tick"
    \/ f.pc = "on_open" /\ g.op \in {"tick", "accept"}
    \/ /\ f.pc \in {"on_data", "on_end", "on_writable"} /\ g.op = "dispatch"
       /\ g.pc \in {"received", "wrote", "ended", "error"}
       /\ f.pc = "on_writable" <=> g.pc = "wrote"
       /\ "adopt" \notin Calls => f.s = g.s
    \/ f.pc \in {"on_timeout", "on_long_timeout"} /\ g.op = "sweep" /\ g.pc \in {"long", "step"}
    \/ f.pc = "on_close" /\ g.op = "close"

\* f may stand on g.
Follows(f, g) ==
    \/ f.op \in {"dispatch", "accept", "sweep"} /\ g.op = "tick"
    \/ f.op = "cclose" /\ g.op = "cb"
    \/ f.op = "close" /\ (g.op \in {"cb", "tick"} \/ (g.op = "cclose" /\ g.pc = "closing"))
    \/ f.op = "cb" /\ CalledFrom(f, g)

\* ... and a socket is closed by one function at a time.
Shape(st) ==
    /\ \A i \in 1..Len(st) : IF i = Len(st) THEN st[i].op \in {"tick", "close", "cclose"}
                             ELSE Follows(st[i], st[i + 1])
    /\ \A i, j \in 1..Len(st) :
          st[i].op = "close" /\ st[j].op = "close" /\ st[i].s = st[j].s => i = j

-----------------------------------------------------------------------------
(* What the functions rely on.                                             *)

\* A sweep between the callbacks of one socket, which they may have moved.
Visiting(f) == f.op = "sweep" /\ f.pc \in {"long", "step"}

\* What a frame relies on, whether it runs or waits: its socket and its context
\* are still there, and a sweep has served what its iterator has passed.
FrameAlive(g, f) ==
    /\ f.op = "tick" => f.s = Null /\ f.c = Null
    /\ f.c \in Contexts => g.state[f.c] # "none"
    /\ f.s \in Sockets =>
         /\ f.op = "dispatch" \/ Visiting(f) \/ g.type[f.s] # "free"
         /\ f.op = "accept" => g.type[f.s] \in {"listen", "semi", "shut"}
         /\ f.op = "cb" /\ f.pc \in {"on_data", "on_end", "on_writable"}
              => g.type[f.s] \in {"socket", "shut"}
         /\ f.op = "dispatch" /\ "R" \in f.ev /\ f.pc \in {"writable", "wrote", "readable"}
              => (Open(g, f.s) => g.low[f.s] # 1)
         /\ f.op = "cclose" /\ f.pc = "closing" /\ g.type[f.s] = "listen" => IsClosed(g, f.s)

\* The timeouts a sweep has still to deliver to the socket it stands on.
Left(pc) == IF pc = "long" THEN {"long"} ELSE {}
Swept(g, f, r) ==
    Visiting(f) /\ f.s \in Sockets /\ f.c \in Contexts
        => SweptAt(g, f.c, f.s, Left(f.pc), r)
Waits(g, f, r) == FrameAlive(g, f) /\ Swept(g, f, r)

\* What it relies on only while it runs.
Runs(g, f, r) ==
    /\ f.op = "dispatch" /\ f.s \in Sockets =>
         /\ g.type[f.s] \in {"socket", "shut"}
         /\ f.pc \in {"writable", "readable", "recv"} => ~IsClosed(g, f.s)
    /\ f.op = "sweep" /\ f.pc = "seek" /\ f.c \in Contexts =>
         /\ f.s = Null \/ f.s \in Regular(g, f.c)
         /\ Ahead(g, f.c, f.s, r)
    /\ f.op = "cclose" /\ f.pc = "listening" /\ f.c \in Contexts =>
         f.s = Null \/ f.s \in Listening(g, f.c)

Base(g, st, own, r) ==
    /\ Shape(st) /\ Heaped(g, Closes(st), own, r, Mode)
    /\ \A f \in Frames(st) : Waits(g, f, r)
Based(g, st, own) ==
    \E r : Base(g, st, own, r) /\ (st # <<>> => Runs(g, Head(st), r))

\* The iterator of the loop is only set during a sweep.
LiterOK(g, st) ==
    g.liter # Null => g.state[g.liter] # "none" /\ \E f \in Frames(st) : f.op = "sweep"

\* A socket with a short write polls for writable; while its writable half is
\* dispatched the flag remembers, if every short write sets it.
Flagged == "write2" \notin Calls
Unsent(g, un) ==
    \A s \in un : /\ g.type[s] \in {"socket", "shut"}
                  /\ Flagged /\ g.type[s] = "socket" => "W" \in g.poll[s]
Writing(f) ==
    /\ Flagged
    /\ (f.op = "dispatch" /\ f.pc = "wrote") \/ (f.op = "cb" /\ f.pc = "on_writable")
Written(st, un, wf) == \A f \in Frames(st) : Writing(f) /\ f.s \in un => wf

\* The inductive invariant of the lists, the references, the stack, the sweep
\* and the short writes.
LInv ==
    /\ Based(h, stack, owner) /\ LiterOK(h, stack)
    /\ Unsent(h, unsent) /\ Written(stack, unsent, wfailed)
=============================================================================
