------------------------------ MODULE TaskLoop ------------------------------
(***************************************************************************)
(* The event loop of the VM (bun.js/event_loop.zig with Task.zig) and the  *)
(* run of a program from its entry script to its exit (bun_js.zig).        *)
(*                                                                         *)
(* Other threads finish works and push the results on concurrent_tasks,    *)
(* then wake the loop.  The thread of the loop moves them to its own queue *)
(* and runs them, and everything it runs is JavaScript that may begin      *)
(* other works, or wait for one in a nested loop (waitForPromise).         *)
(*                                                                         *)
(* `stack` is the stack of that thread, top first, with one frame for each *)
(* loop; a frame whose pc is "js" runs JavaScript.  The queue between the  *)
(* threads is TaskChannel, which UnboundedQueue implements.                *)
(***************************************************************************)
EXTENDS Integers, Sequences, FiniteSets, LinearFifo

CONSTANTS
    Works,      \* what the program begins, each at most once
    Kind,       \* the kind of each
    NoWork,
    Capacity,   \* tasks that vm.event_loop.tasks has room for at first, 64
    Immediates, \* what the callbacks of immediates may do, of ImmediateUses
    MaxBegun,   \* bound: works that the program begins
    MaxDepth    \* bound: loops on the stack

\* "work"      WorkTask: the pool runs it, the loop is referenced until its callback
\* "cpp"       ConcurrentCppTask: referenced until the pool has pushed the result
\* "post"      postTaskTo from the thread of the loop: not referenced
\* "local"     enqueueTask
\* "immediate" setImmediate: all of them share one reference, until their callbacks
\* "timer"     setTimeout: all of them share one reference, until after their callbacks
AllKinds == {"work", "cpp", "post", "local", "immediate", "timer"}

\* The callbacks of immediates run between tick and epoll_wait: nothing looks at
\* the tasks again, nor at the promise that is waited for.
\* "enqueue"  they enqueue tasks
\* "wait"     they wait for promises
\* "settle"   they settle promises that a nested loop waits for
ImmediateUses == {"enqueue", "wait", "settle"}

ASSUME TaskLoopAssumption ==
    /\ Kind \in [Works -> AllKinds] /\ NoWork \notin Works
    /\ Capacity \in {1, 2, 4, 8} /\ MaxBegun \in Nat /\ MaxDepth \in Nat \ {0}
    /\ Immediates \subseteq ImmediateUses

VARIABLES
    line, unlinked, \* concurrent_tasks
    tasks,          \* the tasks of the loop
    immediates,     \* immediate_tasks; next_immediate_tasks is always empty
    active,         \* loop.active
    timerRefs,      \* active_timer_count of the timers,
    immediateRefs,  \* and their immediate_ref_count
    delta,          \* concurrent_ref
    awake,          \* the eventfd of the loop is readable
    thread,         \* the threads of the pool, by the work they run
    clock,          \* the timers: set, and to be fired in this round
    stack,
    begun,          \* history: the works that were begun,
    ran,            \* those whose callback has begun,
    sent, got       \* and the tasks as the channel took them and gave them back

channel == <<line, unlinked>>
queues  == <<channel, tasks, immediates>>
shared  == <<timerRefs, immediateRefs>>
loop    == <<active, shared, delta, awake>>
history == <<begun, ran, sent, got>>
vars    == <<queues, loop, thread, clock, stack, history>>

Channel == INSTANCE TaskChannel WITH Nodes <- Works, MaxBatch <- 1

Sets(s) == {s[i] : i \in DOMAIN s}

Loops == {"js", "start", "counts", "take", "run", "ticked", "immediates",
          "poll", "timers", "alive", "exit"}
Frame == [pc : Loops,
          from : {"entry", "run", "immediates", "timers", "before"},
          mode : {"first", "loop", "before", "again", "wait"},
          wait : Works \cup {NoWork},  \* what a nested loop waits for
          task : Works \cup {NoWork},  \* whose callback runs
          phase : {"start", "enter", "more", "drained", "last"},
          some : BOOLEAN,              \* tickQueueWithCount ran a task
          n : Nat,                     \* the items that popBatch has seen
          todo : Seq(Works)]           \* to_run_now of tickImmediateTasks

FrameOf(pc, mode, w) ==
    [pc |-> pc, from |-> "entry", mode |-> mode, wait |-> w, task |-> NoWork,
     phase |-> "enter", some |-> FALSE, n |-> 0, todo |-> <<>>]

Top == Head(stack)
At(pc) == Top.pc = pc
SetTop(f) == stack' = <<f>> \o Tail(stack)
Goto(pc) == SetTop([Top EXCEPT !.pc = pc])
Tick(mode) == SetTop([Top EXCEPT !.pc = "counts", !.phase = "enter", !.mode = mode])
Script(from, w) == [Top EXCEPT !.pc = "js", !.from = from, !.task = w]

Running == At("exit") = FALSE

Init ==
    /\ line = <<>> /\ unlinked = {}
    /\ tasks = Reserve(EmptyFifo, Capacity) /\ immediates = <<>>
    /\ active = 0 /\ timerRefs = 0 /\ immediateRefs = 0 /\ delta = 0 /\ awake = FALSE
    /\ thread = [w \in Works |-> "off"] /\ clock = [w \in Works |-> "off"]
    /\ stack = <<FrameOf("js", "first", NoWork)>>
    /\ begun = {} /\ ran = {} /\ sent = <<>> /\ got = <<>>

-----------------------------------------------------------------------------
(* The threads of the pool.                                                *)

\* The work is done: push swaps the back pointer.
Finish(w) ==
    /\ Running /\ thread[w] = "pool"
    /\ Channel!Send(<<w>>) /\ sent' = Append(sent, w)
    /\ thread' = [thread EXCEPT ![w] = "swapped"]
    /\ UNCHANGED <<tasks, immediates, loop, clock, stack, begun, ran, got>>

LinkResult(w) ==
    /\ Running /\ thread[w] = "swapped"
    /\ Channel!Link(w)
    /\ thread' = [thread EXCEPT ![w] = "linked"]
    /\ UNCHANGED <<tasks, immediates, loop, clock, stack, history>>

\* wakeup() at the end of enqueueTaskConcurrent.
WakeLoop(w) ==
    /\ Running /\ thread[w] = "linked"
    /\ awake' = TRUE
    /\ thread' = [thread EXCEPT ![w] = IF Kind[w] = "cpp" THEN "pushed" ELSE "off"]
    /\ UNCHANGED <<queues, active, shared, delta, clock, stack, history>>

\* unrefConcurrently, and its wakeup().
UnrefConcurrently(w) ==
    /\ Running /\ thread[w] = "pushed"
    /\ delta' = delta - 1
    /\ thread' = [thread EXCEPT ![w] = "unrefed"]
    /\ UNCHANGED <<queues, active, shared, awake, clock, stack, history>>

WakeUnrefed(w) ==
    /\ Running /\ thread[w] = "unrefed"
    /\ awake' = TRUE
    /\ thread' = [thread EXCEPT ![w] = "off"]
    /\ UNCHANGED <<queues, active, shared, delta, clock, stack, history>>

-----------------------------------------------------------------------------
(* JavaScript.                                                             *)

May(use) == Top.from = "immediates" => use \in Immediates

Begin(w, kind) ==
    /\ At("js") /\ w \notin begun /\ Kind[w] = kind /\ Cardinality(begun) < MaxBegun
    /\ begun' = begun \cup {w}

BeginWork(w) ==
    /\ Begin(w, "work")
    /\ active' = active + 1
    /\ thread' = [thread EXCEPT ![w] = "pool"]
    /\ UNCHANGED <<queues, shared, delta, awake, clock, stack, ran, sent, got>>

\* refConcurrently also wakes the loop.
BeginCpp(w) ==
    /\ Begin(w, "cpp")
    /\ delta' = delta + 1 /\ awake' = TRUE
    /\ thread' = [thread EXCEPT ![w] = "pool"]
    /\ UNCHANGED <<queues, active, shared, clock, stack, ran, sent, got>>

\* The consumer itself pushes: it links before it can look.
Post(w) ==
    /\ Begin(w, "post")
    /\ line' = Append(line, w) /\ sent' = Append(sent, w)
    /\ awake' = TRUE
    /\ UNCHANGED <<unlinked, tasks, immediates, active, shared, delta, thread, clock, stack, ran, got>>

EnqueueTask(w) ==
    /\ Begin(w, "local") /\ May("enqueue")
    /\ tasks' = Push(tasks, w)
    /\ UNCHANGED <<channel, immediates, loop, thread, clock, stack, ran, sent, got>>

\* Mutant of Shared: the first to end gives back what all share.
SharedFirst(n, m) ==
    CASE n <= 0 /\ m > 0 -> 1 [] m < n -> -1 [] OTHER -> 0

\* What a count that goes from n to m takes from the loop, or gives back.
Shared(n, m) ==
    CASE n <= 0 /\ m > 0 -> 1 [] n > 0 /\ m <= 0 -> -1 [] OTHER -> 0

IncrementTimerRef(d) ==
    /\ timerRefs' = timerRefs + d
    /\ active' = active + Shared(timerRefs, timerRefs + d)

IncrementImmediateRef(d) ==
    /\ immediateRefs' = immediateRefs + d
    /\ active' = active + Shared(immediateRefs, immediateRefs + d)

SetImmediate(w) ==
    /\ Begin(w, "immediate")
    /\ immediates' = Append(immediates, w)
    /\ IncrementImmediateRef(1)
    /\ UNCHANGED <<channel, tasks, timerRefs, delta, awake, thread, clock, stack, ran, sent, got>>

SetTimeout(w) ==
    /\ Begin(w, "timer")
    /\ clock' = [clock EXCEPT ![w] = "armed"]
    /\ IncrementTimerRef(1)
    /\ UNCHANGED <<queues, immediateRefs, delta, awake, thread, stack, ran, sent, got>>

\* What only a loop below the top of the stack can run.
Held == UNION {{stack[i].task} \cup Sets(stack[i].todo) : i \in DOMAIN stack}

\* waitForPromise: a loop of its own, until the callback of w has run.
WaitForPromise(w) ==
    /\ At("js") /\ May("wait") /\ Len(stack) < MaxDepth
    /\ w \in begun \ (ran \cup Held)
    /\ Kind[w] = "immediate" => "settle" \in Immediates
    /\ stack' = <<FrameOf("counts", "wait", w)>> \o stack
    /\ UNCHANGED <<queues, loop, thread, clock, history>>

\* fire gives the reference of the timer back after its callback.
Return ==
    /\ At("js")
    /\ SetTop([Top EXCEPT !.task = NoWork, !.some = Top.from = "run", !.from = "entry",
                          !.pc = CASE Top.from = "entry"  -> "start"
                                   [] Top.from = "before" -> "alive"
                                   [] OTHER               -> Top.from])
    /\ IF Top.from = "timers" THEN IncrementTimerRef(-1) ELSE UNCHANGED <<active, timerRefs>>
    /\ UNCHANGED <<queues, immediateRefs, delta, awake, thread, clock, history>>

-----------------------------------------------------------------------------
(* tickConcurrentWithCount, in the phases of tick that call it.            *)

\* updateCounts; then popBatch walks the links as far as they lead.  No thread
\* can tell whether anything happened between the two.
UpdateCounts ==
    /\ At("counts")
    /\ active' = active + delta /\ delta' = 0
    /\ SetTop([Top EXCEPT !.pc = "take", !.n = Len(line) - Cardinality(Channel!Hidden)])
    /\ UNCHANGED <<queues, shared, awake, thread, clock, history>>

\* It takes all it has seen if that was the end of the line, or if the item
\* behind it was pushed, and linked, while it tried to take the last one.
\* Otherwise it leaves the last one.
Taken(n) ==
    IF n = Len(line) THEN {n}
    ELSE {n - 1} \cup (IF n + 1 \in Channel!Hidden THEN {} ELSE {n})

\* What becomes of a frame after tickConcurrent left the tasks f, k of them new.
Looked(f, k) ==
    LET g == [Top EXCEPT !.n = 0, !.some = FALSE]
    IN  CASE Top.phase = "start" ->
               IF k > 0 THEN [g EXCEPT !.pc = "counts", !.phase = "enter"]
               ELSE [g EXCEPT !.pc = "alive", !.mode = "loop"]
          [] Top.phase = "drained" ->
               [g EXCEPT !.pc = "run", !.phase = IF Count(f) > 0 THEN "more" ELSE "last"]
          [] OTHER ->
               [g EXCEPT !.pc = "run", !.phase = IF @ = "enter" THEN "more" ELSE @]

\* Mutant of Arrive: there is always room for the new tasks.
ArriveNoReserve(f, batch) ==
    LET g == IF Count(f) = 0 THEN [f EXCEPT !.head = 0] ELSE f
        k == IF Len(batch) < Writable(g) THEN Len(batch) ELSE Writable(g)
    IN  [g EXCEPT !.items = @ \o SubSeq(batch, 1, k)]

\* The tasks with the batch written to writableSlice(0): what the slice has
\* no room for is taken from the channel all the same.
Arrive(f, batch) ==
    IF batch = <<>> THEN f
    ELSE LET g == Reserve(IF Count(f) = 0 THEN [f EXCEPT !.head = 0] ELSE f, Len(batch))
             k == IF Len(batch) < Writable(g) THEN Len(batch) ELSE Writable(g)
         IN  [g EXCEPT !.items = @ \o SubSeq(batch, 1, k)]

TakeBatch(k) ==
    /\ At("take") /\ (Top.n > 0 => k \in Taken(Top.n)) /\ (Top.n = 0 => k = 0)
    /\ IF k > 0 THEN Channel!Receive(k) ELSE UNCHANGED channel
    /\ tasks' = Arrive(tasks, SubSeq(line, 1, k))
    /\ SetTop(Looked(tasks', k))
    /\ UNCHANGED <<immediates, loop, thread, clock, history>>

-----------------------------------------------------------------------------
(* tickQueueWithCount and the rest of tick.                                *)

FromChannel(w) == Kind[w] \in {"work", "cpp", "post"}

Ran(w) ==
    /\ ran' = ran \cup {w}
    /\ got' = IF FromChannel(w) THEN Append(got, w) ELSE got

\* Mutant of RunTask: every callback gives a reference back.
RunTaskUnref ==
    /\ At("run") /\ Count(tasks) > 0
    /\ LET w == Head(tasks.items)
       IN  /\ tasks' = Discard(tasks, 1)
           /\ active' = active - 1
           /\ Ran(w)
           /\ SetTop(Script("run", w))
    /\ UNCHANGED <<channel, immediates, shared, delta, awake, thread, clock, begun, sent>>

\* Mutant of RunTask: the reference of a WorkTask outlives it.
RunTaskHeld ==
    /\ At("run") /\ Count(tasks) > 0
    /\ LET w == Head(tasks.items)
       IN  /\ tasks' = Discard(tasks, 1)
           /\ Ran(w)
           /\ SetTop(Script("run", w))
    /\ UNCHANGED <<channel, immediates, loop, thread, clock, begun, sent>>

\* runFromJS lets the reference go before it calls back.
RunTask ==
    /\ At("run") /\ Count(tasks) > 0
    /\ LET w == Head(tasks.items)
       IN  /\ tasks' = Discard(tasks, 1)
           /\ active' = IF Kind[w] = "work" THEN active - 1 ELSE active
           /\ Ran(w)
           /\ SetTop(Script("run", w))
    /\ UNCHANGED <<channel, immediates, shared, delta, awake, thread, clock, begun, sent>>

\* tickQueueWithCount returns.  The inner loop of tick looks for more until
\* nothing ran, then drains the microtasks and looks once more.
RanTasks ==
    /\ At("run") /\ Count(tasks) = 0
    /\ tasks' = [tasks EXCEPT !.head = 0]
    /\ SetTop(IF Top.some THEN [Top EXCEPT !.pc = "counts"]
              ELSE IF Top.phase = "more" THEN [Top EXCEPT !.pc = "counts", !.phase = "drained"]
              ELSE [Top EXCEPT !.pc = "ticked"])
    /\ UNCHANGED <<channel, immediates, loop, thread, clock, history>>

\* tick returns to the loop that called it, which is done or goes on with
\* autoTick or autoTickActive.  These begin with the immediates there are.
Ticked ==
    /\ At("ticked")
    /\ IF Top.mode = "first"
       THEN SetTop([Top EXCEPT !.pc = "alive", !.mode = "loop"]) /\ UNCHANGED immediates
       ELSE IF Top.mode = "wait" /\ Top.wait \in ran
       THEN stack' = Tail(stack) /\ UNCHANGED immediates
       ELSE SetTop([Top EXCEPT !.pc = "immediates", !.todo = immediates]) /\ immediates' = <<>>
    /\ UNCHANGED <<channel, tasks, loop, thread, clock, history>>

-----------------------------------------------------------------------------
(* The rest of autoTick and of autoTickActive.                             *)

\* runImmediateTask gives the reference back before the callback.
RunImmediate ==
    /\ At("immediates") /\ Top.todo # <<>>
    /\ SetTop([Script("immediates", Head(Top.todo)) EXCEPT !.todo = Tail(@)])
    /\ IncrementImmediateRef(-1)
    /\ ran' = ran \cup {Head(Top.todo)}
    /\ UNCHANGED <<queues, timerRefs, delta, awake, thread, clock, begun, sent, got>>

\* Mutant of RanImmediates: the loop does not wake itself.
RanImmediatesQuiet ==
    /\ At("immediates") /\ Top.todo = <<>>
    /\ Goto("poll")
    /\ UNCHANGED <<queues, loop, thread, clock, history>>

RanImmediates ==
    /\ At("immediates") /\ Top.todo = <<>>
    /\ awake' = (awake \/ immediates # <<>>)
    /\ Goto("poll")
    /\ UNCHANGED <<queues, active, shared, delta, thread, clock, history>>

Timers(state) == {w \in Works : clock[w] = state}

\* epoll_wait returns at once when the loop is not active, when the eventfd is
\* readable and when a nested loop left timers that are due.
Blocked == At("poll") /\ active > 0 /\ ~awake /\ Timers("due") = {}

\* Otherwise it waits for the next timer.  The time is read once after it:
\* timers that expire later wait for the next round.
Poll ==
    /\ At("poll")
    /\ \E expired \in SUBSET Timers("armed") :
         /\ Blocked => expired # {}
         /\ clock' = [w \in Works |-> IF w \in expired THEN "due" ELSE clock[w]]
    /\ awake' = FALSE
    /\ Goto("timers")
    /\ UNCHANGED <<queues, active, shared, delta, thread, history>>

Fire(w) ==
    /\ At("timers") /\ clock[w] = "due"
    /\ clock' = [clock EXCEPT ![w] = "off"]
    /\ ran' = ran \cup {w}
    /\ SetTop(Script("timers", w))
    /\ UNCHANGED <<queues, loop, thread, begun, sent, got>>

\* drainTimers is done.
Fired ==
    /\ At("timers") /\ Timers("due") = {}
    /\ IF Top.mode # "wait" THEN Goto("alive")
       ELSE IF Top.wait \in ran THEN stack' = Tail(stack)
       ELSE Tick("wait")
    /\ UNCHANGED <<queues, loop, thread, clock, history>>

-----------------------------------------------------------------------------
(* The run of the program: the entry script, the loop, "beforeExit".       *)

\* Mutant of Alive: tasks in the queue do not count.
AliveNoTasks == active > 0 \/ delta > 0 \/ immediates # <<>>

\* isEventLoopAlive
Alive == active > 0 \/ Count(tasks) > 0 \/ delta > 0 \/ immediates # <<>>

\* After the entry script even results that nothing references count.
Start ==
    /\ At("start")
    /\ SetTop([Top EXCEPT !.pc = "counts", !.phase = IF Alive THEN "enter" ELSE "start"])
    /\ UNCHANGED <<queues, loop, thread, clock, history>>

\* The loop runs on while it is alive.  onBeforeExit calls the listeners
\* again after every such run, and the process exits when none of them has
\* given the loop anything to do.
CheckAlive ==
    /\ At("alive")
    /\ IF Alive THEN Tick(IF Top.mode = "before" THEN "again" ELSE Top.mode)
       ELSE IF Top.mode = "before" THEN Goto("exit")
       ELSE SetTop([Script("before", NoWork) EXCEPT !.mode = "before"])
    /\ UNCHANGED <<queues, loop, thread, clock, history>>

-----------------------------------------------------------------------------

BeginAny(w) ==
    \/ BeginWork(w) \/ BeginCpp(w) \/ Post(w)
    \/ EnqueueTask(w) \/ SetImmediate(w) \/ SetTimeout(w)

Pool(w) == Finish(w) \/ LinkResult(w) \/ WakeLoop(w) \/ UnrefConcurrently(w) \/ WakeUnrefed(w)

Turn ==
    \/ Return
    \/ UpdateCounts \/ \E k \in 0..Len(line) : TakeBatch(k)
    \/ RunTask \/ RanTasks \/ Ticked
    \/ RunImmediate \/ RanImmediates
    \/ Poll \/ (\E w \in Works : Fire(w)) \/ Fired
    \/ Start \/ CheckAlive

Next ==
    \/ \E w \in Works : BeginAny(w) \/ WaitForPromise(w) \/ Pool(w)
    \/ Turn

Spec == Init /\ [][Next]_vars

\* Every thread runs on, and the timers expire.
FairSpec == Spec /\ WF_vars(Turn) /\ \A w \in Works : WF_vars(Pool(w))

-----------------------------------------------------------------------------

TypeOK ==
    /\ line \in Seq(Works) /\ unlinked \subseteq Works
    /\ tasks \in Fifos(Works) /\ immediates \in Seq(Works)
    /\ active \in Nat /\ timerRefs \in Nat /\ immediateRefs \in Nat
    /\ delta \in Int /\ awake \in BOOLEAN
    /\ thread \in [Works -> {"off", "pool", "swapped", "linked", "pushed", "unrefed"}]
    /\ clock \in [Works -> {"off", "armed", "due"}]
    /\ stack \in Seq(Frame) /\ stack # <<>>
    /\ begun \subseteq Works /\ ran \subseteq begun
    /\ sent \in Seq(Works) /\ got \in Seq(Works)


\* The tasks of q that came through the channel.
Results(q) ==
    LET taken[n \in 0..Len(q)] ==
            IF n = 0 THEN <<>>
            ELSE IF FromChannel(q[n]) THEN Append(taken[n - 1], q[n])
            ELSE taken[n - 1]
    IN  taken[Len(q)]

\* Every result that another thread has handed over is still in the channel,
\* among the tasks, or has had its callback; and the callbacks come in the
\* order in which the results were handed over, nested loops included.
NoTaskDropped == got \o Results(tasks.items) \o line = sent

\* The loop never sleeps on a task, an immediate or a promise that is settled,
\* nor on a result or a reference that was given back unless the thread that
\* left it there is about to wake the loop.
NoLostWakeup ==
    Blocked =>
        /\ immediates = <<>> /\ Count(tasks) = 0 /\ Top.wait \notin ran
        /\ line # <<>> \/ delta # 0 =>
             \E w \in Works : thread[w] \in {"swapped", "linked", "unrefed"}

\* The works whose references keep the loop alive.
Referencing ==
    {w \in begun :
        \/ Kind[w] \in {"work", "immediate"} /\ w \notin ran
        \/ Kind[w] = "cpp" /\ thread[w] \in {"pool", "swapped", "linked", "pushed"}
        \/ Kind[w] = "timer" /\ w \notin ran \ {stack[i].task : i \in DOMAIN stack}}

References(kinds) == Cardinality({w \in Referencing : Kind[w] \in kinds})

\* The references that are counted, applied or not, are those of the works
\* that still need the loop: none leaks and none is given back twice.  The
\* timers that are not through share one of them, the immediates another.
CountsExact ==
    /\ timerRefs = References({"timer"}) /\ immediateRefs = References({"immediate"})
    /\ active + delta = References({"work", "cpp"}) + Shared(0, timerRefs) + Shared(0, immediateRefs)

\* The process does not exit while a callback is due that is referenced or
\* that the loop knows of.
ExitsDone ==
    At("exit") => \A w \in begun : Kind[w] \in {"work", "local", "immediate", "timer"} => w \in ran

\* What was begun by then is the only thing the process waits for: once every
\* work that references the loop is through, the process exits.
Exits == <>At("exit")
=============================================================================
