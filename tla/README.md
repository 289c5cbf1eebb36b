# A verification project for Bun

Bun (1.2.16, this commit) is a JavaScript runtime: a C event loop and socket
library (`packages/bun-usockets`), an HTTP server on top of it
(`packages/bun-uws`), and a Zig program (`src/`) that binds them to
JavaScriptCore and adds a bundler, a package manager and clients.  This
directory holds TLA+ modules for the parts everything else stands on: the socket
loop of uSockets, the event loop of the VM above it, the lock-free queue and the
mutex through which other threads reach it, and one protocol client, Valkey.  TLC
checks them on small instances, and TLAPS checks proofs about them.  Paths below
are relative to the root of the repository; `uS/` stands for
`packages/bun-usockets/src/`.

Contents: 1 inventory, 2 how the code is modelled, 3 modules, 4 runs, 5 bounds and
fairness, 6 proofs, 7 disagreements found, 8 what is left out, 9 plan.

## 1. Inventory

| Component (files) | State it keeps | Operations | What is hard, and what makes it correct |
|---|---|---|---|
| Sockets and contexts (`uS/context.c`, `uS/socket.c`) | `us_socket_t` (prev, next, context, poll type, polled events, low_prio_state), `us_socket_context_t` (two socket lists, iterator, ref_count) | listen, connect, close, close_connecting, detach, adopt, shutdown, write, pause, resume, ref, unref, free | Intrusive lists edited by callbacks in the middle of other edits; pointers reused for several lists; memory moved by `realloc`. Lists exact, counts exact, no dangling pointer, one `on_close`. **Modelled** |
| Event loop (`uS/loop.c`, `uS/eventing/epoll_kqueue.c`) | ready polls, low-priority queue and budget, closed lists, `last_write_failed` | tick: pre, wait, dispatch, post; wakeup | Events of sockets closed meanwhile; ticks nested in callbacks; starvation. **Modelled** under epoll |
| Timeout wheel (`uS/loop.c:91-147`, `uS/socket.c:77-105`) | 8-bit tick per socket and context | set, sweep | Callbacks edit the list under the iterator; ticks modulo 240 wrap. Sweep **modelled**, tick arithmetic planned |
| Connecting sockets (`uS/context.c:451-720`) | `us_connecting_socket_t`, its attempts, pending DNS request | connect, resolve, open, fail, close | Several attempts race; a resolver thread pushes results. Planned |
| UDP (`uS/udp.c`) | poll, send buffer | send in batches, recv, drain | Partial batches. Planned |
| TLS (`uS/crypto/openssl.c`) | BIO pair per loop, handshake state | the same callbacks once more | Re-entrancy during handshake and shutdown. Not planned |
| DNS cache (`src/bun.js/api/bun/dns_resolver.zig`) | global table of requests, ref counts, waiting sockets | get, complete, release | Loop threads against resolver threads; eviction with references. Planned |
| HTTP and WebSocket server (`packages/bun-uws/src`) | cork buffer, backpressure, topic tree | cork, write, publish, drain | Subscribers removed while a topic is drained. Planned |
| VM event loop (`src/bun.js/event_loop.zig`, `src/bun.js/event_loop/`, `src/bun_js.zig`) | task ring, concurrent queue, immediates, timers, `active`, `concurrent_ref` | enqueue, tick, tickConcurrent, autoTick, waitForPromise, the run of a program | Results and references from other threads against the loop that goes to sleep or exits; ring wrap; nested loops. Nothing lost, no sleep on work, counts exact. **Modelled** |
| MPSC queue (`src/bun.js/unbounded_queue.zig`) | front, back, count, one link per item | push, pushBatch, pop, popBatch | Gap between exchange and link. No item lost, order kept, no write to an item that has left. **Modelled** |
| Thread pool (`src/thread_pool.zig`) | packed sync word, run queues, idle event | schedule, notify, wait, steal, warm | Lost wake-ups, counts in a packed word. Not modelled: section 8 |
| Mutex and futex (`src/Mutex.zig`, `src/futex.zig`) | one 32-bit word | tryLock, lock, unlock, wait, wake | Mutual exclusion with barging threads, no lost wake-up. **Modelled** for Linux |
| HTTP client thread (`src/http.zig`) | queues of tasks, shutdowns and writes, keep-alive pool | schedule, abort, complete | Abort against an answer in flight. Planned |
| Valkey client (`src/valkey/valkey.zig`, `src/valkey/js_valkey.zig`) | in-flight and offline queues, write buffer, flags, timers | send, connect, close, open, reply, writable, lost, timers, auto flush | Short writes, pipelining and reconnections between a command and its reply. A reply settles its own command. **Modelled** without parsing |
| S3 multipart (`src/s3/multipart.zig`) | parts, slots, state | enqueue, part done or failed, commit, rollback | Late answers after a failure. Planned |
| Watcher and hot reload (`src/Watcher.zig`, `src/bun.js/hot_reloader.zig`) | pending counter | notify, reload | Changes during a reload. Planned last |
| Workers and timers (`src/bun.js/web_worker.zig`, `src/bun.js/api/Timer.zig`) | worker status, timer heap | start, terminate, fire | Crosses into an engine that is not in the repository. Not modelled |
| Parser, bundler, CSS, package manager, shell, SQL clients, Node compatibility, bindings | large, mostly sequential | - | Differential testing fits them better. Not modelled |

How they interact: the VM's loop (`event_loop.zig`) calls
`us_loop_run_bun_tick`; the tick calls the context's callbacks; those are
uWS or Zig code that runs JavaScript and calls back into uSockets. A callback
that waits for a promise (`event_loop.zig:487-501`) runs another tick inside
the first one. Other threads (resolver, watcher, pool, HTTP client) never touch a
loop: they push to a queue and wake it up.

`PROJECT.json` lists the hazards of this code line by line, with the property
that covers each, or why none does.  It lists them for the modelled components and their
next neighbours; those of the DNS cache's eviction, of S3 uploads, of the hot reloader and of
the warm-up of the thread pool belong to components that are not modelled.

## 2. How the code is modelled

### The socket loop

One loop is one thread, but no function of it is atomic. Between the first and the
last line of `us_socket_close` the program's `on_close` runs, and may close, move,
connect or free anything, the same socket included; the same is true of the
sweep, of the accept loop, of the dispatch of a ready poll and of
`us_socket_context_close`. Most of the hazards of uSockets come from there.

The model therefore has an explicit **C stack**. `stack` is a sequence of frames, top
first; a frame is a function that has been entered, with its program counter
(`pc`), the socket (`s`) and context (`c`) in its locals, the event set and a
counter. An action is the code between two points where other code may run: a
call of a callback pushes a frame `[op |-> "cb", pc |-> "on_close", ...]`, and
while a `cb` frame is on top (or the stack is empty) the program may make any call
of `Calls`. `Return` pops it and, as in the code, hands the callback's socket back to the
dispatch (`s = s->context->on_data(...)`).

The **heap** is a record of the fields of the C structs, each a function of
addresses. The lists are pointers and not sets, because the code reuses them:
`next` threads a context's list, the low-priority queue and the closed list,
and `prev = context` means "closed". Freed memory is cleared so that two free
addresses are the same state; `NoDangling` is what makes this sound, since
nothing then reads a freed field.

| Code | Model |
|---|---|
| `us_socket_t.{prev,next,context}`, `flags.low_prio_state`, poll type, polled events | `h.prev, h.next, h.ctx, h.low, h.type, h.poll` |
| `POLL_TYPE_SEMI_SOCKET` | types `"listen"` and `"semi"`; the *code* tells them apart by the polled events, and so does `DispatchPoll` |
| `us_socket_context_t.{ref_count, head_sockets, head_listen_sockets, iterator, prev, next}` | `h.ref, h.head, h.lhead, h.iter, h.cprev, h.cnext` |
| `us_internal_loop_data_t.{head, iterator, closed_head, closed_context_head, low_prio_head, low_prio_budget, last_write_failed}` | `h.chead, h.liter, h.closed, h.closedCtx, h.lowHead, budget, wfailed` |
| `loop->ready_polls`, `num_ready_polls` | `h.ready`, `timer`, `nready` |
| `context.c` helpers | one operator each in `SocketHeap`: `LinkSocket`, `UnlinkSocket`, `Ref`, `Unref`, ... |
| `us_loop_run_bun_tick` | `Tick`, `HandleLowPrio`, `Wait`, `DispatchTimer`/`DispatchPoll`, `Post` |
| `us_internal_dispatch_ready_poll` | `DispatchPoll`, `Accept`, `DispatchWritable` ... `DispatchEnd` |
| `us_internal_timer_sweep` | `SweepContext`, `SweepSeek`, `SweepLong`, `SweepStep` |
| public functions | the actions under "Calls" |

`owner`, `owed` and `unsent` are history: who still holds a creator's reference,
which contexts a sweep has yet to visit, which sockets have data to send. No
action of the code model is guarded by `owed` or `unsent`; `owner` restricts the
*program* to calls that are legal in C (it does not use a context it has freed).

### The queue and the mutex

`UnboundedQueue` has one action for every atomic access of `unbounded_queue.zig`; what a
thread does privately before or after the access belongs to the same action. The items
are pointers and `next` their links, as in the code, and `order`, the items in the order
in which `back` was exchanged, is history. The consumer's locals are `con`: its program
counter in `pop` or `popBatch`, `first`, `nxt`, the front and the count of its batch.
`pushing[t]` is a push of thread `t`: the batch it linked privately and the old back pointer.

`TaskChannel` is what the queue promises: a line of items, which become visible in two steps,
and a consumer that takes a prefix. `UnboundedQueueImpl` maps the queue to it.

`FutexMutex` has one action for every atomic operation on the word and for every futex call.
The kernel is external: a wait compares and sleeps in one step, a sleeper may return
for no reason, a wake picks any sleeper.

### The event loop of the VM

`TaskLoop` uses `TaskChannel` as the queue between the threads. `stack` is the stack of the thread
of the loop, one frame for each loop (`run` of `bun_js.zig`, then one for each
`waitForPromise`); a frame whose `pc` is "js" is running JavaScript, and only then can the program
begin a work or wait for one.

| Code | Model |
|---|---|
| `tasks: Queue` (a `std.fifo.LinearFifo`) | `tasks`, a record of `LinearFifo` with capacity, head and items |
| `concurrent_tasks`, `concurrent_ref`, `loop.active`, the eventfd | `line` and `unlinked`, `delta`, `active`, `awake` |
| `WorkTask`, `ConcurrentCppTask`, `postTaskTo`, `enqueueTask`, `setImmediate`, `setTimeout` | the kinds of `Works`, with `BeginWork` ... `SetTimeout` |
| `active_timer_count`, `immediate_ref_count`, which take one reference of the loop for all timers and one for all immediates | `timerRefs`, `immediateRefs`, `IncrementTimerRef`, `IncrementImmediateRef` |
| the threads of the pool: `enqueueTaskConcurrent`, `unrefConcurrently` | `Finish`, `LinkResult`, `WakeLoop`, `UnrefConcurrently`, `WakeUnrefed` |
| `tickConcurrentWithCount` | `UpdateCounts`, `TakeBatch` |
| `tickQueueWithCount`, `tick` | `RunTask`, `RanTasks`, `Ticked`, with the phase of `tick` in the frame |
| `tickImmediateTasks`, `autoTick`, `autoTickActive` | `RunImmediate`, `RanImmediates`, `Poll`, `Fire`, `Fired` |
| `isEventLoopAlive`, `onBeforeExit`, `Run.start` | `Start`, `CheckAlive` |

`begun`, `ran`, `sent` and `got` are history. `LinearFifo` is the ring buffer of the
Zig standard library, modelled by what the code relies on: growing moves the items to the
front, taking items moves the head and never realigns, and the slices the code asks for may
show only a part of the items or of the room.

### The Valkey client

`ValkeyClient` keeps the client in one record `c`, with the struct's fields, and its sockets in `c.net`:
each is none, opening or open, with the messages on the wire. A handler is an operator from a
client to a client, or to the set of outcomes where the socket may take none, some or all of the
write buffer; handlers call one another as the functions of `valkey.zig` do (`OnClose` is `onClose`,
`Fail` is `fail`, `SendNextCommand`, `Drain` and `AutoFlush` are `sendNextCommand`, `drain`
and `onAutoFlush`). `frame` says what the thread of the VM is in, because a reply runs JavaScript in the middle
of `onData`. `outcome` and `later` are history: what became of the promise of each command, and whether the
first session of the client is over. `later` becomes true when a client that has been authenticated loses its connection and is to
reconnect, or when `connect()` opens a connection when there has been an authenticated one, beside another one, or beside a
reconnection to come. No action is guarded by it, so second sessions are part of every run. Which properties
say something about them, and which are of the first session only, is in sections 4 to 7.

## 3. Modules

- `SocketHeap` – the heap and its helpers, as operators from heap to heap.
- `SocketLoop` – the machine: variables, one action per handler step and call,
  `Spec`, `FairSpec`, the properties.
- `SocketRegistry` – the abstract specification: what uSockets promises about
  lifetimes, without lists, pointers or counts. A socket is free, open,
  closing or closed, in one context; a context is live exactly while its
  creator, an open socket or a running close needs it; the end of a tick frees what
  is closed.
- `SocketLoopImpl` – the refinement mapping. It reads the abstract state off the
  *lists* (a socket is open if its context's list reaches it), so a list
  that loses a socket breaks the refinement even if the socket's fields are right.
- `TaskChannel` – the abstract specification of the queue between threads.
- `UnboundedQueue`, `UnboundedQueueImpl` – the lock-free queue and its refinement mapping.
- `LinearFifo` – the ring buffer, as operators; used by `TaskLoop` and `ValkeyClient`.
- `TaskLoop` – the event loop of the VM with the program that runs on it, over `TaskChannel`.
- `FutexMutex` – the mutex.
- `ValkeyClient` – the client with its sockets, its server and its timers.
- `SocketHeapInvariant`, `SocketLoopInvariant` – the inductive invariants of the heap and of the loop.
- `SocketHeapProofs`, `SocketLoopProofs`, `SocketRegistryProofs`, `UnboundedQueueProofs`,
  `TaskLoopProofs`, `FutexMutexProofs`, `ValkeyClientProofs` – theorems; `LinearFifoProofs` – the
  lemmas on sequences and rings that `TaskLoopProofs` and `ValkeyClientProofs` share.
- `MCSocketLoop`, `MCUnboundedQueue`, `MCTaskLoop`, `MCFutexMutex`,
  `MCValkeyClient` – symmetry, kinds and options for TLC.

Definitions whose comment says "Mutant of X" are variants of X with a plausible bug;
no specification uses them. Substituted for X, each makes TLC report a violation of
the property it is paired with in `PROJECT.json`, which shows that the property
says something about the code.

## 4. Runs

`tlc -config <cfg> <module>`; states are distinct states, the times are for two workers.

| Run | Properties | What it shows |
|---|---|---|
| close (1.9M, 1 min) | `ListsExact ClosedExact NoDangling NoTimeoutSkipped CallbackOnOpen` | Two sockets in two contexts; every callback may connect, listen, close sockets, listeners and contexts, detach, half-close and free. Lists and the closed list stay exact, the sweep delivers every timeout that is due although callbacks edit the list under it, no callback but `on_close` reaches a closed socket, `on_close` runs once |
| lowprio (2.8M, 70 s) | `TypeOK QueueExact NoEarlyFree PendingOpen` | Three connected sockets, three ready per wait, budget 1: two sockets wait in the queue at once and over several ticks, are closed there at either end, and are served by a later tick. The queue holds exactly the sockets in state 1, no context dies while a queued socket holds it, no event of a closed socket is dispatched |
| adopt (0.5M, 2 min) | `RefExact NoDangling ImplementsRegistry` | Any callback of an open connected socket moves that socket to another context and address: `on_timeout` and `on_long_timeout` in the middle of a sweep (`context.c:781`), `on_open` under an accept loop, the callbacks of a dispatch. Counts stay exact, no frame or iterator keeps the old address, and `SocketLoop` implements `SocketRegistry` |
| liveness (0.6M, 70 s) | `UnsentIsPolled ClosedIsFreed` | With short writes on connected sockets, and pause and resume also on connecting ones: a short write keeps its socket polled for writable although `last_write_failed` is one flag for the loop, and every closed socket is freed |
| queue (79k, seconds) | `ListWhole LinksLiveItem BatchChained CountCovers ImplementsChannel Delivered` | Two threads push four items, alone and in batches, while the consumer pops either way: the list is cut only where somebody is about to mend it, no push writes to an item that has left, batches lead through exactly what was taken, `count` covers the items, and all is delivered in order |
| mutex (2.7k) | `MutualExclusion NoLostWakeup DeadlockFree` | Four threads that lock, barge, sleep, wake for no reason and unlock |
| order (1.1M, 20 s) | `NoTaskDropped` | A program that waits for no promise begins five of a work, a C++ work, two posts and a task, with a ring that has to grow: results come back once and in the order of the hand-over |
| program (1.0M, 100 s) | `TypeOK NoLostWakeup CountsExact ExitsDone Exits` | A program that begins three of a work of the pool, a C++ work of the pool, a post, a task, two immediates and two timers, from any callback, with one nested loop: the loop never sleeps on work, references are counted exactly (one for each work, one for all timers, one for all immediates), the process exits only when nothing is due, and does exit |
| valkey (0.7M, 130 s) | `TypeOK FirstRepliesMatch InFlightExact OrderKept NoStall SerialAlone Settles` | Clients with the default options, and with each option turned off, send three commands, through short writes, refused, lost and closed connections, second sessions and timeouts. In the first session replies settle their own promises, the queue in flight is that of the bytes, and every command is settled; in every session commands stay in order, those that may not be pipelined are alone in flight, and a waiting command of a connected client is not forgotten |
| queueleak, ring, reconnect | `RefExact`; `NoTaskDropped`; `RepliesMatch` | Expected violations, section 7 |

## 5. Bounds and fairness

Sockets:

- Two or three sockets and one or two contexts. A list hazard needs an element
  and a neighbour, moving needs a free address besides, and crossing
  contexts needs two. Symmetry under permutation of sockets and contexts is
  used where only safety is checked; the liveness run has none.
- `CallsPerCallback = 1`: each callback makes at most
  one call, but callbacks nest (a close inside `on_close` inside a close),
  and at top level the program makes any number of calls.
- `MaxDepth = 12` bounds the stack. The deepest stacks are a tick, a dispatch or a sweep, its
  callback, then a pair (close, on_close) per socket with a context close under it, which is less:
  the close and lowprio runs reach the same states with 14.
- `MaxTicks = 1` in the passing runs: a loop that is not re-entered. Re-entry is
  where the code does *not* hold its invariants (section 7), and is modelled
  (`Tick` inside a callback) and covered by the proofs of `TypeOK` and `PendingOpen`,
  which have no such bound.
- `MaxRef` stops the queueing of sockets when the count of their context has reached it. It is
  needed because every passage through the queue leaks a reference (section 7). In the
  lowprio run it is 5: the creator, three sockets, and at least one leaked reference.
- `MaxReady` is the number of sockets reported by one `epoll_wait`, `MaxRepeat`
  the read limit (10 in the code), `LowPrioBudget` the budget (5 in the code): small values
  make the limits bite with three sockets.

Fairness (`FairSpec`): `WF_vars(LoopStep)`, the loop thread keeps running,
callbacks return and the program keeps calling the tick while something is polled. The code's
own scheduling gives no more, and needs one more assumption about
the network: `SF_vars(ReceivedLast)`, no peer fills the receive buffer for
ever. `loop.c:450-455` stops re-reading a full buffer only when more than two polls are ready, so
without it a fast peer keeps the dispatch in its loop and nothing is ever freed.

Queue: four items, two threads, batches of two (`MaxBatch`). Items come back to the threads once
they were taken, so the queue becomes empty and is used again without end. Two
threads are enough for two cuts of the list at once, four items for a batch behind each, and
the proofs have no bound. Fairness: threads inside a push run on, and the consumer
pops again and again; nobody has to push.

Mutex: four threads, of which one holds, one barges, one sleeps and one is woken at the same time.
Fairness: `WF_vars(Continue(t))`, a thread inside `lock` or `unlock` is scheduled again and a
holder unlocks. Nobody has to lock, and no individual thread is promised the lock.

Event loop: `MaxBegun = 3` works of seven, in every combination, and `MaxDepth = 2`, one nested loop
at a time (the proofs have neither bound). `Capacity` is 1 (64 in the code), so that the ring has to grow;
the ring run has 4 and five posts, which is the smallest instance in which the head is in the middle of a
ring that is content with its room. `Immediates = {}` leaves out what the loop is known to sleep on (section 7). Two timers and two immediates are
needed for a reference that is shared. The order run has no nested loop, because with one the code drops results (section 7, 2); it
has five works instead, all that can be under way at once.
Fairness: the thread of the loop runs on, JavaScript returns, every thread of the pool
runs on, and timers expire. Weak fairness on the whole turn of the loop is what one thread gives;
a program may begin works or nothing. `CHECK_DEADLOCK FALSE`: a process that has exited stops.

Valkey: three commands, one socket at a time (`MaxSockets`; with two, `send()` and then `connect()` opens a second one beside the
first, section 7), `MaxRetries = 1` (20 in the code). `EachOption` is the default client and, for each option, the client with it
turned off.
Connections may be lost and opened again in every state, after authentication too. Three commands are what it takes to have one in flight, one in the buffer and one
waiting. Fairness: the VM runs its deferred tasks and goes on after a reply, timers fire, an open socket becomes
writable again, the server answers what it received, and `SF_vars(Opened(s))`: attempts to connect do not fail
for ever, since the code resets its count of attempts (section 7). `Settles` excepts clients of an IP address,
promises in no queue and clients whose first session is over, for the reasons given there: after a reconnection the reply to
HELLO is taken for that of a command, and the client stays "connecting" for ever.

## 6. Proofs

Checked by `tlapm` for every value of the constants that satisfies the named assumptions
(`DistinctAddresses`, `LoopAssumption`, `QueueAssumption`,
`TaskLoopAssumption`, `ValkeyAssumption`; TLC evaluates them in every run). Where a theorem has a
further hypothesis, section 7 says what the code does without it.

- `SocketLoopProofs`: `IInvHolds`, `TypeCorrect`, `PendingOpenHolds`, for any finite set of sockets and contexts,
  every subset of calls and any number of nested ticks.
  `PendingOpen` (no ready poll that waits to be dispatched belongs to a closed
  or freed socket) is not inductive: a step could close a socket through a
  pointer of another frame, or dispatch through a pointer to a context. The invariant is

      IInv == TypeOK /\ Sound(h) /\ StackOK(stack) /\ (Checked(Top) => Top.s open)

  `Sound` is about the heap: pointers have their types, `prev` is a context only
  as the closed mark, and every pending ready poll is open. `StackOK` says
  which locals are not null in a frame that waits below another, and that
  only the running function can be between a check (`us_socket_is_closed`) and
  the use it guards: those stretches of the dispatch make no call. The last
  conjunct is what `EnterQueue` and `PollChange` rely on: a closed socket that
  re-entered the queue would lose its closed mark.
  `SocketHeapProofs` shows that each helper keeps `Sound`; there is then one
  lemma per action, and `NextIInv` splits on the disjuncts of `Next`.
- `SocketLoopProofs`, for *tame* programs: `LInvHolds` and from it `ListsExactHolds`, `QueueExactHolds`, `ClosedExactHolds`,
  `RefExactHolds`, `NoEarlyFreeHolds`, `NoDanglingHolds`, `NoTimeoutSkippedHolds`, `UnsentIsPolledHolds`,
  `AcceptLoopHolds` and, of steps, `CallbackOnOpenHolds`; any finite sets of sockets and contexts, any stack.

      Tame == "tick" \notin Calls /\ ("lowprio" \in Calls => Calls \cap {"adopt", "write", "write2", "pause"} = {})

  A tame program does not run the loop inside a callback, and does not adopt, write to or resume a socket that may be
  in the low-priority queue. Every run of `MCSocketLoop` is of a tame program; section 7 shows for each call that `Tame`
  excludes which property the code then breaks. `RefExactHolds` excludes the queue, which leaks references
  (`queueleak`), and `UnsentIsPolledHolds` excludes `us_socket_write2`, which does not set the flag (section 7), for the same reason.

  None of the properties is inductive, and they need one another: a link is only safe to write if its target is
  allocated, a socket stays allocated because the closed list holds finished closes only, and that depends on what
  the frames below the running function will still do. The invariant (`SocketHeapInvariant`, `SocketLoopInvariant`) is

      LInv == Based(h, stack, owner) /\ LiterOK(h, stack) /\ Unsent(h, unsent) /\ Written(stack, unsent, wfailed)

  - *Ranks instead of reachability.* `Chain` follows `next` by recursion, about which nothing can be proved directly. `Lists`
    says of each list, with a number for every socket, that the links lead in increasing rank and skip nobody
    (`Ordered`) and back (`Backed`), through the sockets that belong there by their fields: `Regular`, `Listening`, `Queued`, `Dead`.
    The rank is existential: after each step the proof builds one (`Reranked` puts a socket in front of the others), and
    `ThreadedChain` derives `Chain` from it once.
  - *Sockets in between.* `Lists` takes a set of sockets that are on no list: those in the middle of
    `us_socket_close` (`Closes`). `Covered` counts references against the same set.
  - *Frames.* `Shape` is which function may have called which, and that no two frames close the same socket. `FrameAlive` is what a
    function relies on while a callback runs: its socket has not been freed, and has not become something else.
    A dispatch, and a sweep that waits for a timeout callback (`Visiting`), are the exceptions: their socket may be moved away under them by
    `adopt`. The callback's return value replaces the pointer of a dispatch, and the sweep compares its pointer with `iterator`, which the
    move has advanced, before it follows it.
  - *The sweep.* `SweptAt` says by rank that whatever lies before `iterator` has had its timeouts, and that the socket
    the sweep stands on, while it is still in the list, is not behind the iterator.
    A callback may unlink the iterator, so `SweepKept` follows both the old and the new rank through each helper.

  `SocketHeapProofs` has one lemma for each function of socket.c and context.c on the whole heap, and `Moves` and
  `Keeps` carry what the waiting frames rely on across it; `SocketLoopProofs` has one lemma per action.
- `SocketLoopProofs`, for tame programs that queue nothing (`"lowprio" \notin Calls`): `ImplementsHolds`, the loop implements
  `SocketRegistry`. `SocketLoopImpl` reads the abstract state off the lists. `Seeing` derives from `LInv` that they say what the
  fields say: a socket's `Life` is its type, closed mark and whether a close of it is on the stack, `Home` its context, `Span` the
  state of a context. It also derives `Fits`, that a context is live exactly while its creator, an open socket or a close
  in progress needs it: this is what exact reference counts are for, and why the queue, which leaks references, is excluded (`queueleak`
  shows `RefExact` violated with it). One lemma per action (`...Shown`) then names its abstract step: `us_socket_close` up to
  on_close is `BeginClose`, the return from on_close `Close`, an accept or a listen `Open`, `us_socket_context_adopt_socket` `Adopt`, the
  end of a tick `Reap`; dispatches, sweeps and polls are stutters. The list of live contexts has ranks in the
  invariant, as the lists of sockets do, since the refinement walks it.
- `SocketRegistryProofs`: `SocketsKeepContext`, what the registry is good for: no socket is left with a freed context. With
  `ImplementsHolds` it says so of the loop. `RegistryInv` is its inductive form. That a context lives exactly while it is needed is
  how the registry is defined (`Settle`) and is only a step of the proof; of the loop it is `RefExact` and `ImplementsRegistry`.
- `UnboundedQueueProofs`: `Whole`, `LinksLive`, `Chained`, `Bounded` and `Implements` (the queue
  implements `TaskChannel`), for any number of threads and items and batches of any length. The invariant `QueueInv` adds to the
  types what makes the list a list: every item is in one place (in a push that has not swapped, in the queue, or
  taken), the links that are not about to be set lead along `order`, two pushes wait for different links, and
  at each place in `popBatch` the locals of the consumer are an item of the queue and its position. The refinement
  then shows, action by action, a swap as `Send`, a link as `Link`, the end of a pop as `Receive`, and the others
  as stutters; that only reachable items are received is where `ListWhole` is needed.
  `CountAlwaysCovers` needs `CountExact`: the count is exactly the items in the queue, those a pop has taken and not
  yet subtracted, and those of the batches that are counted and not swapped in; the last is the size of a union of disjoint finite sets,
  since no item is in two pushes.
- `FutexMutexProofs`: `Exclusion` and `WakeupsKept`, for any set of threads. `MutualExclusion` is inductive with the
  types, because it includes that the word is unlocked exactly when nobody holds it.
- `TaskLoopProofs`: `TypeCorrect`, `NeverSleepsOnWork`, `ReferencesExact`, `NothingLeftAtExit` and `NothingDropped`,
  for any works, capacity, depth and number of loops.
  `Typed` is what they share: types, kinds of what is in each queue, and well-formed frames (a frame that is
  not on top runs JavaScript; one that waits lies above one that does).
  `NeverSleepsOnWork` (no sleep in `epoll_wait` on work that nobody will wake the loop for) assumes `Immediates = {}`,
  the case in which the code has the property. Its invariant `Quiet` says what each place of a turn has already
  excluded: from the end of `tick` on the ring is empty and the promise that is waited for is pending; after
  `tickImmediateTasks`, what was pushed after the last look at the channel has left `awake` set or a thread that will set it.
  `ReferencesExact` is of the reference of each work and of those that all timers, and all immediates, share. It needs `Tallied`: nothing is twice in the ring and the channel (so no callback gives its reference back
  twice), whatever is there has not run and is no longer with its thread, and a timer fires in one loop only. The counts then
  change with the set of works that need the loop by one element at a time. `Pending` says the same of immediates: each is once
  in the queue or in what one of the loops on the stack has still to run, so `immediate_ref_count` counts those that have not run.
  `TypeCorrect` needs more than the types: that `active` is never negative is `CountsExact` together with `Applied` (the loop has
  not been told of more references than there are works of other threads that hold one).
  `NothingLeftAtExit` adds `Listed` (a task or immediate that has not run is in its queue) and `Idle` (the loop that exits has found nothing alive).
  `NothingDropped` assumes `MaxDepth = 1`, a program that waits for no promise: with nested loops the code drops
  tasks (section 7, 2). Its invariant `Whole` says why one loop does not: whenever it looks at the channel, the head of the ring is at the front.
- `LinearFifoProofs`: the operations on a ring keep it a ring and do to its items what they say (`Pushes`, `Discards`,
  `Reserves`, `Room`, ...), over lemmas on sequences that the library does not have.
- `ValkeyClientProofs`, for any number of commands, sockets and retries and all options: `TypeCorrect`, `OrderKeptHolds` and
  `SerialAloneHolds` with no further hypothesis, in every session; `FirstRepliesMatchHolds` and `InFlightExactHolds`, up to the second session, for a client without
  a database in its URL; `NoStallHolds`, up to the second session, without the kind "typed". Section 7 shows each hypothesis to be needed:
  the code breaks the property without it, and `RepliesMatch` in the second session (`reconnect`).
  None of the properties is inductive. `Base` adds to the types that the commands which wait, in flight and then queued, are numbered in
  the order of the calls, and that a client which never opened has none in flight. `Sound` is how status, flags,
  timers, socket and promises in flight go together in each mode of the client (not opened, connecting, saying HELLO, authenticated, waiting to
  reconnect, failed). `Precise` then is `InFlightExact` in the form every handler keeps, with the commands a handler moves
  from the queue to the buffer as a parameter (`Moves`); `Covered` says who will look at the queue again, and what is
  owed while a handler of `onData` is in the middle of a reply.

Only model-checked: liveness (`ClosedIsFreed`, `Delivered`, `DeadlockFree`, `Exits`, `Settles`), and the socket theorems' properties
for programs that are not tame. Every invariant, action property and refinement that a passing run checks is a theorem.
What is beyond the prover: liveness under fairness and ENABLED. The induction theorems of the library, which take an operator, cannot be
instantiated either. Where a proof needs induction, on the length of a sequence or the size of a set, it goes
through a least counterexample (`LeastNumber`, from the well-foundedness of `<` on `Nat`), with the property as a set of
numbers (`SetInduction`, `SequenceInduction`); recursive functions, such as `Results`, are then characterised that way.

## 7. Where code and comments disagree

The first three are runs that TLC must find violated, quoted in `PROJECT.json` with their lines.

1. `queueleak`: a socket that went through the low-priority queue is counted twice by its
   context. `loop.c:368` takes a reference for the queue, `loop.c:164` links it back with a
   function that takes another, and none is released; the context is never freed.
2. `ring`: `tickConcurrentWithCount` pops a whole batch, copies it to `writableSlice(0)` and stops when that slice
   is full (`event_loop.zig:307`). In a nested loop the head of the ring is in the middle, the room is in two parts,
   `ensureUnusedCapacity` is content, and what does not fit in the first part is neither run nor kept.
3. `reconnect`: `onClose` leaves `is_authenticated` set and promises in flight in their queue
   (`valkey.zig:428-466`). The reply to the HELLO of the next connection then settles the promise of
   a command that was lost, and the client stays "connecting".

Other behaviours the code does not prevent. Each can be reproduced with a configuration of the MC module
named; the passing runs either exclude it or do not check the property that it breaks. `MCSocketLoop`:

- `us_socket_context_close` reads the successor before it closes a socket (`context.c:82`). If `on_close`
  closes that successor, its `next` leads into the closed list and the rest of the context stays open;
  `CloseContextClosesAll` fails (four sockets; create, connect, listen, close, cclose, free).
- A tick nested in `on_open` frees the closed listen socket that the accept loop reads next (`loop.c:326`), which
  `context.c:59` says must not happen; `AcceptLoopHoldsSocket` fails (create, listen, close, tick; `MaxTicks = 2`,
  `CallsPerCallback = 2`, `MaxDepth = 8`).
- A timeout callback that ends the context being swept makes the sweep follow the closed list (`context.c:332`) and
  skip the other contexts; `SweepVisitsAll` fails (create, listen, connect, close, free, timeout; `CallsPerCallback = 2`).
- `us_socket_pause` and `us_socket_resume` do not ask what the socket is. Resuming a connecting socket makes it poll readable and
  writable, and `loop.c:286` then takes it for a listen socket; `SemiSocketsToldApart` fails (create, connect, pause).
- `us_socket_write2` polls for writable but does not set `last_write_failed` (`socket.c:297-300`, called from `socket.zig:978`), where
  `libusockets.h:426` says it works like `us_socket_write`. A short write of it inside `on_writable` is followed by
  `loop.c:353`, which stops polling for writable, and no `on_writable` ever comes; `UnsentIsPolled` fails (the liveness run with "write2").
- `adopt` with `lowprio`: a queued socket that is adopted keeps its old context
  (`context.c:802`); `ListsExact` fails.
- `write` with `lowprio`: a short write polls a queued socket readable again (`socket.c:373`);
  if the budget is spent when it becomes readable, it enters the queue a second time and
  the queue is no list any more; `QueueExact` fails (three sockets, `MaxReady = 3`).
- `pause` with `lowprio`: resuming a queued socket polls it readable while it is queued
  (`socket.c:605`), and it may be queued twice; `QueueExact` fails.
- `tick` with `timeout` and `MaxTicks = 2`: a sweep inside a sweep uses the same iterators
  (`loop.c:95`). When the outer one resumes, `loop_data.iterator` may be null;
  the code reads through it, and `SweepSeek` has no step there.
- `tick` with `write`: `last_write_failed` is overwritten by the inner tick
  (`loop.c:343`), and the outer one stops polling for a short write; `UnsentIsPolled` fails.
- Two ready polls: the read limit does not apply (`loop.c:450`).

`MCTaskLoop`:

- `Immediates` with "enqueue", "wait" or "settle": the callbacks of immediates run after the last look at the
  tasks and before `epoll_wait` (`event_loop.zig:329`). What they enqueue (`Performance.cpp:465`), the tasks a nested loop of theirs
  leaves behind, or the promise they settle for a loop below (`html_rewriter.zig:923`, the matchers of the test runner), is slept on until
  something else wakes the loop; `NoLostWakeup` fails. The passing run covers the immediates that immediates set, for which
  the loop does wake itself.
- Works of kinds "cpp" and "post" are outside `ExitsDone`: a "cpp" work's reference is given back when its result has been
  pushed (`CppTask.zig:40-42`), and `isEventLoopAlive` (`VirtualMachine.zig:326-341`) does not look at `concurrent_tasks`. A result whose
  work was begun by a timer or by a `beforeExit` listener (`CryptoAlgorithmSHA256.cpp:54-62`) may be lost at exit;
  `bun_js.zig:379-381` handles only the entry script.

`MCValkeyClient`:

- `Database = TRUE`: the reply to SELECT settles the first promise in flight; `RepliesMatch` fails.
- Kind "typed": commands with a method of their own that may not be pipelined say that they may
  (`js_valkey_functions.zig:619-630`), and wait in the queue for a flush that does not send them; `NoStall` fails.
- A command that is sent without pipelining while a client that was authenticated is "disconnected", for instance
  between the loss of its connection and the reconnection, reaches the `else => unreachable` of `valkey.zig:858`; `NoUnreachable`
  fails, in the session configuration as it stands.
- With `MaxSockets = 2`, `send()` and then `connect()` opens a second socket beside the first, and the client writes to whichever
  opened last.
- `rejectAllPendingCommands` walks `readableSlice(0)` (`valkey.zig:323-343`), which is only a part of a ring that wraps:
  the promises in the other part are settled by nobody; `NoPromiseForgotten` fails.
- `reconnect` resets the count of attempts (`js_valkey.zig:378`), so the client never gives up, where
  `docs/api/redis.md:314` promises `maxRetries`; `RetriesBounded` fails.
- A reconnection to an IP address that fails at once leaves the client "connecting" with no socket and no timer;
  `Settles` excepts those clients.

## 8. What is left out

Of the modelled components:

- Connecting sockets that wait for DNS or try several addresses, `us_socket_from_fd`,
  file descriptors over IPC, Unix-socket paths: `OpenSocket` stands for the resolved connect and for listen.
- TLS, kqueue and libuv. Under epoll one ready poll per socket is exact; kqueue
  may report two.
- `num_polls` and ref/unref of polls: a tick starts while any socket is allocated,
  which is the count without unref.
- Which timeouts are due: `SweepContext` chooses any set of sockets of the context, so the
  8-bit arithmetic modulo 240 is abstracted.
- Contents and lengths: a read returns data, end of file, an error or would-block.
- `is_low_prio` is the context's choice: any readable socket may be low priority
  when `"lowprio"` is in `Calls`, as a TLS socket in its handshake is.
- A write to a socket that has not connected, and pausing or shutting down a listen socket, which is another type in C.
- `AdoptSocket` is called by a callback, of whatever kind, for its own connected and open socket; the code itself returns early for closed
  and shut-down ones (`context.c:774`). Left out are the adoption of a socket that is still connecting, and of a socket from outside
  its own callbacks, whose dispatch may then be further up the stack with the old address. For a socket that polls
  nothing `us_poll_resize` registers no new address (`epoll_kqueue.c:386`); the model does not move such a socket.
- The queue and the mutex are sequentially consistent: the orderings the code asks for (acquire, release,
  monotonic) are not weakened further. `peek` and `isEmpty` only read the count.
- The event loop: signals, the garbage-collection timers, exceptions and rejected promises, timers that repeat, timers and
  immediates that are cleared or unref'd (`TimerObjectInternals.zig:68-75` skips those immediates), `process.exit`, `pending_unref_counter`, the debugger, and Windows. A promise is settled by the callback of one work.
- Valkey: parsing of replies, the idle timeout, TLS, finalization and the references that keep the process alive,
  subscriptions.

Not modelled:

- The thread pool: its packed word, run queues with stealing, and idle event are a machine as large as
  the event loop; `TaskLoop` takes from it only that a work that was scheduled is done by some thread.
- The DNS cache, UDP, the HTTP server and client, S3 and the watcher are planned, below. Their hazards that the list does name
  are those next to what is modelled.
- TLS (its state is inside BoringSSL), libuv, workers (termination is inside JavaScriptCore), and the compilers, the package manager and
  the other sequential subsystems, for which differential tests fit better. They are most of the repository's lines.

## 9. Plan

Done: sockets and their loop, the registry, the queue, the mutex, the event loop of the VM, the Valkey client.
Next, in order; each module with its abstract specification where one is named. A new module
brings one run that checks several of its properties, and takes the place of a run with a single finding.

1. `Connecting` and `DnsCache`: attempts, first-open, close while pending, results from the
   resolver thread; reference counts of the cache; one outcome per connect.
2. `ThreadPool`: no notification lost, the packed word's fields within their width.
3. `HttpClient`, `S3Multipart`: aborts, late answers and retries.
4. `TimeoutWheel`, `UdpSend`: pure arithmetic and batching, checked against a reference
   definition over bounded inputs. `HotReload` last.
