---------------------------- MODULE ValkeyClient ----------------------------
(***************************************************************************)
(* The Valkey (Redis) client of valkey.zig and js_valkey.zig: commands     *)
(* wait in an offline queue, are copied to a write buffer and enter the    *)
(* queue of promises in flight, and the replies of the server settle those *)
(* promises in order.  The connection authenticates with HELLO, is closed, *)
(* refused or lost, times out and is tried again.                          *)
(*                                                                         *)
(* The record c is the struct ValkeyClient with the sockets that carry a   *)
(* pointer to it.  The handlers are operators from c to c, or to the set   *)
(* of outcomes where a write to the socket may be partial.  Everything     *)
(* runs on the thread of the VM; frame says what that thread is in:        *)
(*   "loop"  nothing of this client                                        *)
(*   "js"    JavaScript that a callback or a task runs                     *)
(*   "data"  JavaScript that the settling of a reply runs, inside onData   *)
(*   "next"  onData, after those microtasks                                *)
(* Byte-level parsing, TLS and garbage collection are left out; the server *)
(* and the kernel's socket are external.                                   *)
(***************************************************************************)
EXTENDS Integers, Sequences, FiniteSets, LinearFifo

CONSTANTS
    MaxCmds,        \* bound: commands the program sends
    MaxSockets,     \* bound: sockets of the client that exist at one time
    MaxRetries,     \* max_retries
    Kinds,          \* the kinds of commands the program sends
    Options,        \* the options clients are made with
    Database        \* the URL names a database, so SELECT follows HELLO

\* "plain"    may be pipelined
\* "serial"   may not (not_allowed_autopipeline_commands), sent by send()
\* "typed"    may not either, sent by its own method, whose meta says it may
AllKinds == {"plain", "serial", "typed"}

ASSUME ValkeyAssumption ==
    /\ MaxCmds \in Nat /\ MaxSockets \in Nat \ {0} /\ MaxRetries \in Nat
    /\ Kinds \subseteq AllKinds /\ Database \in BOOLEAN
    /\ Options \subseteq [reconnect : BOOLEAN, offline : BOOLEAN, pipeline : BOOLEAN,
                          host : BOOLEAN]    \* the address is a name, not an IP

VARIABLES
    c,
    frame,
    later           \* history: the first session of the client is over (LaterOn)

vars == <<c, frame, later>>

Cmds    == 1..MaxCmds
SocketIds == 1..MaxSockets
Hello   == 0
Select  == -1
Messages == Cmds \cup {Hello, Select}

Detached == 0      \* client.socket is .detached

Outcomes == {"unsent", "pending", "own", "wrong", "rejected", "unreachable"}

Flags    == {"authenticated", "manual", "unopened", "reconnecting"}
Timers   == {"reconnect", "connection"}
Sockets  == [state : {"none", "opening", "open"}, wire : Seq(Messages)]

Client == [
    opts       : Options,
    status     : {"disconnected", "connecting", "connected", "failed"},
    flags      : SUBSET Flags,
    registered : BOOLEAN,                   \* auto_flusher.registered
    attempts   : Nat,                       \* retry_attempts
    timers     : SUBSET Timers,
    inflight   : Fifos(Cmds),
    queue      : Fifos(Cmds),
    wbuf       : Seq(Messages),
    socket     : SocketIds \cup {Detached},
    net        : [SocketIds -> Sockets],
    promise    : BOOLEAN,                   \* connectionPromise is cached
    \* what the program sent and got
    kind       : [Cmds -> AllKinds],
    outcome    : [Cmds -> Outcomes],
    tries      : 0..MaxRetries + 1]         \* reconnections since the last success

TypeOK ==
    c \in Client /\ frame \in {"loop", "js", "data", "next"} /\ later \in BOOLEAN

NoSocket == [state |-> "none", wire |-> <<>>]

\* A new client has needs_to_open_socket set.
Init ==
    /\ frame = "loop" /\ later = FALSE
    /\ \E o \in Options : c = [
        opts |-> o, status |-> "disconnected", flags |-> {"unopened"},
        registered |-> FALSE, attempts |-> 0, timers |-> {}, promise |-> FALSE,
        inflight |-> EmptyFifo, queue |-> EmptyFifo, wbuf |-> <<>>,
        socket |-> Detached, net |-> [s \in SocketIds |-> NoSocket],
        kind |-> [x \in Cmds |-> "plain"], outcome |-> [x \in Cmds |-> "unsent"],
        tries |-> 0]

Has(d, flag)     == flag \in d.flags
Raise(d, flag)   == [d EXCEPT !.flags = @ \cup {flag}]
Authenticated(d) == Has(d, "authenticated")
Pipelines(d, x)  == d.kind[x] = "plain"    \* the meta of an entry, after check()

-----------------------------------------------------------------------------
(* Writing.                                                                *)

\* Mutant of Flushes: a short write empties the buffer.
FlushesAll(d) ==
    IF d.socket = Detached \/ d.wbuf = <<>> THEN {d}
    ELSE IF d.net[d.socket].state # "open" THEN {d}
    ELSE {[d EXCEPT !.wbuf = <<>>, !.net[d.socket].wire = @ \o SubSeq(d.wbuf, 1, n)] :
             n \in 0..Len(d.wbuf)}

\* flushData: the socket takes none, some or all of the buffer.
Flushes(d) ==
    IF d.socket = Detached \/ d.wbuf = <<>> THEN {d}
    ELSE IF d.net[d.socket].state # "open" THEN {d}
    ELSE {[d EXCEPT !.wbuf = SubSeq(@, n + 1, Len(@)),
                    !.net[d.socket].wire = @ \o SubSeq(d.wbuf, 1, n)] :
             n \in 0..Len(d.wbuf)}

\* The command x enters the queue in flight and its bytes the write buffer.
Submit(d, x) ==
    [d EXCEPT !.inflight = Push(@, x), !.wbuf = Append(@, x)]

Dequeue(d) == [d EXCEPT !.queue = Discard(@, 1)]

\* The commands at the head of the queue that one flush may batch.
Batch(d) ==
    LET shown == Readable(d.queue)
    IN  CHOOSE n \in 0..shown :
            /\ \A i \in 1..n : Pipelines(d, d.queue.items[i])
            /\ n = shown \/ ~Pipelines(d, d.queue.items[n + 1])

\* One writeItem after the other reserves what one reservation of all does.
SubmitBatch(d) ==
    LET n == Batch(d)
        batch == SubSeq(d.queue.items, 1, n)
    IN  [d EXCEPT !.inflight = [Reserve(@, n) EXCEPT !.items = d.inflight.items \o batch],
                  !.wbuf = @ \o batch, !.queue = Discard(@, n)]

\* onAutoFlush, the deferred task of the auto flusher.
AutoFlush(d) ==
    IF d.status # "connected" THEN {[d EXCEPT !.registered = FALSE]}
    ELSE {[e EXCEPT !.registered = e.queue.items # <<>>] : e \in Flushes(SubmitBatch(d))}

\* drain: one command leaves the queue, unless it has to wait for the others.
Drain(d) ==
    LET x == Head(d.queue.items)
    IN  IF d.inflight.items # <<>> /\ ~Pipelines(d, x) THEN d ELSE Submit(Dequeue(d), x)

HeadPipelines(d) == d.queue.items # <<>> /\ Pipelines(d, Head(d.queue.items))

\* Mutant of SendNextCommand: a serial command does not wait for the replies.
SendNextCommandEager(d) ==
    Flushes(IF d.wbuf # <<>> \/ ~Authenticated(d) \/ d.queue.items = <<>> THEN d
            ELSE IF HeadPipelines(d) THEN [d EXCEPT !.registered = TRUE]
            ELSE Submit(Dequeue(d), Head(d.queue.items)))

\* Mutant of SendNextCommand: nothing registers the flusher.
SendNextCommandIdle(d) ==
    Flushes(IF d.wbuf # <<>> \/ ~Authenticated(d) \/ d.queue.items = <<>> THEN d
            ELSE IF HeadPipelines(d) \/ d.inflight.items # <<>> THEN d
            ELSE Drain(d))

SendNextCommand(d) ==
    LET drained == Drain(d)
        e == IF d.wbuf # <<>> \/ ~Authenticated(d) \/ d.queue.items = <<>> THEN d
             ELSE IF HeadPipelines(d) THEN [d EXCEPT !.registered = TRUE]
             ELSE IF d.inflight.items # <<>> THEN d
             ELSE [drained EXCEPT !.registered = @ \/ HeadPipelines(drained)]
    IN  Flushes(e)

-----------------------------------------------------------------------------
(* Failing and closing.                                                    *)

Items(f) == {f.items[i] : i \in DOMAIN f.items}
Shown(f) == {f.items[i] : i \in 1..Readable(f)}

\* rejectAllPendingCommands walks what readableSlice(0) shows of both queues.
RejectAll(d) ==
    [d EXCEPT !.outcome = [x \in Cmds |->
                  IF x \in Shown(d.inflight) \cup Shown(d.queue) THEN "rejected" ELSE @[x]],
              !.inflight = EmptyFifo, !.queue = EmptyFifo]

\* Mutant of Failed: the commands that wait are left in the queue.
FailedQuietly(d) == [d EXCEPT !.status = "failed"]

Failed(d) == [RejectAll(d) EXCEPT !.status = "failed"]

\* fail when the socket is detached already: the close() it ends with is none.
FailDetached(d) ==
    IF d.status = "failed" THEN d
    ELSE IF Authenticated(d) THEN Failed(d) ELSE Raise(Failed(d), "manual")

OnValkeyClose(d) == [d EXCEPT !.promise = FALSE]

\* onClose after the socket s was closed, lost or refused.
OnClose(d, s) ==
    LET e == [d EXCEPT !.net[s] = NoSocket, !.socket = Detached,
                       !.registered = FALSE, !.wbuf = <<>>]
        again == [e EXCEPT !.attempts = @ + 1]
    IN  IF Has(e, "manual") \/ ~e.opts.reconnect THEN OnValkeyClose(FailDetached(e))
        ELSE IF again.attempts > MaxRetries THEN OnValkeyClose(FailDetached(again))
        ELSE Raise([again EXCEPT !.status = "disconnected",
                                 !.timers = @ \cup {"reconnect"}], "reconnecting")

\* close: an attempt to reach an IP address ends without a callback.
CloseSocket(d) ==
    IF d.socket = Detached THEN d
    ELSE IF d.net[d.socket].state = "opening" /\ ~d.opts.host
    THEN [d EXCEPT !.net[d.socket] = NoSocket, !.socket = Detached]
    ELSE OnClose(d, d.socket)

\* fail and failWithJSValue
Fail(d) ==
    IF d.status = "failed" THEN d
    ELSE IF Authenticated(d) THEN Failed(d)
    ELSE CloseSocket(Raise(Failed(d), "manual"))

-----------------------------------------------------------------------------
(* Connecting.                                                             *)

FreeSockets(d) == {s \in SocketIds : d.net[s].state = "none"}

\* connect of js_valkey.zig, and resetConnectionTimeout.
Connecting(d) ==
    LET s == CHOOSE s \in FreeSockets(d) : TRUE
    IN  [d EXCEPT !.flags = @ \ {"unopened"}, !.socket = s,
                  !.net[s] = [state |-> "opening", wire |-> <<>>],
                  !.timers = @ \cup {"connection"}]

\* Only a connection to an IP address can fail within the call.
ConnectSucceeds(d) == IF d.opts.host THEN {TRUE} ELSE BOOLEAN

\* reconnect: the failure of connect only runs the onclose callback.
Reconnects(d) ==
    IF ~Has(d, "reconnecting") THEN {d}
    ELSE LET e == [d EXCEPT !.status = "connecting", !.attempts = 0,
                            !.tries = IF @ > MaxRetries THEN @ ELSE @ + 1,
                            !.flags = @ \ {"unopened"}]
         IN  {IF ok THEN Connecting(e) ELSE e : ok \in ConnectSucceeds(d)}

\* Mutant of Authenticates: HELLO takes a place among the promises in flight.
AuthenticatesInOrder(d) ==
    Flushes([d EXCEPT !.inflight = Push(@, Hello), !.wbuf = <<Hello>>])

\* authenticate queues HELLO, and SELECT, without a promise in flight.
Authenticates(d) ==
    Flushes([d EXCEPT !.wbuf = IF Database THEN <<Hello, Select>> ELSE <<Hello>>])

-----------------------------------------------------------------------------
(* Replies.                                                                *)

\* handleHelloResponse of a reply that says the server speaks RESP3.
HelloAccepted(d) ==
    SendNextCommand(Raise([d EXCEPT !.status = "connected", !.promise = FALSE,
                                    !.tries = 0], "authenticated"))

\* Mutant of Settle: the newest promise is taken, not the oldest.
SettleNewest(d, m) ==
    LET n == Len(d.inflight.items)
        x == d.inflight.items[n]
    IN  [d EXCEPT !.inflight.items = SubSeq(@, 1, n - 1),
                  !.outcome[x] = IF x = m THEN "own" ELSE "wrong"]

\* The reply to m settles the first promise in flight.
Settle(d, m) ==
    LET x == Head(d.inflight.items)
    IN  [d EXCEPT !.inflight = Discard(@, 1),
                  !.outcome[x] = IF x = m THEN "own" ELSE "wrong"]

-----------------------------------------------------------------------------
(* Commands.                                                               *)

\* Mutant of MustQueue: commands go ahead of those that wait.
MustQueueAhead(d, can) == (~can /\ d.inflight.items # <<>>) \/ ~Authenticated(d) \/ can

\* When enqueue puts a command in the offline queue.
MustQueue(d, can) ==
    \/ d.queue.items # <<>>
    \/ ~can /\ d.inflight.items # <<>>
    \/ ~Authenticated(d)
    \/ can

Enqueue(d, x) ==
    LET can == d.kind[x] # "serial" /\ d.opts.pipeline
    IN  IF MustQueue(d, can)
        THEN {[d EXCEPT !.queue = Push(@, x),
                        !.registered = @ \/ (d.status = "connected" /\ can)]}
        ELSE IF d.status \in {"connecting", "connected"} THEN Flushes(Submit(d, x))
        ELSE {[d EXCEPT !.outcome[x] = "unreachable"]}

\* ValkeyClient.send; the flusher it registers again is the one of enqueue.
Dispatch(d, x) ==
    IF \/ d.status \in {"connecting", "connected"}
       \/ d.status = "disconnected" /\ d.opts.offline
    THEN Enqueue(d, x)
    ELSE {[d EXCEPT !.outcome[x] = "rejected"]}

-----------------------------------------------------------------------------
(* Actions: the program.                                                   *)

\* The first session lasts until a client that has been authenticated loses its
\* connection and is to reconnect, or until connect() opens a connection when there
\* has been an authenticated one, or beside another or a reconnection to come.
LaterOn(ends) == later' = (later \/ ends)

\* A call from JavaScript; the deferred tasks run before the loop goes on.
Calling == frame # "next" /\ frame' = IF frame = "loop" THEN "js" ELSE frame

Unsent == {x \in Cmds : c.outcome[x] = "unsent"}

\* send of js_valkey.zig: the first command opens the connection.
Send ==
    /\ Calling
    /\ Unsent # {}
    /\ \E kind \in Kinds :
         LET x == CHOOSE x \in Unsent : \A y \in Unsent : x <= y
             d == [c EXCEPT !.kind[x] = kind, !.outcome[x] = "pending"]
         IN  IF ~Has(c, "unopened") THEN c' \in Dispatch(d, x)
             ELSE \E ok \in ConnectSucceeds(c) :
                     IF ok THEN c' \in Dispatch(Connecting(d), x)
                     ELSE c' = [d EXCEPT !.outcome[x] = "rejected"]
    /\ UNCHANGED later

\* A connection of the client exists, or the reconnect timer will open one.
HasConnection(d) == FreeSockets(d) # SocketIds \/ "reconnect" \in d.timers

\* doConnect
Connect ==
    /\ Calling
    /\ c.status # "connected" /\ ~c.promise
    /\ FreeSockets(c) # {}
    /\ LaterOn(Authenticated(c) \/ (HasConnection(c) /\ c.status # "connecting"))
    /\ LET d == [c EXCEPT !.promise = TRUE, !.flags = @ \ {"manual"}]
           again == Raise([d EXCEPT !.attempts = 0], "reconnecting")
       IN  IF Has(c, "unopened")
           THEN \E ok \in ConnectSucceeds(c) : c' = IF ok THEN Connecting(d) ELSE d
           ELSE IF c.status = "connecting" THEN c' = d
           ELSE c' \in Reconnects(again)

\* jsDisconnect and disconnect.
Close ==
    /\ Calling
    /\ c.status # "disconnected"
    /\ LET d == Raise([c EXCEPT !.registered = FALSE], "manual")
       IN  c' = IF c.status = "failed" THEN d
                ELSE CloseSocket([d EXCEPT !.status = "disconnected"])
    /\ UNCHANGED later

\* The deferred tasks run after the microtasks of a call or of a reply.
RunDeferred ==
    /\ frame \in {"js", "data"} \/ (frame = "loop" /\ c.registered)
    /\ c' \in IF c.registered THEN AutoFlush(c) ELSE {c}
    /\ frame' = IF frame = "data" THEN "next" ELSE "loop"
    /\ UNCHANGED later

-----------------------------------------------------------------------------
(* Actions: the sockets and the timers.                                    *)

OnLoop == frame = "loop" /\ UNCHANGED frame

\* onOpen
Opened(s) ==
    /\ OnLoop
    /\ c.net[s].state = "opening"
    /\ c' \in Authenticates([c EXCEPT !.socket = s, !.net[s].state = "open"])
    /\ UNCHANGED later

\* onConnectError
Refused(s) ==
    /\ OnLoop
    /\ c.net[s].state = "opening"
    /\ c' = OnClose(c, s)
    /\ UNCHANGED later

\* The server or the network ends a connection: onEnd, onClose.
Lost(s) ==
    /\ OnLoop
    /\ c.net[s].state = "open"
    /\ c' = OnClose(c, s)
    /\ LaterOn(Authenticated(c) /\ c.opts.reconnect)

\* onWritable: the last write to the socket was short.
BecomesWritable(s) ==
    /\ OnLoop
    /\ c.net[s].state = "open" /\ c.wbuf # <<>>
    /\ c' \in SendNextCommand([c EXCEPT !.socket = s])
    /\ UNCHANGED later

\* The next reply on socket s, without the message it answers.
Replying(s) == [c EXCEPT !.socket = s, !.net[s].wire = Tail(@)]

\* handleResponse, before the client is authenticated.
HelloReply(s) ==
    /\ frame = "loop"
    /\ c.net[s].wire # <<>> /\ ~Authenticated(c)
    /\ \/ c' \in HelloAccepted(Replying(s)) /\ frame' = "data"
       \/ c' = Fail(Replying(s)) /\ UNCHANGED frame
    /\ UNCHANGED later

\* handleResponse, afterwards: a promise in flight is settled, if there is one.
Reply(s) ==
    /\ frame = "loop"
    /\ c.net[s].wire # <<>> /\ Authenticated(c)
    /\ IF c.inflight.items = <<>> THEN c' = Replying(s) /\ frame' = "next"
       ELSE c' = Settle(Replying(s), Head(c.net[s].wire)) /\ frame' = "data"
    /\ UNCHANGED later

\* onData goes on after the microtasks of a reply.
AfterReply ==
    /\ frame = "next" /\ frame' = "loop"
    /\ c' \in IF c.status \in {"disconnected", "failed"} THEN {c} ELSE SendNextCommand(c)
    /\ UNCHANGED later

Fires(timer) == timer \in c.timers /\ FreeSockets(c) # {}
Fired(timer) == [c EXCEPT !.timers = @ \ {timer}]

\* onReconnectTimer
ReconnectTimer ==
    /\ OnLoop
    /\ Fires("reconnect")
    /\ c' \in Reconnects(Fired("reconnect"))
    /\ UNCHANGED later

\* onConnectionTimeout, without an idle timeout.
ConnectionTimeout ==
    /\ OnLoop
    /\ "connection" \in c.timers
    /\ LET d == Fired("connection")
       IN  c' = IF c.status \in {"connected", "failed"} THEN d ELSE Fail(d)
    /\ UNCHANGED later

Next ==
    \/ Send \/ Connect \/ Close \/ RunDeferred \/ AfterReply
    \/ ReconnectTimer \/ ConnectionTimeout
    \/ \E s \in SocketIds :
         Opened(s) \/ Refused(s) \/ Lost(s) \/ BecomesWritable(s) \/ HelloReply(s) \/ Reply(s)

\* The thread of the VM runs on, the timers fire, sockets become writable, the
\* server answers what it received, and attempts to connect do not fail forever.
Fairness ==
    /\ WF_vars(RunDeferred) /\ WF_vars(AfterReply)
    /\ WF_vars(ReconnectTimer) /\ WF_vars(ConnectionTimeout)
    /\ \A s \in SocketIds :
         /\ WF_vars(BecomesWritable(s)) /\ WF_vars(HelloReply(s)) /\ WF_vars(Reply(s))
         /\ SF_vars(Opened(s))

Spec == Init /\ [][Next]_vars /\ Fairness

-----------------------------------------------------------------------------

\* Every reply settles the promise of the command it answers.  The code does not
\* keep this when a client connects again.
RepliesMatch == \A x \in Cmds : c.outcome[x] # "wrong"

\* Until the first session is over, every reply settles the promise of its command
\* (handleResponse, valkey.zig:676-706), whatever is refused, cut short or retried.
FirstRepliesMatch == ~later => RepliesMatch

\* Until then the queue in flight holds exactly the commands that are on the
\* connection or in the write buffer, behind what the client sends of its own, in
\* the order of their bytes: no short write, flush or failed attempt to connect puts
\* the promises and the replies out of step.
InFlightExact ==
    ~later => \A s \in SocketIds : c.net[s].state = "open" /\ c.socket = s =>
        LET msgs == c.net[s].wire \o c.wbuf
        IN  \E k \in 0..Len(msgs) :
                /\ \A i \in 1..k : msgs[i] \notin Cmds
                /\ c.inflight.items = SubSeq(msgs, k + 1, Len(msgs))

\* The commands that wait are in the order of the calls, those in flight first.
OrderKept ==
    LET all == c.inflight.items \o c.queue.items
    IN  \A i, j \in DOMAIN all : i < j => all[i] < all[j]

\* A command that may not be pipelined is sent when nothing is in flight.
SerialAlone ==
    [][\A x \in Items(c'.inflight) \ Items(c.inflight) :
          c'.kind[x] # "plain" => c.inflight.items = <<>>]_vars

\* A connected client whose queue is not empty has something under way that
\* will look at the queue again: a reply to come or a flush that sends.
NoStall ==
    frame = "loop" /\ c.status = "connected" /\ c.queue.items # <<>> =>
        \/ \E s \in SocketIds : c.net[s].wire # <<>>
        \/ c.wbuf # <<>>
        \/ c.registered /\ HeadPipelines(c)

\* The `else => unreachable` of enqueue is not reached.
NoUnreachable == \A x \in Cmds : c.outcome[x] # "unreachable"

\* No promise is forgotten: a command that is not settled is in a queue.
NoPromiseForgotten ==
    \A x \in Cmds : c.outcome[x] = "pending" =>
        x \in Items(c.inflight) \cup Items(c.queue)

\* The client gives up after maxRetries attempts to reconnect.
RetriesBounded == c.tries <= MaxRetries

\* Every command is settled, unless the first session ends before, its promise was
\* forgotten or an attempt to reconnect to an IP address failed at once (reconnect
\* leaves the client connecting then).
Settles ==
    \A x \in Cmds : c.outcome[x] = "pending" ~>
        \/ c.outcome[x] # "pending"
        \/ x \notin Items(c.inflight) \cup Items(c.queue)
        \/ ~c.opts.host
        \/ later
=============================================================================
