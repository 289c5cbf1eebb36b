--------------------------- MODULE UnboundedQueue ---------------------------
(***************************************************************************)
(* The intrusive queue of bun.js/unbounded_queue.zig: any number of        *)
(* threads push, one thread pops, and nobody takes a lock.  Every action   *)
(* is one atomic access of the code, with the private steps around it.     *)
(*                                                                         *)
(* A thread that pushes counts, swaps the back pointer and only then links *)
(* the item before to its own.  Between the last two the list is cut: the  *)
(* consumer must neither lose what is behind the cut nor take an item that *)
(* the pushing thread is about to write to.                                *)
(*                                                                         *)
(* Front is &self.front, the stub that holds the first link.  A back       *)
(* pointer that is null stands for it (`orelse &self.front`), so the model *)
(* starts with Front.                                                      *)
(***************************************************************************)
EXTENDS Naturals, Sequences, FiniteSets

CONSTANTS
    Nodes,      \* the items
    Threads,    \* the threads that push
    Front,      \* the stub
    Null,
    MaxBatch    \* bound: the items of one pushBatch

ASSUME QueueAssumption ==
    /\ Front \notin Nodes /\ Null \notin Nodes \cup {Front}
    /\ MaxBatch \in Nat \ {0}

VARIABLES
    next,       \* the links
    back,
    count,
    pushing,    \* the pushes under way, by thread
    con,        \* the consumer, inside pop or popBatch or walking its batch
    order       \* history: the items that were swapped in and not taken yet

vars == <<next, back, count, pushing, con, order>>

Pointers == Nodes \cup {Front}

NoPush == [pc |-> "idle", batch |-> <<>>, old |-> Front]
NoPop  == [pc |-> "idle", op |-> "pop", first |-> Null, nxt |-> Null,
           front |-> Null, n |-> 0, items |-> <<>>]

Init ==
    /\ next = [p \in Pointers |-> Null]
    /\ back = Front
    /\ count = 0
    /\ pushing = [t \in Threads |-> NoPush]
    /\ con = NoPop
    /\ order = <<>>

Elements(s) == {s[i] : i \in DOMAIN s}

\* The items in somebody's hands: pushed, in the queue or taken.
InUse ==
    Elements(order) \cup Elements(con.items)
    \cup UNION {Elements(pushing[t].batch) : t \in Threads}

\* A batch that may be pushed: items that nobody uses.
Batches == {b \in UNION {[1..n -> Nodes \ InUse] : n \in 1..MaxBatch} :
               \A i, j \in DOMAIN b : b[i] = b[j] => i = j}

\* The links of a batch, the last of which pushBatch clears.
Linked(b) ==
    [p \in Pointers |->
        IF \E i \in DOMAIN b : b[i] = p
        THEN LET i == CHOOSE i \in DOMAIN b : b[i] = p
             IN  IF i = Len(b) THEN Null ELSE b[i + 1]
        ELSE next[p]]

-----------------------------------------------------------------------------
(* push, and pushBatch of items that are linked already.                   *)

\* Mutant of PushCount: a batch counts as one item.
PushCountOne(t) ==
    /\ pushing[t].pc = "idle"
    /\ \E b \in Batches :
         /\ pushing' = [pushing EXCEPT ![t] = [pc |-> "counted", batch |-> b, old |-> Front]]
         /\ count' = count + 1
         /\ next' = Linked(b)
    /\ UNCHANGED <<back, con, order>>

PushCount(t) ==
    /\ pushing[t].pc = "idle"
    /\ \E b \in Batches :
         /\ pushing' = [pushing EXCEPT ![t] = [pc |-> "counted", batch |-> b, old |-> Front]]
         /\ count' = count + Len(b)
         /\ next' = Linked(b)
    /\ UNCHANGED <<back, con, order>>

PushSwap(t) ==
    LET b == pushing[t].batch
    IN  /\ pushing[t].pc = "counted"
        /\ pushing' = [pushing EXCEPT ![t].pc = "swapped", ![t].old = back]
        /\ back' = b[Len(b)]
        /\ order' = order \o b
        /\ UNCHANGED <<next, count, con>>

\* Mutant of PushLink: the item before gets the last item of the batch.
PushLinkLast(t) ==
    /\ pushing[t].pc = "swapped"
    /\ next' = [next EXCEPT ![pushing[t].old] = pushing[t].batch[Len(pushing[t].batch)]]
    /\ pushing' = [pushing EXCEPT ![t] = NoPush]
    /\ UNCHANGED <<back, count, con, order>>

PushLink(t) ==
    /\ pushing[t].pc = "swapped"
    /\ next' = [next EXCEPT ![pushing[t].old] = pushing[t].batch[1]]
    /\ pushing' = [pushing EXCEPT ![t] = NoPush]
    /\ UNCHANGED <<back, count, con, order>>

-----------------------------------------------------------------------------
(* pop and popBatch.  con.first is `front` of popBatch, the item the walk  *)
(* has reached, or `first` of pop; con.n is the count of the batch.        *)

\* The first n items leave the queue.
Take(n) ==
    /\ order' = SubSeq(order, n + 1, Len(order))
    /\ con' = [con EXCEPT !.pc = "subtract", !.n = n, !.items = SubSeq(order, 1, n)]

Start(op) ==
    /\ con.pc = "idle" /\ next[Front] # Null
    /\ con' = [NoPop EXCEPT !.pc = "walk", !.op = op, !.first = next[Front],
                            !.front = next[Front]]
    /\ UNCHANGED <<next, back, count, pushing, order>>

Walk ==
    LET item == next[con.first]
    IN  /\ con.pc = "walk"
        /\ con' = IF item = Null THEN [con EXCEPT !.pc = "last"]
                  ELSE IF con.op = "pop" THEN [con EXCEPT !.pc = "advance", !.nxt = item]
                  ELSE [con EXCEPT !.first = item, !.n = @ + 1]
        /\ UNCHANGED <<next, back, count, pushing, order>>

\* Mutant of Last: the item with no link is always left for later.
LastLeft ==
    /\ con.pc = "last"
    /\ con' = IF con.op = "pop" THEN NoPop ELSE [con EXCEPT !.pc = "stop"]
    /\ UNCHANGED <<next, back, count, pushing, order>>

\* The back pointer tells whether the item with no link is the last one.
Last ==
    /\ con.pc = "last"
    /\ con' = IF back = con.first THEN [con EXCEPT !.pc = "clear"]
              ELSE IF con.op = "pop" THEN NoPop
              ELSE [con EXCEPT !.pc = "stop"]
    /\ UNCHANGED <<next, back, count, pushing, order>>

\* popBatch leaves the item it stopped at.
Stop ==
    /\ con.pc = "stop"
    /\ next' = [next EXCEPT ![Front] = con.first]
    /\ Take(con.n)
    /\ UNCHANGED <<back, count, pushing>>

Clear ==
    /\ con.pc = "clear"
    /\ next' = [next EXCEPT ![Front] = Null]
    /\ con' = [con EXCEPT !.pc = "swap"]
    /\ UNCHANGED <<back, count, pushing, order>>

\* Mutant of SwapBack: a store instead of the compare-and-swap.
SwapBackBlind ==
    /\ con.pc = "swap"
    /\ back' = Front /\ Take(con.n + 1)
    /\ UNCHANGED <<next, count, pushing>>

\* The compare-and-swap fails when an item was pushed meanwhile.
SwapBack ==
    /\ con.pc = "swap"
    /\ IF back = con.first THEN back' = Front /\ Take(con.n + 1)
       ELSE con' = [con EXCEPT !.pc = "spin"] /\ UNCHANGED <<back, order>>
    /\ UNCHANGED <<next, count, pushing>>

\* Mutant of Spin: the consumer does not wait for the link.
SpinOnce ==
    /\ con.pc = "spin"
    /\ con' = [con EXCEPT !.pc = "advance", !.nxt = next[con.first]]
    /\ UNCHANGED <<next, back, count, pushing, order>>

\* The consumer spins until the item after is linked.
Spin ==
    /\ con.pc = "spin" /\ next[con.first] # Null
    /\ con' = [con EXCEPT !.pc = "advance", !.nxt = next[con.first]]
    /\ UNCHANGED <<next, back, count, pushing, order>>

Advance ==
    /\ con.pc = "advance"
    /\ next' = [next EXCEPT ![Front] = con.nxt]
    /\ Take(con.n + 1)
    /\ UNCHANGED <<back, count, pushing>>

Subtract ==
    /\ con.pc = "subtract"
    /\ count' = count - con.n
    /\ con' = IF con.n = 0 THEN NoPop ELSE [con EXCEPT !.pc = "iterate"]
    /\ UNCHANGED <<next, back, pushing, order>>

\* Batch.Iterator.next: the item belongs to the caller from here on.
Iterate ==
    /\ con.pc = "iterate"
    /\ con' = IF con.n = 1 THEN NoPop
              ELSE [con EXCEPT !.front = next[con.front], !.n = @ - 1, !.items = Tail(@)]
    /\ UNCHANGED <<next, back, count, pushing, order>>

Push(t) == PushCount(t) \/ PushSwap(t) \/ PushLink(t)

Consume == Walk \/ Last \/ Stop \/ Clear \/ SwapBack \/ Spin \/ Advance \/ Subtract \/ Iterate

Next == (\E t \in Threads : Push(t)) \/ Start("pop") \/ Start("popBatch") \/ Consume

\* A thread inside push or pop runs on, and the consumer pops again and again.
Fairness ==
    /\ WF_vars(Start("pop") \/ Start("popBatch")) /\ WF_vars(Consume)
    /\ \A t \in Threads : WF_vars(PushSwap(t)) /\ WF_vars(PushLink(t))

Spec == Init /\ [][Next]_vars

FairSpec == Spec /\ Fairness

-----------------------------------------------------------------------------

Pcs == {"idle", "walk", "last", "stop", "clear", "swap", "spin", "advance",
        "subtract", "iterate"}

Pushes == [pc : {"idle", "counted", "swapped"}, batch : Seq(Nodes), old : Pointers]

Pops == [pc : Pcs, op : {"pop", "popBatch"}, first : Nodes \cup {Null},
         nxt : Nodes \cup {Null}, front : Nodes \cup {Null}, n : Nat, items : Seq(Nodes)]

Typed ==
    /\ next \in [Pointers -> Nodes \cup {Null}]
    /\ back \in Pointers
    /\ pushing \in [Threads -> Pushes]
    /\ con \in Pops
    /\ order \in Seq(Nodes)

TypeOK == Typed /\ count \in Nat

Swapped(t) == pushing[t].pc = "swapped"

\* The item before the i-th item of the queue.
Before(i) == IF i = 1 THEN Front ELSE order[i - 1]

\* The list is cut only where a push is about to link it, and in front while
\* the consumer swaps the back pointer: every item between the stub and the
\* back pointer can be reached, or will be.
ListWhole ==
    /\ back = Before(Len(order) + 1)
    /\ \A i \in DOMAIN order :
         \/ next[Before(i)] = order[i]
         \/ \E t \in Threads : Swapped(t) /\ pushing[t].old = Before(i)
                               /\ pushing[t].batch[1] = order[i]
         \/ i = 1 /\ con.pc \in {"swap", "spin", "advance"} /\ con.first = order[con.n + 1]

\* A push that has swapped the back pointer writes to the stub or to an item
\* that is still in the queue: the consumer never hands out, and so nobody
\* frees, an item whose link somebody is about to set.
LinksLiveItem ==
    \A t \in Threads : Swapped(t) =>
        pushing[t].old \in Elements(order) \cup {Front}

\* The links of a batch lead through exactly the items that left the queue, in
\* the order of the pushes.
BatchChained ==
    con.pc \in {"subtract", "iterate"} /\ con.n > 0 =>
        /\ con.n = Len(con.items) /\ con.front = con.items[1]
        /\ \A i \in 1..con.n - 1 : next[con.items[i]] = con.items[i + 1]

Counted == {t \in Threads : pushing[t].pc = "counted"}

\* The count is never below the number of items in the queue, nor wraps below
\* zero: a queue that says it is empty is.
CountCovers ==
    /\ Len(order) + (IF con.pc = "subtract" THEN con.n ELSE 0) <= count
    /\ Counted = {} => count = Len(order) + (IF con.pc = "subtract" THEN con.n ELSE 0)

\* Every item is eventually handed out, however the threads interleave.
Delivered == \A x \in Nodes : x \in Elements(order) ~> x \notin Elements(order)
=============================================================================
