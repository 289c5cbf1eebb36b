---------------------------- MODULE TaskChannel ----------------------------
(***************************************************************************)
(* What the unbounded queue of unbounded_queue.zig promises to the threads *)
(* that push and to the one thread that pops: a line of items in the order *)
(* in which the pushes swapped the back pointer.  A push is visible in two *)
(* steps, the swap that gives its items their place and the store that     *)
(* links them to the items before; until then the consumer sees none of    *)
(* them, and leaves the item before them in the line as well.              *)
(***************************************************************************)
EXTENDS Naturals, Sequences

CONSTANTS Nodes, MaxBatch

VARIABLES
    line,       \* the items in the queue, the oldest first
    unlinked    \* the first items of the pushes that have not linked them

vars == <<line, unlinked>>

Init == line = <<>> /\ unlinked = {}

TypeOK == line \in Seq(Nodes) /\ unlinked \subseteq Nodes

\* The items that nobody can find by following the links from the front.
Hidden == {i \in DOMAIN line : \E j \in 1..i : line[j] \in unlinked}

\* How many items a consumer may take: it leaves the last one that it can
\* reach, unless that is the last one of the line.
Takeable(k) ==
    /\ k \in 0..Len(line)
    /\ \A i \in 1..k : i \notin Hidden
    /\ k < Len(line) => k + 1 \notin Hidden

\* push and pushBatch
Send(b) ==
    /\ b # <<>>
    /\ line' = line \o b
    /\ unlinked' = unlinked \cup {b[1]}

Link(n) ==
    /\ n \in unlinked
    /\ unlinked' = unlinked \ {n}
    /\ UNCHANGED line

\* pop and popBatch take the k oldest items.
Receive(k) ==
    /\ k > 0 /\ Takeable(k)
    /\ line' = SubSeq(line, k + 1, Len(line))
    /\ UNCHANGED unlinked

Next ==
    \/ \E m \in 1..MaxBatch : \E b \in [1..m -> Nodes] : Send(b)
    \/ \E n \in Nodes : Link(n)
    \/ \E k \in 1..Len(line) : Receive(k)

Spec == Init /\ [][Next]_vars
=============================================================================
