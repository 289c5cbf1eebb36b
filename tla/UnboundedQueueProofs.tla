------------------------ MODULE UnboundedQueueProofs ------------------------
(***************************************************************************)
(* The unbounded queue keeps its list whole, writes only to live items,    *)
(* hands out batches in the order of the pushes, and implements the        *)
(* channel, for any number of threads and items.                           *)
(*                                                                         *)
(* The inductive invariant says where every link leads.  It is stated over *)
(* the positions of the history variable order; a push under way is at the *)
(* one position that its first item has.                                   *)
(***************************************************************************)
EXTENDS UnboundedQueueImpl, FiniteSetTheorems, TLAPS

Injective(s) == \A i, j \in DOMAIN s : s[i] = s[j] => i = j

\* Nobody's items are another's, and no item is twice in a place.
Disjoint ==
    /\ Injective(order) /\ Injective(con.items)
    /\ \A i \in DOMAIN order, j \in DOMAIN con.items : order[i] # con.items[j]
    /\ \A t \in Threads : Injective(pushing[t].batch)
    /\ \A t \in Threads : pushing[t].pc = "counted" =>
         \A i \in DOMAIN pushing[t].batch :
            /\ \A j \in DOMAIN order : pushing[t].batch[i] # order[j]
            /\ \A j \in DOMAIN con.items : pushing[t].batch[i] # con.items[j]
    /\ \A t, u \in Threads : t # u =>
         \A i \in DOMAIN pushing[t].batch, j \in DOMAIN pushing[u].batch :
            pushing[t].batch[i] # pushing[u].batch[j]

\* A push that has counted has a batch of its own, linked up to its last item.
BatchesLinked ==
    \A t \in Threads :
        /\ pushing[t].pc = "idle" <=> pushing[t].batch = <<>>
        /\ pushing[t].pc = "counted" =>
             /\ \A i \in 1..Len(pushing[t].batch) - 1 :
                  next[pushing[t].batch[i]] = pushing[t].batch[i + 1]
             /\ next[pushing[t].batch[Len(pushing[t].batch)]] = Null

\* A push that has swapped is about to link the item at its place.
AtPlace ==
    \A t \in Threads : Swapped(t) =>
        /\ next[pushing[t].old] = Null
        /\ \E i \in DOMAIN order :
             pushing[t].batch[1] = order[i] /\ pushing[t].old = Before(i)

\* Where the links of the queue lead.
Links ==
    /\ back = Before(Len(order) + 1)
    /\ next[back] = Null
    /\ \A i \in 2..Len(order) :
         \/ next[order[i - 1]] = order[i]
         \/ \E t \in Threads : Swapped(t) /\ pushing[t].old = order[i - 1]
                               /\ pushing[t].batch[1] = order[i]

Walking == con.pc \in {"walk", "last", "stop", "clear"}
Cutting == con.pc \in {"swap", "spin", "advance"}

\* Where the stub leads.
FrontLink ==
    /\ Walking => next[Front] = order[1]
    /\ con.pc \in {"swap", "spin"} => next[Front] = Null
    /\ order # <<>> =>
         \/ next[Front] = order[1]
         \/ Cutting
         \/ \E t \in Threads : Swapped(t) /\ pushing[t].old = Front
                               /\ pushing[t].batch[1] = order[1]

\* What the consumer has found so far.
Progress ==
    /\ Walking \/ Cutting =>
         /\ con.n < Len(order) /\ con.first = order[con.n + 1] /\ con.front = order[1]
         /\ \A i \in 1..con.n : next[order[i]] = order[i + 1]
         /\ \A t \in Threads : Swapped(t) => pushing[t].old # Front
    /\ con.pc \in {"spin", "advance"} => con.n + 1 < Len(order)
    /\ con.pc = "advance" => con.nxt = order[con.n + 2] /\ next[con.first] = con.nxt
    /\ con.op = "pop" /\ (Walking \/ Cutting) => con.n = 0
    /\ con.pc \notin {"subtract", "iterate"} => con.items = <<>>
    /\ con.pc = "iterate" => con.n > 0

QueueInv ==
    /\ Typed /\ Disjoint /\ BatchesLinked /\ AtPlace /\ Links /\ FrontLink
    /\ Progress /\ BatchChained
-----------------------------------------------------------------------------
(* Sequences.                                                              *)

LEMMA SeqFacts ==
    ASSUME NEW S, NEW s \in Seq(S)
    PROVE  /\ Len(s) \in Nat /\ DOMAIN s = 1..Len(s)
           /\ \A i \in 1..Len(s) : s[i] \in S
           /\ s = <<>> <=> Len(s) = 0
  OBVIOUS

LEMMA Suffix ==
    ASSUME NEW S, NEW s \in Seq(S), NEW n \in 0..Len(s)
    PROVE  LET r == SubSeq(s, n + 1, Len(s))
           IN  /\ r \in Seq(S) /\ Len(r) = Len(s) - n
               /\ \A i \in 1..Len(r) : r[i] = s[i + n]
  OBVIOUS

LEMMA Prefix ==
    ASSUME NEW S, NEW s \in Seq(S), NEW n \in 0..Len(s)
    PROVE  LET r == SubSeq(s, 1, n)
           IN  /\ r \in Seq(S) /\ Len(r) = n
               /\ \A i \in 1..n : r[i] = s[i]
  OBVIOUS

LEMMA Joined ==
    ASSUME NEW S, NEW s \in Seq(S), NEW r \in Seq(S)
    PROVE  /\ s \o r \in Seq(S) /\ Len(s \o r) = Len(s) + Len(r)
           /\ \A i \in 1..Len(s) : (s \o r)[i] = s[i]
           /\ \A i \in 1..Len(r) : (s \o r)[Len(s) + i] = r[i]
           /\ \A i \in 1..Len(s) + Len(r) :
                i > Len(s) => i - Len(s) \in 1..Len(r) /\ (s \o r)[i] = r[i - Len(s)]
  OBVIOUS

LEMMA NoneTyped == NoPush \in Pushes /\ NoPop \in Pops /\ "walk" \in Pcs
  <1>1. <<>> \in Seq(Nodes)
    OBVIOUS
  <1> QED
    BY <1>1 DEF NoPush, NoPop, Pushes, Pops, Pcs, Pointers

LEMMA NoneTaken == NoPop.items = <<>>
  BY DEF NoPop

-----------------------------------------------------------------------------
(* The steps of the consumer that move nothing.                            *)

LEMMA InitInv == Init => QueueInv
  <1> SUFFICES ASSUME Init PROVE QueueInv
    OBVIOUS
  <1>1. Typed
    BY NoneTyped DEF Init, Typed, Pointers
  <1>2. Disjoint /\ BatchesLinked /\ AtPlace
    BY DEF Init, NoPush, NoPop, Disjoint, Injective, BatchesLinked, AtPlace, Swapped
  <1>3. Links
    BY DEF Init, Links, Before, Pointers
  <1>4. FrontLink /\ Progress /\ BatchChained
    BY DEF Init, NoPop, NoPush, FrontLink, Progress, BatchChained, Walking, Cutting, Swapped
  <1> QED
    BY <1>1, <1>2, <1>3, <1>4 DEF QueueInv

\* The items taken stay nobody else's while some of them are handed out.
LEMMA DisjointKept ==
    ASSUME QueueInv, UNCHANGED <<pushing, order>>, Injective(con'.items),
           \A j \in DOMAIN con'.items :
              \E k \in DOMAIN con.items : con'.items[j] = con.items[k]
    PROVE  Disjoint'
  <1> USE DEF QueueInv, Disjoint
  <1>1. Injective(order') /\ Injective(con'.items)
    OBVIOUS
  <1>2. \A i \in DOMAIN order', j \in DOMAIN con'.items : order'[i] # con'.items[j]
    OBVIOUS
  <1>3. \A t \in Threads : Injective(pushing'[t].batch)
    OBVIOUS
  <1>4. ASSUME NEW t \in Threads, pushing'[t].pc = "counted",
               NEW i \in DOMAIN pushing'[t].batch
        PROVE  /\ \A j \in DOMAIN order' : pushing'[t].batch[i] # order'[j]
               /\ \A j \in DOMAIN con'.items : pushing'[t].batch[i] # con'.items[j]
    BY <1>4
  <1>5. \A t, u \in Threads : t # u =>
          \A i \in DOMAIN pushing'[t].batch, j \in DOMAIN pushing'[u].batch :
             pushing'[t].batch[i] # pushing'[u].batch[j]
    OBVIOUS
  <1> QED
    BY <1>1, <1>2, <1>3, <1>4, <1>5 DEF Injective

\* A step of the consumer that changes con and nothing else, and keeps the
\* items taken or hands some out.
LEMMA ConsumerOnly ==
    ASSUME QueueInv, UNCHANGED <<next, back, pushing, order>>,
           \/ con'.items = <<>>
           \/ con'.items = con.items
           \/ con.items # <<>> /\ con'.items = Tail(con.items)
    PROVE  Disjoint' /\ BatchesLinked' /\ AtPlace' /\ Links'
  <1>1. BatchesLinked'
    BY DEF QueueInv, BatchesLinked
  <1>2. AtPlace'
    BY DEF QueueInv, AtPlace, Swapped, Before
  <1>3. Links'
    BY DEF QueueInv, Links, Swapped, Before
  <1>4. con.items \in Seq(Nodes) /\ Injective(con.items)
    BY DEF QueueInv, Typed, Pops, Disjoint
  <1>5. CASE con'.items = <<>>
    <2>1. DOMAIN con'.items = {}
      BY <1>5
    <2> QED
      BY <2>1, <1>1, <1>2, <1>3, DisjointKept DEF Injective
  <1>6. CASE con'.items = con.items
    BY <1>1, <1>2, <1>3, <1>4, <1>6, DisjointKept
  <1>7. CASE con.items # <<>> /\ con'.items = Tail(con.items)
    <2>1. \A i \in DOMAIN con'.items : /\ i + 1 \in DOMAIN con.items /\ i \in Nat
                                       /\ con'.items[i] = con.items[i + 1]
      BY <1>4, <1>7
    <2>2. Injective(con'.items)
      BY <2>1, <1>4 DEF Injective
    <2>3. \A j \in DOMAIN con'.items :
             \E k \in DOMAIN con.items : con'.items[j] = con.items[k]
      BY <2>1
    <2> QED
      BY <1>1, <1>2, <1>3, <2>2, <2>3, DisjointKept
  <1> QED
    BY <1>5, <1>6, <1>7

\* The item after the one that the consumer has reached, if that has a link.
LEMMA LinkLeadsOn ==
    ASSUME QueueInv, Walking \/ Cutting, next[con.first] # Null
    PROVE  con.n + 1 < Len(order) /\ next[con.first] = order[con.n + 2]
  <1>0. /\ con.n \in Nat /\ Len(order) \in Nat /\ con.n < Len(order)
        /\ con.first = order[con.n + 1]
    BY SeqFacts DEF QueueInv, Typed, Pops, Progress
  <1>1. con.n + 1 # Len(order)
    BY <1>0 DEF QueueInv, Links, Before
  <1>2. con.n + 2 \in 2..Len(order)
    BY <1>0, <1>1
  <1>3. \A t \in Threads : Swapped(t) => next[pushing[t].old] = Null
    BY DEF QueueInv, AtPlace
  <1> DEFINE k == con.n + 2
  <1>4. \/ next[order[k - 1]] = order[k]
        \/ \E t \in Threads : Swapped(t) /\ pushing[t].old = order[k - 1]
    BY <1>2 DEF QueueInv, Links
  <1>5. order[k - 1] = con.first
    BY <1>0
  <1> QED
    BY <1>0, <1>1, <1>3, <1>4, <1>5

LEMMA StartInv ==
    ASSUME QueueInv, NEW op \in {"pop", "popBatch"}, Start(op)
    PROVE  QueueInv'
  <1> USE DEF Start, NoPop
  <1>1. con.items = <<>>
    BY DEF QueueInv, Progress
  <1>2. Typed'
    <2>1. con' \in Pops
      BY NoneTyped DEF QueueInv, Typed, Pops, Pointers
    <2> QED
      BY <2>1 DEF QueueInv, Typed
  <1>3. con'.items = <<>> /\ con'.pc = "walk" /\ con'.n = 0 /\ con'.op = op
        /\ con'.first = next[Front] /\ con'.front = next[Front]
    BY DEF QueueInv, Typed, Pops
  <1>4. Disjoint' /\ BatchesLinked' /\ AtPlace' /\ Links'
    BY <1>1, <1>3, ConsumerOnly
  <1>5. order # <<>>
    BY SeqFacts DEF QueueInv, Typed, Links, Before
  <1>6. \A t \in Threads : Swapped(t) => pushing[t].old # Front
    BY DEF QueueInv, AtPlace
  <1>7. next[Front] = order[1]
    BY <1>5, <1>6 DEF QueueInv, FrontLink, Cutting
  <1>8. FrontLink' /\ Progress' /\ BatchChained'
    <2>1. Len(order) \in Nat /\ 0 < Len(order)
      BY <1>5, SeqFacts DEF QueueInv, Typed
    <2> QED
      BY <1>3, <1>6, <1>7, <2>1
      DEF FrontLink, Progress, BatchChained, Walking, Cutting, Swapped
  <1> QED
    BY <1>2, <1>4, <1>8 DEF QueueInv

LEMMA WalkInv ==
    ASSUME QueueInv, Walk
    PROVE  QueueInv'
  <1> USE DEF Walk
  <1> DEFINE item == next[con.first]
  <1>0. /\ con.n \in Nat /\ Len(order) \in Nat /\ con.n < Len(order)
        /\ con.first = order[con.n + 1] /\ con.first \in Nodes
        /\ item \in Nodes \cup {Null}
    BY SeqFacts DEF QueueInv, Typed, Pops, Progress, Walking, Pointers
  <1>1. Typed'
    <2>1. con' \in Pops
      <3>1. con \in Pops /\ item \in Nodes \cup {Null} /\ {"last", "advance"} \subseteq Pcs
        BY <1>0 DEF QueueInv, Typed, Pcs
      <3>2. CASE item = Null
        BY <3>1, <3>2 DEF Pops
      <3>3. CASE item # Null /\ con.op = "pop"
        BY <3>1, <3>3 DEF Pops
      <3>4. CASE item # Null /\ con.op # "pop"
        <4>1. con.n + 1 \in Nat
          BY <1>0
        <4>2. con' = [con EXCEPT !.first = item, !.n = con.n + 1]
          BY <3>4
        <4> QED
          BY <3>1, <3>4, <4>1, <4>2 DEF Pops
      <3> QED
        BY <3>2, <3>3, <3>4
    <2> QED
      BY <2>1 DEF QueueInv, Typed
  <1>2. con'.items = con.items
    BY DEF QueueInv, Typed, Pops
  <1>3. Disjoint' /\ BatchesLinked' /\ AtPlace' /\ Links'
    BY <1>2, ConsumerOnly
  <1>4. item # Null => con.n + 1 < Len(order) /\ item = order[con.n + 2]
    BY LinkLeadsOn DEF Walking
  <1>5. FrontLink' /\ Progress' /\ BatchChained'
    <2>1. CASE item = Null
      BY <2>1, <1>0 DEF QueueInv, Typed, Pops, FrontLink, Progress, BatchChained, Walking, Cutting, Swapped
    <2>2. CASE item # Null /\ con.op = "pop"
      <3>1. con' = [con EXCEPT !.pc = "advance", !.nxt = item]
        BY <2>2
      <3> QED
        BY <3>1, <2>2, <1>0, <1>4
        DEF QueueInv, Typed, Pops, FrontLink, Progress, BatchChained, Walking, Cutting, Swapped
    <2>3. CASE item # Null /\ con.op # "pop"
      <3>1. con' = [con EXCEPT !.first = item, !.n = @ + 1]
        BY <2>3
      <3>2. \A i \in 1..con.n + 1 : next[order[i]] = order[i + 1]
        <4> SUFFICES ASSUME NEW i \in 1..con.n + 1 PROVE next[order[i]] = order[i + 1]
          OBVIOUS
        <4>1. CASE i = con.n + 1
          BY <4>1, <1>0, <1>4, <2>3
        <4>2. CASE i # con.n + 1
          <5>1. i \in 1..con.n
            BY <4>2, <1>0
          <5> QED
            BY <5>1 DEF QueueInv, Progress, Walking
        <4> QED
          BY <4>1, <4>2
      <3> QED
        BY <3>1, <3>2, <2>3, <1>0, <1>4
        DEF QueueInv, Typed, Pops, FrontLink, Progress, BatchChained, Walking, Cutting, Swapped
    <2> QED
      BY <2>1, <2>2, <2>3
  <1> QED
    BY <1>1, <1>3, <1>5 DEF QueueInv

LEMMA LastInv ==
    ASSUME QueueInv, Last
    PROVE  QueueInv'
  <1> USE DEF Last
  <1>0. con \in Pops /\ con.pc = "last" /\ con.items = <<>>
    BY DEF QueueInv, Typed, Progress
  <1>1. \/ con' = [con EXCEPT !.pc = "clear"]
        \/ con' = NoPop
        \/ con' = [con EXCEPT !.pc = "stop"]
    OBVIOUS
  <1>2. con' \in Pops /\ con'.items = <<>>
    BY <1>0, <1>1, NoneTyped DEF Pops, Pcs, NoPop
  <1>3. Typed'
    BY <1>2 DEF QueueInv, Typed
  <1>4. Disjoint' /\ BatchesLinked' /\ AtPlace' /\ Links'
    BY <1>2, ConsumerOnly
  <1>5. FrontLink' /\ Progress' /\ BatchChained'
    <2>1. CASE con' = NoPop
      BY <2>1, <1>0
      DEF QueueInv, NoPop, FrontLink, Progress, BatchChained, Walking, Cutting, Swapped
    <2>2. CASE con' # NoPop
      <3>1. /\ con'.pc \in {"clear", "stop"} /\ con'.op = con.op /\ con'.first = con.first
            /\ con'.front = con.front /\ con'.n = con.n
        BY <2>2, <1>1, <1>0 DEF Pops
      <3> QED
        BY <3>1, <1>0, <1>2
        DEF QueueInv, FrontLink, Progress, BatchChained, Walking, Cutting, Swapped
    <2> QED
      BY <2>1, <2>2
  <1> QED
    BY <1>3, <1>4, <1>5 DEF QueueInv

LEMMA SpinInv ==
    ASSUME QueueInv, Spin
    PROVE  QueueInv'
  <1> USE DEF Spin
  <1>0. con \in Pops /\ con.pc = "spin" /\ con.items = <<>> /\ Cutting
    BY DEF QueueInv, Typed, Progress, Cutting
  <1>1. /\ con'.pc = "advance" /\ con'.op = con.op /\ con'.first = con.first
        /\ con'.front = con.front /\ con'.n = con.n /\ con'.items = con.items
        /\ con'.nxt = next[con.first]
    BY <1>0 DEF Pops
  <1>2. con.n + 1 < Len(order) /\ next[con.first] = order[con.n + 2]
    BY <1>0, LinkLeadsOn
  <1>3. Typed'
    <2>1. con.first = order[con.n + 1] /\ con.n < Len(order) /\ con.n \in Nat
      BY <1>0 DEF QueueInv, Progress, Pops
    <2>2. con.first \in Pointers
      BY <2>1, SeqFacts DEF QueueInv, Typed, Pointers
    <2>3. next[con.first] \in Nodes \cup {Null}
      BY <2>2 DEF QueueInv, Typed
    <2>4. con' \in Pops
      BY <1>0, <2>3 DEF Pops, Pcs
    <2> QED
      BY <2>4 DEF QueueInv, Typed
  <1>4. Disjoint' /\ BatchesLinked' /\ AtPlace' /\ Links'
    BY <1>1, ConsumerOnly
  <1>5. FrontLink' /\ Progress' /\ BatchChained'
    BY <1>0, <1>1, <1>2
    DEF QueueInv, FrontLink, Progress, BatchChained, Walking, Cutting, Swapped
  <1> QED
    BY <1>3, <1>4, <1>5 DEF QueueInv

LEMMA SubtractInv ==
    ASSUME QueueInv, Subtract
    PROVE  QueueInv'
  <1> USE DEF Subtract
  <1>0. con \in Pops /\ con.pc = "subtract"
    BY DEF QueueInv, Typed
  <1>1. CASE con.n = 0
    <2>1. con' = NoPop
      BY <1>1
    <2>2. Typed'
      BY <2>1, NoneTyped DEF QueueInv, Typed
    <2>3. Disjoint' /\ BatchesLinked' /\ AtPlace' /\ Links'
      BY <2>1, ConsumerOnly DEF NoPop
    <2>4. FrontLink' /\ Progress' /\ BatchChained'
      BY <2>1, <1>0
      DEF QueueInv, NoPop, FrontLink, Progress, BatchChained, Walking, Cutting, Swapped
    <2> QED
      BY <2>2, <2>3, <2>4 DEF QueueInv
  <1>2. CASE con.n # 0
    <2>1. /\ con' \in Pops
          /\ con'.pc = "iterate" /\ con'.op = con.op /\ con'.front = con.front
          /\ con'.n = con.n /\ con'.items = con.items
      BY <1>0, <1>2 DEF Pops, Pcs
    <2>2. Disjoint' /\ BatchesLinked' /\ AtPlace' /\ Links'
      BY <2>1, ConsumerOnly
    <2>3. Typed'
      BY <2>1 DEF QueueInv, Typed
    <2>4. con.n > 0
      BY <1>0, <1>2 DEF Pops
    <2>5. FrontLink' /\ Progress' /\ BatchChained'
      BY <2>1, <2>4, <1>0
      DEF QueueInv, FrontLink, Progress, BatchChained, Walking, Cutting, Swapped
    <2> QED
      BY <2>2, <2>3, <2>5 DEF QueueInv
  <1> QED
    BY <1>1, <1>2

LEMMA IterateInv ==
    ASSUME QueueInv, Iterate
    PROVE  QueueInv'
  <1> USE DEF Iterate
  <1>0. con \in Pops /\ con.pc = "iterate" /\ con.n \in Nat /\ con.items \in Seq(Nodes)
    BY DEF QueueInv, Typed, Pops
  <1>1. CASE con' = NoPop
    <2>1. Typed'
      BY <1>1, NoneTyped DEF QueueInv, Typed
    <2>2. Disjoint' /\ BatchesLinked' /\ AtPlace' /\ Links'
      <3>1. con'.items = <<>>
        BY <1>1, NoneTaken
      <3> QED
        BY <3>1, ConsumerOnly
    <2>3. FrontLink' /\ Progress' /\ BatchChained'
      BY SMTT(60), <1>1, <1>0
      DEF QueueInv, NoPop, FrontLink, Progress, BatchChained, Walking, Cutting, Swapped
    <2> QED
      BY <2>1, <2>2, <2>3 DEF QueueInv
  <1>2. CASE con.n > 1
    <2>1. /\ con.n = Len(con.items) /\ con.front = con.items[1]
          /\ next[con.items[1]] = con.items[2]
          /\ \A i \in 1..con.n - 1 : next[con.items[i]] = con.items[i + 1]
      BY <1>0, <1>2 DEF QueueInv, BatchChained
    <2>2. /\ con'.pc = "iterate" /\ con'.op = con.op /\ con'.front = con.items[2]
          /\ con'.n = con.n - 1 /\ con'.items = Tail(con.items)
      BY <1>0, <1>2, <2>1 DEF Pops
    <2>3. /\ Tail(con.items) \in Seq(Nodes) /\ Len(Tail(con.items)) = con.n - 1
          /\ con.items # <<>> /\ con.n - 1 \in Nat
          /\ \A i \in 1..con.n - 1 : Tail(con.items)[i] = con.items[i + 1]
      BY <1>0, <1>2, <2>1
    <2>4. Typed'
      <3>1. con.items[2] \in Nodes
        BY <1>0, <1>2, <2>1
      <3>2. con' = [con EXCEPT !.front = con.items[2], !.n = con.n - 1,
                               !.items = Tail(con.items)]
        BY <1>0, <1>2, <2>1
      <3>3. con' \in Pops
        BY <1>0, <2>3, <3>1, <3>2 DEF Pops
      <3> QED
        BY <3>3 DEF QueueInv, Typed
    <2>5. Disjoint' /\ BatchesLinked' /\ AtPlace' /\ Links'
      BY <2>2, <2>3, ConsumerOnly
    <2>6. BatchChained'
      <3>1. con'.n = Len(con'.items) /\ con'.front = con'.items[1]
        BY <1>0, <1>2, <2>1, <2>2, <2>3
      <3>2. ASSUME NEW i \in 1..con'.n - 1
            PROVE  next'[con'.items[i]] = con'.items[i + 1]
        <4>1. i \in 1..con.n - 1 /\ i + 1 \in 1..con.n - 1
          BY <1>0, <2>2
        <4>2. con'.items[i] = con.items[i + 1] /\ con'.items[i + 1] = con.items[i + 2]
          BY <4>1, <2>2, <2>3, <1>0
        <4>3. next[con.items[i + 1]] = con.items[i + 2]
          BY <4>1, <2>1, <1>0
        <4> QED
          BY <4>2, <4>3
      <3> QED
        BY <3>1, <3>2 DEF BatchChained
    <2>7. FrontLink' /\ Progress'
      <3>1. con'.n > 0
        BY <2>2, <1>0, <1>2
      <3> QED
        BY <2>2, <1>0, <3>1 DEF QueueInv, FrontLink, Progress, Walking, Cutting, Swapped
    <2> QED
      BY <2>4, <2>5, <2>6, <2>7 DEF QueueInv
  <1>3. con.n = 1 \/ con.n > 1
    BY <1>0 DEF QueueInv, Progress
  <1>4. CASE con.n = 1
    BY <1>1, <1>4
  <1> QED
    BY <1>2, <1>3, <1>4

-----------------------------------------------------------------------------
(* The steps of the consumer that write.                                   *)

LEMMA OrderFacts ==
    ASSUME QueueInv
    PROVE  /\ Len(order) \in Nat /\ DOMAIN order = 1..Len(order)
           /\ \A i \in 1..Len(order) : order[i] \in Nodes
           /\ \A i, j \in 1..Len(order) : order[i] = order[j] => i = j
           /\ \A t \in Threads : pushing[t] \in Pushes
           /\ \A t, i : t \in Threads /\ i \in DOMAIN pushing[t].batch =>
                pushing[t].batch[i] \in Nodes
           /\ con \in Pops
  <1>1. order \in Seq(Nodes) /\ con \in Pops /\ \A t \in Threads : pushing[t] \in Pushes
    BY DEF QueueInv, Typed
  <1>2. \A t \in Threads : pushing[t].batch \in Seq(Nodes)
    BY <1>1 DEF Pushes
  <1>3. \A t, i : t \in Threads /\ i \in DOMAIN pushing[t].batch =>
           pushing[t].batch[i] \in Nodes
    BY <1>2
  <1> QED
    BY <1>1, <1>3, SeqFacts DEF QueueInv, Disjoint, Injective

\* No push writes to an item that the consumer has found a link in.
LEMMA NotBehind ==
    ASSUME QueueInv, Walking \/ Cutting, NEW t \in Threads, Swapped(t)
    PROVE  \E i \in con.n + 2..Len(order) :
              pushing[t].batch[1] = order[i] /\ pushing[t].old = order[i - 1]
  <1>0. /\ con.n \in Nat /\ con.n < Len(order)
        /\ \A i \in 1..con.n : next[order[i]] = order[i + 1]
        /\ pushing[t].old # Front
    BY OrderFacts DEF QueueInv, Progress, Pops
  <1>1. PICK i \in DOMAIN order :
          pushing[t].batch[1] = order[i] /\ pushing[t].old = Before(i)
    BY DEF QueueInv, AtPlace
  <1>2. i \in 1..Len(order) /\ i # 1 /\ pushing[t].old = order[i - 1]
    BY <1>0, <1>1, OrderFacts DEF Before
  <1>3. ~(i - 1 \in 1..con.n)
    <2> SUFFICES ASSUME i - 1 \in 1..con.n PROVE FALSE
      OBVIOUS
    <2>1. next[order[i - 1]] = order[i]
      BY <1>0, <1>2, OrderFacts
    <2>2. order[i] \in Nodes /\ next[pushing[t].old] = Null
      BY <1>2, OrderFacts DEF QueueInv, AtPlace
    <2> QED
      BY <1>2, <2>1, <2>2, QueueAssumption
  <1>4. i \in con.n + 2..Len(order)
    BY <1>0, <1>2, <1>3, OrderFacts
  <1> QED
    BY <1>1, <1>2, <1>4

LEMMA ClearInv ==
    ASSUME QueueInv, Clear
    PROVE  QueueInv'
  <1> USE DEF Clear
  <1>0. con \in Pops /\ con.pc = "clear" /\ con.items = <<>> /\ Walking
        /\ con.n \in Nat /\ con.n < Len(order) /\ next \in [Pointers -> Nodes \cup {Null}]
    BY DEF QueueInv, Typed, Progress, Walking, Pops
  <1>1. /\ con' \in Pops /\ con'.pc = "swap" /\ con'.op = con.op /\ con'.first = con.first
        /\ con'.front = con.front /\ con'.n = con.n /\ con'.items = con.items
    BY <1>0 DEF Pops, Pcs
  <1>2. /\ next' \in [Pointers -> Nodes \cup {Null}] /\ next'[Front] = Null
        /\ \A p \in Nodes : next'[p] = next[p]
    BY <1>0, QueueAssumption DEF Pointers
  <1>3. Typed'
    BY <1>1, <1>2 DEF QueueInv, Typed
  <1>4. Disjoint'
    BY <1>0, <1>1, DisjointKept DEF QueueInv, Disjoint
  <1>5. BatchesLinked'
    <2>1. \A t \in Threads : \A i \in 1..Len(pushing[t].batch) :
             next'[pushing[t].batch[i]] = next[pushing[t].batch[i]]
      BY <1>2, OrderFacts, SeqFacts DEF Pushes
    <2>2. \A t \in Threads : Len(pushing[t].batch) \in Nat /\
             (pushing[t].pc = "counted" => 0 < Len(pushing[t].batch))
      BY OrderFacts, SeqFacts DEF QueueInv, BatchesLinked, Pushes
    <2> QED
      BY <2>1, <2>2 DEF QueueInv, BatchesLinked
  <1>6. AtPlace'
    <2> SUFFICES ASSUME NEW t \in Threads, Swapped(t)
                 PROVE  /\ next'[pushing[t].old] = Null
                        /\ \E i \in DOMAIN order :
                             pushing[t].batch[1] = order[i] /\ pushing[t].old = Before(i)
      BY DEF AtPlace, Swapped, Before
    <2>1. next[pushing[t].old] = Null /\ pushing[t].old \in Pointers
      BY OrderFacts DEF QueueInv, AtPlace, Pushes
    <2> QED
      BY <2>1, <1>2 DEF QueueInv, AtPlace, Pointers
  <1>7. Links'
    <2>1. back \in Nodes /\ back' = back /\ next'[back] = Null
      BY <1>0, <1>2, OrderFacts DEF QueueInv, Links, Before
    <2>2. \A i \in 2..Len(order) : order[i - 1] \in Nodes
      BY OrderFacts
    <2>3. \A i \in 2..Len(order) : next'[order[i - 1]] = next[order[i - 1]]
      BY <2>2, <1>2
    <2> QED
      BY <2>1, <2>3 DEF QueueInv, Links, Before, Swapped
  <1>8. Progress'
    <2>1. \A i \in 1..con.n : next'[order[i]] = order[i + 1]
      BY <1>0, <1>2, OrderFacts DEF QueueInv, Progress
    <2> QED
      BY <1>0, <1>1, <2>1 DEF QueueInv, Progress, Walking, Cutting, Swapped
  <1>9. FrontLink' /\ BatchChained'
    BY <1>1, <1>2 DEF FrontLink, BatchChained, Walking, Cutting
  <1> QED
    BY <1>3, <1>4, <1>5, <1>6, <1>7, <1>8, <1>9 DEF QueueInv

\* Positions before and after the m oldest items have left.
LEMMA Moved ==
    ASSUME NEW L \in Nat, NEW m \in Nat, m < L
    PROVE  L - m \in 1..L - m /\ (L - m) + m = L
  OBVIOUS

LEMMA MovedOn ==
    ASSUME NEW L \in Nat, NEW m \in Nat, m < L, NEW i \in 2..L - m
    PROVE  /\ i + m \in 2..L /\ (i + m) - 1 \in 1..L /\ i \in 1..L - m
           /\ i - 1 \in 1..L - m /\ (i - 1) + m = (i + m) - 1
  OBVIOUS

LEMMA MovedBack ==
    ASSUME NEW L \in Nat, NEW n \in Nat, NEW m \in Nat, m = n \/ m = n + 1,
           NEW k \in n + 2..L
    PROVE  /\ k \in Nat /\ k = m + 1 => m \in 1..m /\ k - 1 = m
           /\ k # m + 1 => /\ k - m \in 2..L - m /\ k - m \in 1..L - m
                           /\ (k - m) + m = k /\ (k - m) - 1 \in 1..L - m
                           /\ ((k - m) - 1) + m = k - 1
  OBVIOUS

\* The m oldest items leave, and the stub leads to the one after them.
LEMMA TakeInv ==
    ASSUME QueueInv, Walking \/ Cutting, con.items = <<>>,
           NEW m \in Nat, m < Len(order), m = con.n \/ m = con.n + 1, Take(m),
           next' = [next EXCEPT ![Front] = order[m + 1]],
           \A i \in 1..m : next[order[i]] = order[i + 1],
           UNCHANGED <<back, pushing>>
    PROVE  QueueInv'
  <1> USE DEF Take
  <1> DEFINE L == Len(order)
  <1>a. /\ con \in Pops /\ order \in Seq(Nodes) /\ next \in [Pointers -> Nodes \cup {Null}]
        /\ con.front = order[1]
    BY DEF QueueInv, Typed, Progress
  <1>b. con.n \in Nat /\ L \in Nat
    BY <1>a, SeqFacts DEF Pops
  <1>c. m \in 0..L /\ m + 1 \in 1..L
    BY <1>b
  <1>0. /\ con \in Pops /\ con.n \in Nat /\ m \in 0..Len(order)
        /\ order \in Seq(Nodes) /\ next \in [Pointers -> Nodes \cup {Null}]
        /\ con.front = order[1] /\ m + 1 \in 1..Len(order)
    BY <1>a, <1>b, <1>c
  <1>p. /\ DOMAIN order = 1..L /\ \A i \in 1..L : order[i] \in Nodes
        /\ \A i, j \in 1..L : order[i] = order[j] => i = j
    BY OrderFacts
  <1> HIDE DEF L
  <1>1. /\ order' \in Seq(Nodes) /\ Len(order') = Len(order) - m
        /\ \A i \in 1..Len(order') : order'[i] = order[i + m]
    BY <1>0, Suffix
  <1> DEFINE M == Len(order')
  <1>d. M = L - m /\ M \in Nat /\ 0 < M
    BY <1>1, <1>b, <1>c DEF L
  <1> HIDE DEF M
  <1>e. Len(order') = M /\ Len(order) = L /\ m < L
    BY <1>c, <1>b DEF L, M
  <1>2. LET r == SubSeq(order, 1, m)
        IN  r \in Seq(Nodes) /\ Len(r) = m /\ \A i \in 1..m : r[i] = order[i]
    BY <1>0, Prefix
  <1>3. /\ con' \in Pops /\ con'.pc = "subtract" /\ con'.op = con.op /\ con'.n = m
        /\ con'.front = order[1] /\ con'.items = SubSeq(order, 1, m)
    BY <1>0, <1>2 DEF Pops, Pcs
  <1>4. /\ next' \in [Pointers -> Nodes \cup {Null}] /\ next'[Front] = order[m + 1]
        /\ \A p \in Nodes : next'[p] = next[p]
    <2>1. order[m + 1] \in Nodes
      BY <1>c, <1>p
    <2> QED
      BY <2>1, <1>a, QueueAssumption DEF Pointers
  <1>5. Typed'
    BY <1>1, <1>3, <1>4 DEF QueueInv, Typed
  <1>6. /\ DOMAIN order' = 1..Len(order') /\ Len(order') \in Nat
        /\ \A i \in DOMAIN order' : i + m \in DOMAIN order /\ order'[i] = order[i + m]
                                    /\ i \in Nat
        /\ \A j \in DOMAIN con'.items : /\ j \in DOMAIN order /\ con'.items[j] = order[j]
                                        /\ j \in 1..m
    <2>1. DOMAIN order' = 1..M
      BY <1>1, SeqFacts DEF M
    <2>2. \A i \in 1..M : i + m \in 1..L /\ i \in Nat
      BY <1>b, <1>d
    <2>3. DOMAIN con'.items = 1..m
      BY <1>2, <1>3, SeqFacts
    <2>4. \A j \in 1..m : j \in 1..L /\ con'.items[j] = order[j]
      BY <1>2, <1>3, <1>b, <1>c
    <2> QED
      BY <2>1, <2>2, <2>3, <2>4, <1>1, <1>d, <1>p DEF M
  <1>7. Disjoint'
    <2>1. Injective(order') /\ Injective(con'.items)
      <3>1. \A i, j \in DOMAIN order' : i + m = j + m => i = j
        BY <1>6
      <3> QED
        BY SMTT(60), <3>1, <1>6, <1>p DEF Injective
    <2>2. \A i \in DOMAIN order', j \in DOMAIN con'.items : order'[i] # con'.items[j]
      <3> SUFFICES ASSUME NEW i \in DOMAIN order', NEW j \in DOMAIN con'.items
                   PROVE  order'[i] # con'.items[j]
        OBVIOUS
      <3>1. i + m # j
        BY <1>0, <1>6
      <3> QED
        BY <3>1, <1>6, <1>p
    <2>3. ASSUME NEW t \in Threads, pushing'[t].pc = "counted",
                 NEW i \in DOMAIN pushing'[t].batch
          PROVE  /\ \A j \in DOMAIN order' : pushing'[t].batch[i] # order'[j]
                 /\ \A j \in DOMAIN con'.items : pushing'[t].batch[i] # con'.items[j]
      <3>1. \A j \in DOMAIN order : pushing[t].batch[i] # order[j]
        BY <2>3 DEF QueueInv, Disjoint
      <3> QED
        BY <3>1, <1>6
    <2>4. /\ \A t \in Threads : Injective(pushing'[t].batch)
          /\ \A t, u \in Threads : t # u =>
               \A i \in DOMAIN pushing'[t].batch, j \in DOMAIN pushing'[u].batch :
                  pushing'[t].batch[i] # pushing'[u].batch[j]
      BY DEF QueueInv, Disjoint
    <2> QED
      BY <2>1, <2>2, <2>3, <2>4 DEF Disjoint, Injective
  <1>8. BatchesLinked'
    <2>1. \A t \in Threads : \A i \in 1..Len(pushing[t].batch) :
             next'[pushing[t].batch[i]] = next[pushing[t].batch[i]]
      BY <1>4, OrderFacts, SeqFacts DEF Pushes
    <2>2. \A t \in Threads : Len(pushing[t].batch) \in Nat /\
             (pushing[t].pc = "counted" => 0 < Len(pushing[t].batch))
      BY OrderFacts, SeqFacts DEF QueueInv, BatchesLinked, Pushes
    <2>3. BatchesLinked
      BY DEF QueueInv
    <2>4. \A t \in Threads : pushing'[t] = pushing[t]
      OBVIOUS
    <2> SUFFICES ASSUME NEW t \in Threads
                 PROVE  /\ pushing[t].pc = "idle" <=> pushing[t].batch = <<>>
                        /\ pushing[t].pc = "counted" =>
                             /\ \A i \in 1..Len(pushing[t].batch) - 1 :
                                  next'[pushing[t].batch[i]] = pushing[t].batch[i + 1]
                             /\ next'[pushing[t].batch[Len(pushing[t].batch)]] = Null
      BY <2>4 DEF BatchesLinked
    <2> DEFINE b == pushing[t].batch
    <2> DEFINE l == Len(b)
    <2>5. l \in Nat /\ (pushing[t].pc = "counted" => l \in 1..l)
      BY <2>2
    <2>6. \A i \in 1..l : next'[b[i]] = next[b[i]]
      BY <2>1
    <2>7. \A i \in 1..l - 1 : i \in 1..l
      BY <2>5
    <2> QED
      BY <2>3, <2>5, <2>6, <2>7 DEF BatchesLinked
  <1>9. ASSUME NEW t \in Threads, Swapped(t)
        PROVE  \E i \in 2..Len(order') :
                  /\ pushing[t].batch[1] = order'[i] /\ pushing[t].old = order'[i - 1]
                  /\ i \in DOMAIN order'
    <2>1. PICK k \in con.n + 2..Len(order) :
            pushing[t].batch[1] = order[k] /\ pushing[t].old = order[k - 1]
      BY <1>9, NotBehind
    <2>2. k # m + 1
      <3> SUFFICES ASSUME k = m + 1 PROVE FALSE
        OBVIOUS
      <3>0. k \in con.n + 2..L
        BY <2>1, <1>e
      <3>0a. m \in 1..m /\ k - 1 = m
        BY <3>0, <1>b, MovedBack
      <3>1. next[order[m]] = order[m + 1] /\ pushing[t].old = order[m]
        BY <2>1, <3>0a
      <3>2. next[pushing[t].old] = Null
        BY <1>9 DEF QueueInv, AtPlace
      <3> QED
        BY <3>1, <3>2, <1>c, <1>p, QueueAssumption
    <2>3. /\ k - m \in 2..Len(order') /\ k - m \in 1..Len(order')
          /\ (k - m) + m = k /\ (k - m) - 1 \in 1..Len(order')
          /\ ((k - m) - 1) + m = k - 1
      <3>1. k \in con.n + 2..L
        BY <2>1, <1>e
      <3>2. /\ k - m \in 2..L - m /\ k - m \in 1..L - m
            /\ (k - m) + m = k /\ (k - m) - 1 \in 1..L - m
            /\ ((k - m) - 1) + m = k - 1
        BY <3>1, <2>2, <1>b, MovedBack
      <3> QED
        BY <3>2, <1>d, <1>e
    <2>4. order'[k - m] = order[k] /\ order'[(k - m) - 1] = order[k - 1]
      <3>2. order'[k - m] = order[(k - m) + m]
        BY <2>3, <1>1
      <3>3. order'[(k - m) - 1] = order[((k - m) - 1) + m]
        BY <2>3, <1>1
      <3> QED
        BY <3>2, <3>3, <2>3
    <2> DEFINE j == k - m
    <2>5. j \in 2..Len(order') /\ j \in DOMAIN order'
      BY <2>3, <1>6
    <2>6. pushing[t].batch[1] = order'[j] /\ pushing[t].old = order'[j - 1]
      BY <2>1, <2>4
    <2> HIDE DEF j
    <2> QED
      BY <2>5, <2>6
  <1>10. AtPlace'
    <2> SUFFICES ASSUME NEW t \in Threads, Swapped(t)
                 PROVE  /\ next'[pushing[t].old] = Null
                        /\ \E i \in DOMAIN order' :
                             /\ pushing[t].batch[1] = order'[i]
                             /\ pushing[t].old = IF i = 1 THEN Front ELSE order'[i - 1]
      BY DEF AtPlace, Swapped, Before
    <2>1. next[pushing[t].old] = Null
      BY DEF QueueInv, AtPlace
    <2>2. PICK i \in 2..Len(order') : /\ pushing[t].batch[1] = order'[i]
                                     /\ pushing[t].old = order'[i - 1]
                                     /\ i \in DOMAIN order'
      BY <1>9
    <2>3. pushing[t].old \in Nodes
      <3>1. i - 1 \in 1..M /\ i \in Nat /\ i # 1
        BY <1>d DEF M
      <3>2. order'[i - 1] \in Nodes
        BY <3>1, <1>1, SeqFacts DEF M
      <3> QED
        BY <3>2, <2>2
    <2>4. next'[pushing[t].old] = Null
      BY <2>1, <2>3, <1>4
    <2>5. i \in DOMAIN order' /\ i # 1
      BY <2>2, <1>d DEF M
    <2> QED
      BY <2>2, <2>4, <2>5
  <1>11. Links'
    <2>1. back' = IF Len(order') + 1 = 1 THEN Front ELSE order'[Len(order') + 1 - 1]
      <3>1. back = order[Len(order)]
        <4>1. Len(order) + 1 # 1 /\ Len(order) + 1 - 1 = Len(order)
          BY <1>b, <1>c DEF L
        <4> QED
          BY <4>1 DEF QueueInv, Links, Before
      <3>2. order'[Len(order')] = order[Len(order)] /\ Len(order') # 0
        <4>1. M \in 1..M /\ M + m = L
          BY <1>b, <1>d, <1>e, Moved
        <4>2. order'[M] = order[M + m]
          BY <4>1, <1>1, <1>e
        <4> QED
          BY <4>1, <4>2, <1>d, <1>e
      <3>3. Len(order') + 1 # 1 /\ Len(order') + 1 - 1 = Len(order')
        BY <1>d DEF M
      <3> QED
        BY <3>1, <3>2, <3>3
    <2>2. next'[back'] = Null
      <3>1. back \in Nodes
        <4>1. Len(order) + 1 # 1 /\ Len(order) + 1 - 1 \in 1..L
          BY <1>b, <1>c DEF L
        <4> QED
          BY <4>1, <1>p DEF QueueInv, Links, Before
      <3> QED
        BY <3>1, <1>4 DEF QueueInv, Links
    <2>3. ASSUME NEW i \in 2..Len(order')
          PROVE  \/ next'[order'[i - 1]] = order'[i]
                 \/ \E t \in Threads : Swapped(t) /\ pushing[t].old = order'[i - 1]
                                       /\ pushing[t].batch[1] = order'[i]
      <3> DEFINE k == i + m
      <3>1. /\ k \in 2..Len(order) /\ order'[i] = order[k] /\ order'[i - 1] = order[k - 1]
            /\ k - 1 \in 1..L
        <4>1. i \in 2..L - m
          BY <1>d, <1>e
        <4>2. /\ k \in 2..L /\ i \in 1..L - m /\ i - 1 \in 1..L - m
              /\ (i - 1) + m = k - 1 /\ k - 1 \in 1..L
          BY <4>1, <1>b, <1>e, MovedOn
        <4>3. order'[i] = order[i + m] /\ order'[i - 1] = order[(i - 1) + m]
          BY <4>2, <1>1, <1>d, <1>e
        <4> QED
          BY <4>2, <4>3, <1>e
      <3>2. order[k - 1] \in Nodes
        BY <3>1, <1>p
      <3>3. \/ next[order[k - 1]] = order[k]
            \/ \E t \in Threads : Swapped(t) /\ pushing[t].old = order[k - 1]
                                  /\ pushing[t].batch[1] = order[k]
        BY <3>1 DEF QueueInv, Links
      <3> QED
        <4>1. next'[order[k - 1]] = next[order[k - 1]]
          BY <3>2, <1>4
        <4>2. k = i + m
          OBVIOUS
        <4> HIDE DEF k
        <4> QED
          BY <3>1, <3>3, <4>1
    <2>4. \A i \in 2..Len(order') :
             \/ next'[order'[i - 1]] = order'[i]
             \/ \E t \in Threads : Swapped(t)' /\ pushing'[t].old = order'[i - 1]
                                   /\ pushing'[t].batch[1] = order'[i]
      BY <2>3 DEF Swapped
    <2> HIDE DEF Take
    <2>5. (back = Before(Len(order) + 1))'
      BY ONLY <2>1 DEF Before
    <2> QED
      BY <2>2, <2>4, <2>5 DEF Links
  <1>12. FrontLink'
    <2>1. order'[1] = order[m + 1]
      <3>1. 1 \in 1..M /\ 1 + m = m + 1
        BY <1>d
      <3> QED
        BY <3>1, <1>1 DEF M
    <2> QED
      BY <2>1, <1>3, <1>4 DEF FrontLink, Walking, Cutting
  <1>13. Progress'
    BY <1>3 DEF Progress, Walking, Cutting
  <1>14. BatchChained'
    <2>1. m > 0 => con'.front = con'.items[1] /\ con'.n = Len(con'.items)
      <3>1. m > 0 => 1 \in 1..m
        OBVIOUS
      <3> QED
        BY <3>1, <1>2, <1>3
    <2>2. ASSUME NEW i \in 1..m - 1 PROVE next'[con'.items[i]] = con'.items[i + 1]
      <3>1. i \in 1..m /\ i + 1 \in 1..m /\ order[i] \in Nodes
        <4>1. i \in 1..m /\ i + 1 \in 1..m /\ i \in 1..L
          BY <1>b, <1>c
        <4> QED
          BY <4>1, <1>p
      <3>2. con'.items[i] = order[i] /\ con'.items[i + 1] = order[i + 1]
        BY <3>1, <1>2, <1>3
      <3> QED
        BY <3>1, <3>2, <1>4
    <2> QED
      BY <2>1, <2>2, <1>3 DEF BatchChained
  <1> QED
    BY <1>5, <1>7, <1>8, <1>10, <1>11, <1>12, <1>13, <1>14 DEF QueueInv

LEMMA StopInv ==
    ASSUME QueueInv, Stop
    PROVE  QueueInv'
  <1> USE DEF Stop
  <1>1. Walking /\ con.items = <<>> /\ con.n \in Nat
    BY DEF QueueInv, Typed, Pops, Progress, Walking
  <1>2. /\ con.n < Len(order) /\ con.first = order[con.n + 1]
        /\ \A i \in 1..con.n : next[order[i]] = order[i + 1]
    BY <1>1 DEF QueueInv, Progress
  <1> QED
    BY <1>1, <1>2, TakeInv

LEMMA AdvanceInv ==
    ASSUME QueueInv, Advance
    PROVE  QueueInv'
  <1> USE DEF Advance
  <1>1. Cutting /\ con.items = <<>> /\ con.n \in Nat /\ con.pc = "advance"
    BY DEF QueueInv, Typed, Pops, Progress, Cutting
  <1> DEFINE m == con.n + 1
  <1>2. m \in Nat /\ m < Len(order) /\ con.nxt = order[m + 1]
    BY <1>1 DEF QueueInv, Progress
  <1>3. next[order[m]] = order[m + 1]
    BY <1>1, <1>2 DEF QueueInv, Progress
  <1>4. \A i \in 1..m : next[order[i]] = order[i + 1]
    <2> SUFFICES ASSUME NEW i \in 1..m PROVE next[order[i]] = order[i + 1]
      OBVIOUS
    <2>1. i = m \/ i \in 1..con.n
      BY <1>1
    <2>2. CASE i \in 1..con.n
      BY <1>1, <2>2 DEF QueueInv, Progress
    <2> QED
      BY <1>3, <2>1, <2>2
  <1>5. /\ Take(m) /\ next' = [next EXCEPT ![Front] = order[m + 1]]
        /\ UNCHANGED <<back, pushing>>
    BY <1>2
  <1>6. m = con.n \/ m = con.n + 1
    OBVIOUS
  <1> HIDE DEF m
  <1> QED
    BY <1>1, <1>2, <1>4, <1>5, <1>6, TakeInv

LEMMA SwapBackInv ==
    ASSUME QueueInv, SwapBack
    PROVE  QueueInv'
  <1> USE DEF SwapBack
  <1> DEFINE L == Len(order)
  <1>0. /\ con \in Pops /\ con.pc = "swap" /\ Cutting /\ con.items = <<>>
        /\ con.n \in Nat /\ L \in Nat /\ con.n < L /\ con.first = order[con.n + 1]
        /\ con.front = order[1] /\ order \in Seq(Nodes)
    BY SeqFacts DEF QueueInv, Typed, Pops, Progress, Cutting
  <1>1. back = order[L]
    <2>1. L + 1 # 1 /\ (L + 1) - 1 = L
      BY <1>0
    <2> QED
      BY <2>1 DEF QueueInv, Links, Before
  <1>2. CASE back # con.first
    <2>1. /\ con'.pc = "spin" /\ con'.op = con.op /\ con'.first = con.first
          /\ con'.front = con.front /\ con'.n = con.n /\ con'.items = con.items
          /\ con' \in Pops /\ UNCHANGED <<next, back, pushing, order>>
      BY <1>0, <1>2 DEF Pops, Pcs
    <2>2. Typed' /\ Disjoint' /\ BatchesLinked' /\ AtPlace' /\ Links'
      BY <2>1, ConsumerOnly DEF QueueInv, Typed
    <2>3. con.n + 1 < L
      BY <1>0, <1>1, <1>2
    <2>4. FrontLink' /\ Progress' /\ BatchChained'
      BY <2>1, <2>3, <1>0
      DEF QueueInv, FrontLink, Progress, BatchChained, Walking, Cutting, Swapped
    <2> QED
      BY <2>2, <2>4 DEF QueueInv
  <1>3. CASE back = con.first
    <2> DEFINE m == con.n + 1
    <2>1. m = L /\ m \in 1..L
      <3>1. m \in 1..L /\ L \in 1..L /\ order[m] = order[L]
        BY <1>0, <1>1, <1>3
      <3> QED
        BY <3>1, OrderFacts
    <2>2. Take(m) /\ back' = Front /\ UNCHANGED <<next, pushing>>
      BY <1>3
    <2>3. order' = <<>>
      <3>0. order' = SubSeq(order, (con.n + 1) + 1, Len(order))
        BY <1>3 DEF Take
      <3>1. L \in 0..L /\ con.n + 1 = L
        BY <2>1, <1>0
      <3>2. order' = SubSeq(order, L + 1, Len(order))
        BY ONLY <3>0, <3>1
      <3>3. order' \in Seq(Nodes) /\ Len(order') = L - L
        BY <3>1, <3>2, <1>0, Suffix
      <3> QED
        BY <3>3, <1>0
    <2>4. LET r == SubSeq(order, 1, m)
          IN  r \in Seq(Nodes) /\ Len(r) = m /\ \A i \in 1..m : r[i] = order[i]
      BY <1>0, <2>1, Prefix
    <2>5. /\ con' \in Pops /\ con'.pc = "subtract" /\ con'.op = con.op /\ con'.n = m
          /\ con'.front = order[1] /\ con'.items = SubSeq(order, 1, m)
      BY <1>0, <2>1, <2>2, <2>4 DEF Pops, Pcs, Take
    <2>6. \A j \in DOMAIN con'.items : j \in 1..L /\ con'.items[j] = order[j]
      BY <2>1, <2>4, <2>5, SeqFacts
    <2>7. DOMAIN order' = {} /\ Len(order') = 0
      BY <2>3
    <2>8. Typed'
      BY <2>2, <2>3, <2>5 DEF QueueInv, Typed, Pointers
    <2>9. Disjoint'
      <3>1. Injective(order') /\ Injective(con'.items)
        BY <2>6, <2>7, OrderFacts DEF Injective
      <3>2. ASSUME NEW t \in Threads, pushing'[t].pc = "counted",
                   NEW i \in DOMAIN pushing'[t].batch
            PROVE  \A j \in DOMAIN con'.items : pushing'[t].batch[i] # con'.items[j]
        <4>1. \A j \in DOMAIN order : pushing[t].batch[i] # order[j]
          BY <2>2, <3>2 DEF QueueInv, Disjoint
        <4> QED
          BY <4>1, <2>2, <2>6, OrderFacts
      <3>3. /\ \A t \in Threads : Injective(pushing'[t].batch)
            /\ \A t, u \in Threads : t # u =>
                 \A i \in DOMAIN pushing'[t].batch, j \in DOMAIN pushing'[u].batch :
                    pushing'[t].batch[i] # pushing'[u].batch[j]
        BY <2>2 DEF QueueInv, Disjoint
      <3> QED
        BY <3>1, <3>2, <3>3, <2>7 DEF Disjoint, Injective
    <2>10. BatchesLinked'
      BY <2>2 DEF QueueInv, BatchesLinked
    <2>11. \A t \in Threads : ~Swapped(t)
      <3>1. con.n + 2..Len(order) = {}
        BY <1>0, <2>1
      <3> QED
        BY <3>1, <1>0, NotBehind
    <2>12. AtPlace'
      BY <2>2, <2>11 DEF AtPlace, Swapped
    <2>13. Links'
      <3>1. next[Front] = Null
        BY <1>0 DEF QueueInv, FrontLink
      <3>2. (back = Before(Len(order) + 1))'
        BY <2>2, <2>7 DEF Before
      <3> QED
        BY <3>1, <3>2, <2>2, <2>7 DEF Links
    <2>14. FrontLink' /\ Progress'
      BY <2>3, <2>5 DEF FrontLink, Progress, Walking, Cutting
    <2>15. BatchChained'
      <3>1. con'.n = Len(con'.items) /\ con'.front = con'.items[1]
        BY <2>1, <2>4, <2>5
      <3>2. ASSUME NEW i \in 1..con'.n - 1
            PROVE  next'[con'.items[i]] = con'.items[i + 1]
        <4>1. i \in 1..con.n /\ i \in 1..m /\ i + 1 \in 1..m
          BY SMTT(60), <1>0, <2>5
        <4>2. con'.items[i] = order[i] /\ con'.items[i + 1] = order[i + 1]
          BY <4>1, <2>4, <2>5
        <4>3. next[order[i]] = order[i + 1]
          BY <4>1, <1>0 DEF QueueInv, Progress
        <4> QED
          BY <4>2, <4>3, <2>2
      <3> QED
        BY <3>1, <3>2 DEF BatchChained
    <2> QED
      BY <2>8, <2>9, <2>10, <2>12, <2>13, <2>14, <2>15 DEF QueueInv
  <1> QED
    BY <1>2, <1>3

-----------------------------------------------------------------------------
(* The steps of a push.                                                    *)

LEMMA Inner ==
    ASSUME NEW l \in Nat, NEW i \in 1..l - 1
    PROVE  i \in 1..l /\ i + 1 \in 1..l /\ i # l
  OBVIOUS

LEMMA BatchFacts ==
    ASSUME NEW b \in Batches
    PROVE  /\ b \in Seq(Nodes) /\ Len(b) \in Nat /\ Len(b) \in 1..Len(b) /\ b # <<>>
           /\ DOMAIN b = 1..Len(b) /\ Injective(b)
           /\ \A i \in 1..Len(b) : b[i] \in Nodes /\ b[i] \notin InUse
  <1>1. PICK n \in 1..MaxBatch : b \in [1..n -> Nodes \ InUse]
    BY DEF Batches
  <1>2. n \in Nat /\ n \in 1..n
    BY QueueAssumption
  <1>3. b \in Seq(Nodes) /\ Len(b) = n
    BY <1>1, <1>2
  <1>4. DOMAIN b = 1..n /\ \A i \in 1..n : b[i] \in Nodes /\ b[i] \notin InUse
    BY <1>1
  <1>5. Injective(b)
    BY DEF Batches, Injective
  <1> QED
    BY <1>2, <1>3, <1>4, <1>5

\* The links of a batch, and those that it leaves alone.
LEMMA LinkedFacts ==
    ASSUME Typed, NEW b \in Batches
    PROVE  /\ Linked(b) \in [Pointers -> Nodes \cup {Null}]
           /\ \A i \in 1..Len(b) - 1 : Linked(b)[b[i]] = b[i + 1]
           /\ Linked(b)[b[Len(b)]] = Null
           /\ \A p \in Pointers : (\A i \in 1..Len(b) : b[i] # p) => Linked(b)[p] = next[p]
  <1> DEFINE l == Len(b)
  <1> DEFINE At(p) == CHOOSE i \in DOMAIN b : b[i] = p
  <1>1. /\ l \in Nat /\ l \in 1..l /\ DOMAIN b = 1..l /\ \A i \in 1..l : b[i] \in Nodes
        /\ \A i, j \in 1..l : b[i] = b[j] => i = j
    BY BatchFacts DEF Injective
  <1>2. \A i \in 1..l : At(b[i]) = i
    BY <1>1
  <1>3. ASSUME NEW p \in Pointers, \E i \in DOMAIN b : b[i] = p
        PROVE  At(p) \in 1..l /\ Linked(b)[p] = IF At(p) = l THEN Null ELSE b[At(p) + 1]
    BY <1>1, <1>3 DEF Linked
  <1>4. ASSUME NEW p \in Pointers, \A i \in DOMAIN b : b[i] # p
        PROVE  Linked(b)[p] = next[p] /\ next[p] \in Nodes \cup {Null}
    BY <1>4 DEF Linked, Typed
  <1> HIDE DEF At
  <1>5. ASSUME NEW p \in Pointers, \E i \in DOMAIN b : b[i] = p
        PROVE  Linked(b)[p] \in Nodes \cup {Null}
    <2>1. At(p) # l => At(p) + 1 \in 1..l
      BY <1>1, <1>3, <1>5
    <2> QED
      BY <1>1, <1>3, <1>5, <2>1
  <1>6. DOMAIN Linked(b) = Pointers /\ Linked(b) = [p \in Pointers |-> Linked(b)[p]]
    BY DEF Linked
  <1>7. \A p \in Pointers : Linked(b)[p] \in Nodes \cup {Null}
    BY <1>4, <1>5
  <1>8. ASSUME NEW i \in 1..l
        PROVE  Linked(b)[b[i]] = IF i = l THEN Null ELSE b[i + 1]
    <2>1. b[i] \in Pointers /\ \E j \in DOMAIN b : b[j] = b[i]
      BY <1>1 DEF Pointers
    <2>2. Linked(b)[b[i]] = IF At(b[i]) = l THEN Null ELSE b[At(b[i]) + 1]
      BY <1>3, <2>1
    <2>3. At(b[i]) = i
      BY <1>2
    <2> QED
      BY <2>2, <2>3
  <1>9. ASSUME NEW i \in 1..l - 1 PROVE i \in 1..l /\ i # l
    BY <1>1, <1>9, Inner
  <1> QED
    BY <1>1, <1>4, <1>6, <1>7, <1>8, <1>9

\* Items in use, by whom.
LEMMA UsedFacts ==
    ASSUME QueueInv, NEW b \in Batches, NEW i \in 1..Len(b)
    PROVE  /\ b[i] # Front
           /\ \A j \in DOMAIN order : b[i] # order[j]
           /\ \A j \in DOMAIN con.items : b[i] # con.items[j]
           /\ \A u, j : u \in Threads /\ j \in DOMAIN pushing[u].batch =>
                b[i] # pushing[u].batch[j]
  BY BatchFacts, QueueAssumption DEF InUse, Elements

\* The stub and the items of the queue, each before one place.
LEMMA BeforeFacts ==
    ASSUME QueueInv
    PROVE  /\ \A i, j \in 1..Len(order) + 1 : Before(i) = Before(j) => i = j
           /\ \A i \in 1..Len(order) + 1 :
                /\ Before(i) \in Pointers
                /\ Before(i) # Front => \E j \in DOMAIN order : Before(i) = order[j]
  <1> DEFINE L == Len(order)
  <1>1. /\ L \in Nat /\ DOMAIN order = 1..L /\ \A i \in 1..L : order[i] \in Nodes
        /\ \A i, j \in 1..L : order[i] = order[j] => i = j
    BY OrderFacts
  <1>2. \A i \in 1..L + 1 : i # 1 => i - 1 \in 1..L
    BY <1>1
  <1>3. ASSUME NEW i \in 1..L + 1, NEW j \in 1..L + 1, Before(i) = Before(j) PROVE i = j
    <2>1. CASE i = 1 \/ j = 1
      BY <1>1, <1>2, <1>3, <2>1, QueueAssumption DEF Before
    <2>2. CASE i # 1 /\ j # 1
      <3>1. i - 1 = j - 1
        BY <1>1, <1>2, <1>3, <2>2 DEF Before
      <3> QED
        BY <3>1, <1>1
    <2> QED
      BY <2>1, <2>2
  <1>4. ASSUME NEW i \in 1..L + 1
        PROVE  /\ Before(i) \in Pointers
               /\ Before(i) # Front => \E j \in DOMAIN order : Before(i) = order[j]
    BY <1>1, <1>2 DEF Before, Pointers
  <1> QED
    BY <1>3, <1>4

LEMMA PushCountInv ==
    ASSUME QueueInv, NEW t \in Threads, PushCount(t)
    PROVE  QueueInv'
  <1>1. PICK b \in Batches :
          /\ pushing' = [pushing EXCEPT ![t] = [pc |-> "counted", batch |-> b, old |-> Front]]
          /\ next' = Linked(b)
    BY DEF PushCount
  <1>2. UNCHANGED <<back, con, order>> /\ pushing[t].pc = "idle" /\ pushing[t].batch = <<>>
    BY DEF PushCount, QueueInv, BatchesLinked
  <1>3. /\ b \in Seq(Nodes) /\ Len(b) \in Nat /\ Len(b) \in 1..Len(b) /\ b # <<>>
        /\ DOMAIN b = 1..Len(b) /\ Injective(b)
    BY BatchFacts
  <1>4. /\ pushing \in [Threads -> Pushes] /\ pushing' \in [Threads -> Pushes]
        /\ pushing'[t] = [pc |-> "counted", batch |-> b, old |-> Front]
        /\ \A u \in Threads : u # t => pushing'[u] = pushing[u]
    BY <1>1, <1>3 DEF QueueInv, Typed, Pushes, Pointers
  <1>5. /\ next' \in [Pointers -> Nodes \cup {Null}]
        /\ \A i \in 1..Len(b) - 1 : next'[b[i]] = b[i + 1]
        /\ next'[b[Len(b)]] = Null
    BY <1>1, LinkedFacts DEF QueueInv
  <1>6. \A p \in Pointers : (\A i \in 1..Len(b) : b[i] # p) => next'[p] = next[p]
    BY <1>1, LinkedFacts DEF QueueInv
  <1>7. \A i \in 1..Len(b) :
          /\ b[i] # Front
          /\ \A j \in DOMAIN order : b[i] # order[j]
          /\ \A j \in DOMAIN con.items : b[i] # con.items[j]
          /\ \A u, j : u \in Threads /\ j \in DOMAIN pushing[u].batch =>
               b[i] # pushing[u].batch[j]
    BY UsedFacts
  <1>8. /\ next'[Front] = next[Front]
        /\ \A j \in DOMAIN order : next'[order[j]] = next[order[j]]
        /\ \A j \in 1..Len(order) + 1 : next'[Before(j)] = next[Before(j)]
    <2>1. \A j \in DOMAIN order : order[j] \in Pointers
      BY OrderFacts DEF Pointers
    <2>2. \A j \in 1..Len(order) + 1 : \A i \in 1..Len(b) : b[i] # Before(j)
      BY <1>7, BeforeFacts
    <2> QED
      BY <1>6, <1>7, <2>1, <2>2, BeforeFacts DEF Pointers
  <1>9. \A u \in Threads : Swapped(u)' <=> Swapped(u)
    BY <1>2, <1>4 DEF Swapped
  <1>10. \A u \in Threads : Swapped(u) => u # t /\ pushing'[u] = pushing[u]
    BY <1>2, <1>4 DEF Swapped
  <1>11. Typed'
    BY <1>2, <1>4, <1>5 DEF QueueInv, Typed
  <1>12. Disjoint'
    <2>1. Injective(order') /\ Injective(con'.items)
            /\ \A i \in DOMAIN order', j \in DOMAIN con'.items : order'[i] # con'.items[j]
      BY <1>2 DEF QueueInv, Disjoint
    <2>2. \A u \in Threads : Injective(pushing'[u].batch)
      BY <1>3, <1>4 DEF QueueInv, Disjoint
    <2>3. ASSUME NEW u \in Threads, pushing'[u].pc = "counted",
                 NEW i \in DOMAIN pushing'[u].batch
          PROVE  /\ \A j \in DOMAIN order' : pushing'[u].batch[i] # order'[j]
                 /\ \A j \in DOMAIN con'.items : pushing'[u].batch[i] # con'.items[j]
      <3>1. CASE u = t
        BY <2>3, <3>1, <1>2, <1>3, <1>4, <1>7
      <3>2. CASE u # t
        BY <2>3, <3>2, <1>2, <1>4 DEF QueueInv, Disjoint
      <3> QED
        BY <3>1, <3>2
    <2>4. ASSUME NEW u \in Threads, NEW v \in Threads, u # v,
                 NEW i \in DOMAIN pushing'[u].batch, NEW j \in DOMAIN pushing'[v].batch
          PROVE  pushing'[u].batch[i] # pushing'[v].batch[j]
      <3>1. CASE u = t
        <4>1. i \in 1..Len(b) /\ pushing'[u].batch[i] = b[i]
          BY <1>3, <1>4, <3>1
        <4>2. j \in DOMAIN pushing[v].batch /\ pushing'[v].batch[j] = pushing[v].batch[j]
          BY <1>4, <2>4, <3>1
        <4> QED
          BY <4>1, <4>2, <1>7
      <3>2. CASE v = t
        <4>1. j \in 1..Len(b) /\ pushing'[v].batch[j] = b[j]
          BY <1>3, <1>4, <3>2
        <4>2. i \in DOMAIN pushing[u].batch /\ pushing'[u].batch[i] = pushing[u].batch[i]
          BY <1>4, <2>4, <3>2
        <4> QED
          BY <4>1, <4>2, <1>7
      <3>3. CASE u # t /\ v # t
        BY <2>4, <3>3, <1>4 DEF QueueInv, Disjoint
      <3> QED
        BY <3>1, <3>2, <3>3
    <2> QED
      BY <2>1, <2>2, <2>3, <2>4 DEF Disjoint, Injective
  <1>13. BatchesLinked'
    <2> SUFFICES ASSUME NEW u \in Threads
                 PROVE  /\ pushing'[u].pc = "idle" <=> pushing'[u].batch = <<>>
                        /\ pushing'[u].pc = "counted" =>
                             /\ \A i \in 1..Len(pushing'[u].batch) - 1 :
                                  next'[pushing'[u].batch[i]] = pushing'[u].batch[i + 1]
                             /\ next'[pushing'[u].batch[Len(pushing'[u].batch)]] = Null
      BY DEF BatchesLinked
    <2>1. CASE u = t
      BY <2>1, <1>3, <1>4, <1>5
    <2>2. CASE u # t
      <3> DEFINE c == pushing[u].batch
      <3> DEFINE l == Len(c)
      <3>1. pushing'[u] = pushing[u] /\ c \in Seq(Nodes)
        BY <2>2, <1>4 DEF Pushes
      <3>2. l \in Nat /\ DOMAIN c = 1..l /\ (c # <<>> => l \in 1..l)
            /\ \A i \in 1..l : c[i] \in Pointers
        BY <3>1, SeqFacts DEF Pointers
      <3>3. \A i \in 1..l : next'[c[i]] = next[c[i]]
        BY <3>2, <1>6, <1>7
      <3>4. ASSUME NEW i \in 1..l - 1 PROVE i \in 1..l
        BY <3>2, Inner
      <3>5. /\ pushing[u].pc = "idle" <=> c = <<>>
            /\ pushing[u].pc = "counted" =>
                 c # <<>> /\ (\A i \in 1..l - 1 : next[c[i]] = c[i + 1]) /\ next[c[l]] = Null
        BY DEF QueueInv, BatchesLinked
      <3> HIDE DEF l, c
      <3>6. /\ pushing[u].pc = "idle" <=> c = <<>>
            /\ pushing[u].pc = "counted" =>
                 (\A i \in 1..l - 1 : next'[c[i]] = c[i + 1]) /\ next'[c[l]] = Null
        BY <3>2, <3>3, <3>4, <3>5
      <3> QED
        BY <3>1, <3>6 DEF c, l
    <2> QED
      BY <2>1, <2>2
  <1>14. AtPlace'
    <2> SUFFICES ASSUME NEW u \in Threads, Swapped(u)
                 PROVE  /\ next'[pushing'[u].old] = Null
                        /\ \E i \in DOMAIN order' :
                             pushing'[u].batch[1] = order'[i] /\ pushing'[u].old = Before(i)
      BY <1>2, <1>9 DEF AtPlace, Before
    <2>1. PICK i \in DOMAIN order :
            pushing[u].batch[1] = order[i] /\ pushing[u].old = Before(i)
      BY DEF QueueInv, AtPlace
    <2>2. i \in 1..Len(order) + 1
      BY OrderFacts
    <2>3. next'[Before(i)] = next[Before(i)] /\ next[pushing[u].old] = Null
      BY <2>2, <1>8 DEF QueueInv, AtPlace
    <2> QED
      BY <2>1, <2>3, <1>2, <1>10
  <1>15. Links'
    <2>1. (back = Before(Len(order) + 1))'
      BY <1>2 DEF QueueInv, Links, Before
    <2>2. next'[back'] = Null
      <3>1. Len(order) + 1 \in 1..Len(order) + 1
        BY OrderFacts
      <3> QED
        BY <3>1, <1>2, <1>8 DEF QueueInv, Links
    <2>3. ASSUME NEW i \in 2..Len(order')
          PROVE  \/ next'[order'[i - 1]] = order'[i]
                 \/ \E u \in Threads : Swapped(u)' /\ pushing'[u].old = order'[i - 1]
                                       /\ pushing'[u].batch[1] = order'[i]
      <3>1. i - 1 \in DOMAIN order /\ i \in 2..Len(order)
        BY <1>2, OrderFacts
      <3>2. next'[order[i - 1]] = next[order[i - 1]]
        BY <3>1, <1>8
      <3>3. \/ next[order[i - 1]] = order[i]
            \/ \E u \in Threads : Swapped(u) /\ pushing[u].old = order[i - 1]
                                  /\ pushing[u].batch[1] = order[i]
        BY <3>1 DEF QueueInv, Links
      <3> QED
        BY <3>2, <3>3, <1>2, <1>9, <1>10
    <2> QED
      BY <2>1, <2>2, <2>3 DEF Links
  <1>16. FrontLink'
    <2>1. (Walking' <=> Walking) /\ (Cutting' <=> Cutting)
      BY <1>2 DEF Walking, Cutting
    <2> QED
      BY <2>1, <1>2, <1>8, <1>9, <1>10 DEF QueueInv, FrontLink
  <1>17. Progress'
    <2>1. (Walking' <=> Walking) /\ (Cutting' <=> Cutting)
      BY <1>2 DEF Walking, Cutting
    <2>2. Walking \/ Cutting =>
             /\ \A i \in 1..con.n : next'[order[i]] = next[order[i]]
             /\ next'[con.first] = next[con.first]
      <3> SUFFICES ASSUME Walking \/ Cutting
                   PROVE  /\ \A i \in 1..con.n : next'[order[i]] = next[order[i]]
                          /\ next'[con.first] = next[con.first]
        OBVIOUS
      <3>1. con.n \in Nat /\ con.n < Len(order) /\ con.first = order[con.n + 1]
        BY OrderFacts DEF QueueInv, Progress, Pops
      <3>2. con.n + 1 \in DOMAIN order /\ \A i \in 1..con.n : i \in DOMAIN order
        BY <3>1, OrderFacts
      <3> QED
        BY <3>1, <3>2, <1>8
    <2>3. con.pc = "advance" => Cutting
      BY DEF Cutting
    <2> QED
      BY <2>1, <2>2, <2>3, <1>2, <1>9, <1>10 DEF QueueInv, Progress
  <1>18. BatchChained'
    <2>1. ASSUME NEW i \in DOMAIN con.items PROVE next'[con.items[i]] = next[con.items[i]]
      <3>1. con.items[i] \in Pointers
        BY OrderFacts DEF Pops, Pointers
      <3> QED
        BY <3>1, <1>6, <1>7
    <2>2. con.n = Len(con.items) => \A i \in 1..con.n - 1 : i \in DOMAIN con.items
      <3>1. con.items \in Seq(Nodes) /\ con.n \in Nat
        BY OrderFacts DEF Pops
      <3> QED
        BY <3>1
    <2> QED
      BY <2>1, <2>2, <1>2 DEF QueueInv, BatchChained
  <1> QED
    BY <1>11, <1>12, <1>13, <1>14, <1>15, <1>16, <1>17, <1>18 DEF QueueInv

LEMMA PushSwapInv ==
    ASSUME QueueInv, NEW t \in Threads, PushSwap(t)
    PROVE  QueueInv'
  <1> DEFINE b == pushing[t].batch
  <1> DEFINE L == Len(order)
  <1> DEFINE l == Len(b)
  <1>1. /\ UNCHANGED <<next, con>> /\ back' = b[l] /\ order' = order \o b
        /\ pushing' = [pushing EXCEPT ![t].pc = "swapped", ![t].old = back]
        /\ pushing[t].pc = "counted"
    BY DEF PushSwap
  <1>2. /\ order \in Seq(Nodes) /\ L \in Nat /\ DOMAIN order = 1..L
        /\ b \in Seq(Nodes) /\ l \in Nat /\ DOMAIN b = 1..l /\ l \in 1..l
        /\ \A i \in 1..l : b[i] \in Nodes
    <2>1. order \in Seq(Nodes) /\ b \in Seq(Nodes) /\ b # <<>>
      BY <1>1, OrderFacts DEF QueueInv, Typed, Pushes, BatchesLinked
    <2> QED
      BY <2>1, SeqFacts
  <1>3. /\ order' \in Seq(Nodes) /\ Len(order') = L + l /\ DOMAIN order' = 1..L + l
        /\ \A i \in 1..L : order'[i] = order[i]
        /\ \A i \in 1..l : order'[L + i] = b[i]
        /\ \A i \in 1..L + l : i > L => i - L \in 1..l /\ order'[i] = b[i - L]
    BY SMTT(60), <1>1, <1>2, Joined, SeqFacts
  <1>4. /\ pushing \in [Threads -> Pushes] /\ pushing' \in [Threads -> Pushes]
        /\ pushing'[t].pc = "swapped" /\ pushing'[t].old = back /\ pushing'[t].batch = b
        /\ \A u \in Threads : u # t => pushing'[u] = pushing[u]
        /\ \A u \in Threads : pushing'[u].batch = pushing[u].batch
    BY <1>1 DEF QueueInv, Typed, Pushes
  <1>5. \A u \in Threads : Swapped(u) => u # t /\ pushing'[u] = pushing[u] /\ Swapped(u)'
    BY <1>1, <1>4 DEF Swapped
  <1>6. Swapped(t)' /\ next[back] = Null
    BY <1>4 DEF Swapped, QueueInv, Links
  <1>7. back = IF L = 0 THEN Front ELSE order[L]
    <2>1. L + 1 = 1 <=> L = 0
      BY <1>2
    <2>2. (L + 1) - 1 = L
      BY <1>2
    <2> QED
      BY <2>1, <2>2 DEF QueueInv, Links, Before
  <1>8. \A i \in 1..L + l : i \in 1..L \/ (i \in Nat /\ i > L)
    BY <1>2
  <1> HIDE DEF b, L, l
  <1>a. \A i \in 1..L : order'[i] = order[i] /\ i \in DOMAIN order
    BY <1>2, <1>3
  <1>b. \A i \in 1..L + l : i > L => i - L \in DOMAIN b /\ order'[i] = b[i - L]
    BY <1>2, <1>3
  <1>c. \A i, j \in DOMAIN order : order[i] = order[j] => i = j
    BY DEF QueueInv, Disjoint, Injective
  <1>9. Typed'
    BY <1>1, <1>2, <1>3, <1>4 DEF QueueInv, Typed, Pointers
  <1>10. \A i \in DOMAIN b : \A j \in DOMAIN order : b[i] # order[j]
    BY <1>1 DEF QueueInv, Disjoint, b
  <1>11. \A i \in DOMAIN b : \A j \in DOMAIN con.items : b[i] # con.items[j]
    BY <1>1 DEF QueueInv, Disjoint, b
  <1>12. Disjoint'
    <2>1. Injective(order')
      <3> SUFFICES ASSUME NEW i \in 1..L + l, NEW j \in 1..L + l, order'[i] = order'[j]
                   PROVE  i = j
        BY <1>3 DEF Injective
      <3>a. order'[i] = order'[j]
        OBVIOUS
      <3>1. CASE i \in 1..L /\ j \in 1..L
        BY <3>1, <3>a, <1>a, <1>c
      <3>2. CASE i > L /\ j > L
        <4>1. b[i - L] = b[j - L] /\ i - L \in DOMAIN b /\ j - L \in DOMAIN b
          BY <3>2, <1>2, <1>3
        <4>2. i - L = j - L
          BY <4>1 DEF QueueInv, Disjoint, Injective, b
        <4> QED
          BY <4>2, <1>2
      <3>3. CASE i \in 1..L /\ j > L
        BY <3>3, <3>a, <1>a, <1>b, <1>10
      <3>4. CASE i > L /\ j \in 1..L
        BY <3>4, <3>a, <1>a, <1>b, <1>10
      <3> QED
        BY <3>1, <3>2, <3>3, <3>4, <1>8
    <2>2. \A i \in DOMAIN order', j \in DOMAIN con'.items : order'[i] # con'.items[j]
      <3> SUFFICES ASSUME NEW i \in 1..L + l, NEW j \in DOMAIN con.items
                   PROVE  order'[i] # con.items[j]
        BY <1>1, <1>3
      <3>1. CASE i \in 1..L
        BY <3>1, <1>a DEF QueueInv, Disjoint
      <3>2. CASE i > L
        BY <3>2, <1>2, <1>3, <1>11
      <3> QED
        BY <3>1, <3>2, <1>8
    <2>3. ASSUME NEW u \in Threads, pushing'[u].pc = "counted",
                 NEW i \in DOMAIN pushing'[u].batch
          PROVE  /\ \A j \in DOMAIN order' : pushing'[u].batch[i] # order'[j]
                 /\ \A j \in DOMAIN con'.items : pushing'[u].batch[i] # con'.items[j]
      <3>1. u # t /\ pushing[u].pc = "counted" /\ i \in DOMAIN pushing[u].batch
            /\ pushing'[u].batch = pushing[u].batch
        BY <2>3, <1>4
      <3>2. /\ \A j \in DOMAIN order : pushing[u].batch[i] # order[j]
            /\ \A j \in DOMAIN con.items : pushing[u].batch[i] # con.items[j]
            /\ \A j \in DOMAIN b : pushing[u].batch[i] # b[j]
        BY <3>1 DEF QueueInv, Disjoint, b
      <3>3. ASSUME NEW j \in 1..L + l PROVE pushing[u].batch[i] # order'[j]
        <4>1. CASE j \in 1..L
          BY <4>1, <3>2, <1>a
        <4>2. CASE j > L
          BY <4>2, <3>2, <1>b
        <4> QED
          BY <4>1, <4>2, <1>8
      <3> QED
        BY <3>1, <3>2, <3>3, <1>1, <1>3
    <2>4. /\ \A u \in Threads : Injective(pushing'[u].batch)
          /\ \A u, v \in Threads : u # v =>
               \A i \in DOMAIN pushing'[u].batch, j \in DOMAIN pushing'[v].batch :
                  pushing'[u].batch[i] # pushing'[v].batch[j]
      BY <1>4 DEF QueueInv, Disjoint
    <2>5. Injective(con'.items)
      BY <1>1 DEF QueueInv, Disjoint
    <2> QED
      BY <2>1, <2>2, <2>3, <2>4, <2>5 DEF Disjoint, Injective
  <1>13. BatchesLinked'
    <2>1. pushing[t].pc # "idle" /\ b # <<>>
      BY <1>1 DEF QueueInv, BatchesLinked, b
    <2> QED
      BY <2>1, <1>1, <1>4 DEF QueueInv, BatchesLinked, b
  <1>14. AtPlace'
    <2> SUFFICES ASSUME NEW u \in Threads, Swapped(u)'
                 PROVE  /\ next'[pushing'[u].old] = Null
                        /\ \E i \in DOMAIN order' :
                             /\ pushing'[u].batch[1] = order'[i]
                             /\ pushing'[u].old = IF i = 1 THEN Front ELSE order'[i - 1]
      BY DEF AtPlace, Before
    <2>1. CASE u = t
      <3>1. L + 1 \in DOMAIN order' /\ 1 \in 1..l /\ order'[L + 1] = b[1]
        BY <1>2, <1>3
      <3>2. back = IF L + 1 = 1 THEN Front ELSE order'[(L + 1) - 1]
        <4>1. L # 0 => L \in 1..L /\ L + 1 # 1 /\ (L + 1) - 1 = L
          BY <1>2
        <4>2. L = 0 => L + 1 = 1
          OBVIOUS
        <4> QED
          BY <4>1, <4>2, <1>3, <1>7
      <3> QED
        BY <3>1, <3>2, <2>1, <1>1, <1>4, <1>6
    <2>2. CASE u # t
      <3>1. Swapped(u) /\ pushing'[u] = pushing[u]
        BY <2>2, <1>4 DEF Swapped
      <3>2. PICK i \in DOMAIN order :
              pushing[u].batch[1] = order[i] /\ pushing[u].old = Before(i)
        BY <3>1 DEF QueueInv, AtPlace
      <3>3. i \in DOMAIN order' /\ order'[i] = order[i]
            /\ (i # 1 => order'[i - 1] = order[i - 1])
        <4>1. i \in 1..L /\ i \in 1..L + l /\ (i # 1 => i - 1 \in 1..L)
          BY <1>2
        <4> QED
          BY <4>1, <1>3
      <3>4. next[pushing[u].old] = Null
        BY <3>1 DEF QueueInv, AtPlace
      <3> QED
        BY <3>1, <3>2, <3>3, <3>4, <1>1 DEF Before
    <2> QED
      BY <2>1, <2>2
  <1>15. Links'
    <2>1. (back = Before(Len(order) + 1))'
      <3>1. L + l \in 1..L + l /\ L + l > L /\ (L + l) - L = l
            /\ (L + l) + 1 # 1 /\ ((L + l) + 1) - 1 = L + l
        BY <1>2
      <3>2. order'[L + l] = b[l]
        BY <3>1, <1>3
      <3> QED
        BY <3>1, <3>2, <1>1, <1>3 DEF Before
    <2>2. next'[back'] = Null
      BY <1>1 DEF QueueInv, BatchesLinked, b, l
    <2>3. ASSUME NEW i \in 2..L + l
          PROVE  \/ next'[order'[i - 1]] = order'[i]
                 \/ \E u \in Threads : Swapped(u)' /\ pushing'[u].old = order'[i - 1]
                                       /\ pushing'[u].batch[1] = order'[i]
      <3>1. CASE i \in 2..L
        <4>1. i \in 1..L /\ i - 1 \in 1..L
          BY <3>1, <1>2
        <4>2. order'[i] = order[i] /\ order'[i - 1] = order[i - 1]
          BY <4>1, <1>3
        <4>3. \/ next[order[i - 1]] = order[i]
              \/ \E u \in Threads : Swapped(u) /\ pushing[u].old = order[i - 1]
                                    /\ pushing[u].batch[1] = order[i]
          BY <3>1 DEF QueueInv, Links, L
        <4> QED
          BY <4>2, <4>3, <1>1, <1>5
      <3>2. CASE i = L + 1
        <4>1. L # 0 /\ i - 1 = L /\ L \in 1..L /\ 1 \in 1..l
          BY <3>2, <1>2
        <4>2. order'[i] = b[1] /\ order'[i - 1] = order[L] /\ back = order[L]
          BY <4>1, <3>2, <1>3, <1>7
        <4> QED
          BY <4>2, <1>4, <1>6
      <3>3. CASE i > L + 1
        <4> DEFINE k == i - 1 - L
        <4>1. k \in 1..l - 1 /\ k \in 1..l /\ k + 1 \in 1..l /\ L + k = i - 1 /\ L + (k + 1) = i
          BY <3>3, <1>2
        <4>2. order'[L + k] = b[k] /\ order'[L + (k + 1)] = b[k + 1]
          BY <4>1, <1>3
        <4>3. next[b[k]] = b[k + 1]
          BY <4>1, <1>1 DEF QueueInv, BatchesLinked, b, l
        <4> QED
          BY <4>1, <4>2, <4>3, <1>1
      <3>4. i \in 2..L \/ i = L + 1 \/ i > L + 1
        BY <1>2
      <3> QED
        BY <3>1, <3>2, <3>3, <3>4
    <2> QED
      BY <2>1, <2>2, <2>3, <1>3 DEF Links
  <1>16. (Walking' <=> Walking) /\ (Cutting' <=> Cutting)
    BY <1>1 DEF Walking, Cutting
  <1>17. L # 0 => order'[1] = order[1] /\ order # <<>> /\ back # Front
    <2>1. L # 0 => 1 \in 1..L /\ L \in 1..L
      BY <1>2
    <2>2. \A i \in 1..L : order[i] # Front
      BY <1>2, SeqFacts, QueueAssumption
    <2> QED
      BY <2>1, <2>2, <1>2, <1>3, <1>7
  <1>18. L = 0 => order'[1] = b[1] /\ order = <<>> /\ back = Front
    <2>1. 1 \in 1..l /\ (L = 0 => L + 1 = 1)
      BY <1>2
    <2> QED
      BY <2>1, <1>2, <1>3, <1>7 DEF L
  <1>19. Walking \/ Cutting => con.n \in Nat /\ con.n < L /\ L # 0
    BY <1>2, OrderFacts DEF QueueInv, Progress, Pops, L
  <1>20. FrontLink'
    <2>1. CASE L = 0
      BY <2>1, <1>1, <1>4, <1>6, <1>16, <1>18, <1>19 DEF QueueInv, FrontLink, Cutting
    <2>2. CASE L # 0
      BY <2>2, <1>1, <1>5, <1>16, <1>17 DEF QueueInv, FrontLink
    <2> QED
      BY <2>1, <2>2
  <1>21. Progress'
    <2>1. ASSUME Walking \/ Cutting
          PROVE  /\ con.n < L + l /\ order'[con.n + 1] = order[con.n + 1]
                 /\ order'[1] = order[1]
                 /\ \A i \in 1..con.n : next[order'[i]] = order'[i + 1]
                 /\ \A u \in Threads : Swapped(u)' => pushing'[u].old # Front
      <3>1. con.n < L + l /\ con.n + 1 \in 1..L /\ \A i \in 1..con.n : i \in 1..L /\ i + 1 \in 1..L
        BY <2>1, <1>2, <1>19
      <3>2. \A i \in 1..con.n : next[order[i]] = order[i + 1]
        BY <2>1 DEF QueueInv, Progress
      <3>3. ASSUME NEW u \in Threads, Swapped(u)' PROVE pushing'[u].old # Front
        <4>1. CASE u = t
          BY <4>1, <2>1, <1>4, <1>17, <1>19
        <4>2. CASE u # t
          <5>1. Swapped(u) /\ pushing'[u] = pushing[u]
            BY <3>3, <4>2, <1>4 DEF Swapped
          <5> QED
            BY <5>1, <2>1 DEF QueueInv, Progress
        <4> QED
          BY <4>1, <4>2
      <3> QED
        BY <3>1, <3>2, <3>3, <2>1, <1>3, <1>17, <1>19
    <2>2. con.pc \in {"spin", "advance"} => con.n + 1 < L
      BY DEF QueueInv, Progress, L
    <2>3. ASSUME con.pc = "advance" PROVE order'[con.n + 2] = order[con.n + 2] /\ Cutting
      <3>1. Cutting
        BY <2>3 DEF Cutting
      <3>2. con.n + 2 \in 1..L
        BY <3>1, <2>2, <2>3, <1>2, <1>19
      <3> QED
        BY <3>1, <3>2, <1>3
    <2>4. con.pc \in {"spin", "advance"} => con.n + 1 < L + l
      <3>1. con.pc \in {"spin", "advance"} => con.n \in Nat
        BY <1>19 DEF Cutting
      <3> QED
        BY <2>2, <3>1, <1>2
    <2>5. Progress
      BY DEF QueueInv
    <2> QED
      BY <2>1, <2>3, <2>4, <2>5, <1>1, <1>3, <1>16 DEF Progress
  <1>22. BatchChained'
    BY <1>1 DEF QueueInv, BatchChained
  <1> QED
    BY <1>9, <1>12, <1>13, <1>14, <1>15, <1>20, <1>21, <1>22 DEF QueueInv

LEMMA PushLinkInv ==
    ASSUME QueueInv, NEW t \in Threads, PushLink(t)
    PROVE  QueueInv'
  <1> DEFINE old == pushing[t].old
  <1> DEFINE item == pushing[t].batch[1]
  <1> DEFINE L == Len(order)
  <1>1. /\ UNCHANGED <<back, con, order>> /\ Swapped(t)
        /\ next' = [next EXCEPT ![old] = item]
        /\ pushing' = [pushing EXCEPT ![t] = NoPush]
    BY DEF PushLink, Swapped
  <1>2. /\ L \in Nat /\ DOMAIN order = 1..L /\ \A i \in 1..L : order[i] \in Nodes
        /\ \A i, j \in 1..L : order[i] = order[j] => i = j
    BY OrderFacts
  <1>3. PICK i \in 1..L : item = order[i] /\ old = Before(i)
    BY <1>1, <1>2 DEF QueueInv, AtPlace
  <1>4. old \in Pointers /\ item \in Nodes /\ next[old] = Null /\ i \in 1..L + 1
    BY <1>1, <1>2, <1>3, BeforeFacts DEF QueueInv, AtPlace
  <1>5. /\ next' \in [Pointers -> Nodes \cup {Null}] /\ next'[old] = item
        /\ \A p \in Pointers : p # old => next'[p] = next[p]
        /\ \A p \in Pointers : next[p] # Null => next'[p] = next[p]
    BY <1>1, <1>4 DEF QueueInv, Typed
  <1>6. /\ pushing \in [Threads -> Pushes] /\ pushing' \in [Threads -> Pushes]
        /\ pushing'[t] = NoPush /\ \A u \in Threads : u # t => pushing'[u] = pushing[u]
    BY <1>1, NoneTyped DEF QueueInv, Typed
  <1>7. \A u \in Threads : Swapped(u)' <=> u # t /\ Swapped(u)
    BY <1>6 DEF Swapped, NoPush
  <1>8. NoPush.batch = <<>> /\ NoPush.pc = "idle"
    BY DEF NoPush
  <1>9. \A j \in DOMAIN order : old # order[j] \/ (j + 1 = i)
    <2> SUFFICES ASSUME NEW j \in 1..L, old = order[j] PROVE j + 1 = i
      BY <1>2
    <2>1. j + 1 # 1 /\ (j + 1) - 1 = j /\ j + 1 \in 1..L + 1
      BY <1>2
    <2>2. Before(j + 1) = order[j]
      BY <2>1 DEF Before
    <2> QED
      BY <2>1, <2>2, <1>3, <1>4, BeforeFacts
  <1>10. old # Front => \E j \in DOMAIN order : old = order[j]
    BY <1>3, <1>4, BeforeFacts
  <1> HIDE DEF old, item, L
  <1>11. Typed'
    BY <1>1, <1>5, <1>6 DEF QueueInv, Typed
  <1>12. Disjoint'
    <2>1. \A u \in Threads : Injective(pushing'[u].batch)
      <3>1. Injective(<<>>)
        BY DEF Injective
      <3> QED
        BY <3>1, <1>6, <1>8 DEF QueueInv, Disjoint
    <2>2. ASSUME NEW u \in Threads, pushing'[u].pc = "counted",
                 NEW k \in DOMAIN pushing'[u].batch
          PROVE  /\ \A j \in DOMAIN order : pushing'[u].batch[k] # order[j]
                 /\ \A j \in DOMAIN con.items : pushing'[u].batch[k] # con.items[j]
      BY <2>2, <1>6, <1>8 DEF QueueInv, Disjoint
    <2>3. ASSUME NEW u \in Threads, NEW v \in Threads, u # v,
                 NEW k \in DOMAIN pushing'[u].batch, NEW j \in DOMAIN pushing'[v].batch
          PROVE  pushing'[u].batch[k] # pushing'[v].batch[j]
      <3>1. DOMAIN NoPush.batch = {}
        BY <1>8
      <3>2. u # t /\ v # t
        BY <3>1, <1>6
      <3> QED
        BY <3>2, <2>3, <1>6 DEF QueueInv, Disjoint
    <2> QED
      BY <2>1, <2>2, <2>3, <1>1 DEF QueueInv, Disjoint, Injective
  <1>13. BatchesLinked'
    <2> SUFFICES ASSUME NEW u \in Threads
                 PROVE  /\ pushing'[u].pc = "idle" <=> pushing'[u].batch = <<>>
                        /\ pushing'[u].pc = "counted" =>
                             /\ \A k \in 1..Len(pushing'[u].batch) - 1 :
                                  next'[pushing'[u].batch[k]] = pushing'[u].batch[k + 1]
                             /\ next'[pushing'[u].batch[Len(pushing'[u].batch)]] = Null
      BY DEF BatchesLinked
    <2>1. CASE u = t
      BY <2>1, <1>6, <1>8
    <2>2. CASE u # t
      <3> DEFINE c == pushing[u].batch
      <3> DEFINE l == Len(c)
      <3>1. pushing'[u] = pushing[u] /\ c \in Seq(Nodes)
        BY <2>2, <1>6 DEF Pushes
      <3>2. l \in Nat /\ DOMAIN c = 1..l /\ (c # <<>> => l \in 1..l)
            /\ \A k \in 1..l : c[k] \in Nodes
        BY <3>1, SeqFacts
      <3>3. pushing[u].pc = "counted" => \A k \in 1..l : c[k] # old
        <4>1. pushing[u].pc = "counted" =>
                \A k \in DOMAIN c, j \in DOMAIN order : c[k] # order[j]
          BY DEF QueueInv, Disjoint
        <4> QED
          BY <4>1, <3>2, <1>10, QueueAssumption
      <3>4. pushing[u].pc = "counted" => \A k \in 1..l : next'[c[k]] = next[c[k]]
        BY <3>2, <3>3, <1>5 DEF Pointers
      <3>5. ASSUME NEW k \in 1..l - 1 PROVE k \in 1..l
        BY <3>2, Inner
      <3>6. /\ pushing[u].pc = "idle" <=> c = <<>>
            /\ pushing[u].pc = "counted" =>
                 c # <<>> /\ (\A k \in 1..l - 1 : next[c[k]] = c[k + 1]) /\ next[c[l]] = Null
        BY DEF QueueInv, BatchesLinked
      <3> HIDE DEF l, c
      <3>7. /\ pushing[u].pc = "idle" <=> c = <<>>
            /\ pushing[u].pc = "counted" =>
                 (\A k \in 1..l - 1 : next'[c[k]] = c[k + 1]) /\ next'[c[l]] = Null
        BY <3>2, <3>4, <3>5, <3>6
      <3> QED
        BY <3>1, <3>7 DEF c, l
    <2> QED
      BY <2>1, <2>2
  <1>14. AtPlace'
    <2> SUFFICES ASSUME NEW u \in Threads, u # t, Swapped(u)
                 PROVE  /\ next'[pushing[u].old] = Null
                        /\ \E j \in DOMAIN order :
                             pushing[u].batch[1] = order[j] /\ pushing[u].old = Before(j)
      BY <1>1, <1>6, <1>7 DEF AtPlace, Before
    <2>1. PICK j \in 1..L : pushing[u].batch[1] = order[j] /\ pushing[u].old = Before(j)
      BY <1>2 DEF QueueInv, AtPlace
    <2>2. pushing[u].old # old
      <3> SUFFICES ASSUME Before(j) = Before(i) PROVE FALSE
        BY <2>1, <1>3
      <3>1. j \in 1..L + 1 /\ j = i
        <4>1. j \in 1..L + 1
          BY <1>2
        <4> QED
          BY <4>1, <1>4, BeforeFacts DEF L
      <3>2. pushing[u].batch[1] = pushing[t].batch[1]
        BY <3>1, <2>1, <1>3 DEF item
      <3>3. 1 \in DOMAIN pushing[u].batch /\ 1 \in DOMAIN pushing[t].batch
        <4>1. \A v \in Threads : Swapped(v) => 1 \in DOMAIN pushing[v].batch
          <5> SUFFICES ASSUME NEW v \in Threads, Swapped(v)
                       PROVE  1 \in DOMAIN pushing[v].batch
            OBVIOUS
          <5>1. pushing[v].batch \in Seq(Nodes) /\ pushing[v].batch # <<>>
            BY OrderFacts DEF QueueInv, BatchesLinked, Pushes, Swapped
          <5> QED
            BY <5>1
        <4> QED
          BY <4>1, <1>1
      <3> QED
        BY <3>2, <3>3 DEF QueueInv, Disjoint
    <2>3. pushing[u].old \in Pointers /\ next[pushing[u].old] = Null
      BY OrderFacts DEF QueueInv, AtPlace, Pushes
    <2> QED
      BY <2>1, <2>2, <2>3, <1>2, <1>5
  <1>15. Links'
    <2>1. (back = Before(Len(order) + 1))'
      BY <1>1 DEF QueueInv, Links, Before
    <2>2. next'[back'] = Null
      <3>1. L + 1 \in 1..L + 1 /\ i # L + 1
        BY <1>2
      <3>2. back # old /\ back \in Pointers
        BY <3>1, <1>3, <1>4, BeforeFacts DEF QueueInv, Links, L
      <3> QED
        BY <3>2, <1>1, <1>5 DEF QueueInv, Links
    <2>3. ASSUME NEW k \in 2..Len(order')
          PROVE  \/ next'[order'[k - 1]] = order'[k]
                 \/ \E u \in Threads : Swapped(u)' /\ pushing'[u].old = order'[k - 1]
                                       /\ pushing'[u].batch[1] = order'[k]
      <3>1. k \in 1..L /\ k - 1 \in 1..L
        BY <1>1, <1>2 DEF L
      <3>2. order[k - 1] \in Pointers /\ order[k] \in Nodes
        BY <3>1, <1>2 DEF Pointers
      <3>3. \/ next[order[k - 1]] = order[k]
            \/ \E u \in Threads : Swapped(u) /\ pushing[u].old = order[k - 1]
                                  /\ pushing[u].batch[1] = order[k]
        BY <1>1 DEF QueueInv, Links
      <3>4. CASE next[order[k - 1]] = order[k]
        BY <3>2, <3>4, <1>1, <1>5, QueueAssumption
      <3>5. ASSUME NEW u \in Threads, Swapped(u), pushing[u].old = order[k - 1],
                   pushing[u].batch[1] = order[k]
            PROVE  \/ next'[order[k - 1]] = order[k]
                   \/ Swapped(u)' /\ pushing'[u] = pushing[u]
        BY <3>5, <1>5, <1>6, <1>7 DEF old, item
      <3> QED
        BY <3>3, <3>4, <3>5, <1>1
    <2> QED
      BY <2>1, <2>2, <2>3 DEF Links
  <1>16. (Walking' <=> Walking) /\ (Cutting' <=> Cutting)
    BY <1>1 DEF Walking, Cutting
  <1>17. Walking \/ Cutting => old # Front
    BY <1>1 DEF QueueInv, Progress, old
  <1>18. order # <<>> => order[1] \in Nodes
    BY <1>2 DEF L
  <1>19. Front \in Pointers
    BY DEF Pointers
  <1>20. FrontLink'
    <2>1. Walking' => next'[Front] = order'[1]
      BY <1>1, <1>5, <1>16, <1>17, <1>19 DEF QueueInv, FrontLink
    <2>2. con'.pc \in {"swap", "spin"} => next'[Front] = Null
      BY <1>1, <1>5, <1>17, <1>19 DEF QueueInv, FrontLink, Cutting
    <2>3. order # <<>> =>
            \/ next'[Front] = order[1]
            \/ Cutting
            \/ \E u \in Threads : Swapped(u)' /\ pushing'[u].old = Front
                                  /\ pushing'[u].batch[1] = order[1]
      <3> SUFFICES ASSUME order # <<>>, ~Cutting
                   PROVE  \/ next'[Front] = order[1]
                          \/ \E u \in Threads : Swapped(u)' /\ pushing'[u].old = Front
                                  /\ pushing'[u].batch[1] = order[1]
        OBVIOUS
      <3>1. \/ next[Front] = order[1]
            \/ \E u \in Threads : Swapped(u) /\ pushing[u].old = Front
                                  /\ pushing[u].batch[1] = order[1]
        BY DEF QueueInv, FrontLink
      <3>2. CASE next[Front] = order[1]
        BY <3>2, <1>5, <1>18, <1>19, QueueAssumption
      <3>3. ASSUME NEW u \in Threads, Swapped(u), pushing[u].old = Front,
                   pushing[u].batch[1] = order[1]
            PROVE  \/ next'[Front] = order[1]
                   \/ Swapped(u)' /\ pushing'[u] = pushing[u]
        BY <3>3, <1>5, <1>6, <1>7 DEF old, item
      <3> QED
        BY <3>1, <3>2, <3>3
    <2> QED
      BY <2>1, <2>2, <2>3, <1>1, <1>16 DEF FrontLink
  <1>21. Progress'
    <2>1. ASSUME Walking \/ Cutting
          PROVE  \A k \in 1..con.n : next'[order[k]] = order[k + 1]
      <3> SUFFICES ASSUME NEW k \in 1..con.n PROVE next'[order[k]] = order[k + 1]
        OBVIOUS
      <3>1. con.n \in Nat /\ con.n < L /\ next[order[k]] = order[k + 1]
        BY <2>1, OrderFacts DEF QueueInv, Progress, Pops, L
      <3>2. k \in 1..L /\ k + 1 \in 1..L
        BY <3>1, <1>2
      <3> QED
        BY <3>1, <3>2, <1>2, <1>5, QueueAssumption DEF Pointers
    <2>2. con.pc = "advance" => next'[con.first] = con.nxt
      <3> SUFFICES ASSUME con.pc = "advance" PROVE next'[con.first] = con.nxt
        OBVIOUS
      <3>1. /\ con.n \in Nat /\ con.n + 1 < L /\ con.first = order[con.n + 1]
            /\ con.nxt = order[con.n + 2] /\ next[con.first] = con.nxt
        BY OrderFacts DEF QueueInv, Progress, Pops, L, Cutting
      <3>2. con.n + 1 \in 1..L /\ con.n + 2 \in 1..L
        BY <3>1, <1>2
      <3> QED
        BY <3>1, <3>2, <1>2, <1>5, QueueAssumption DEF Pointers
    <2>3. \A u \in Threads : Swapped(u)' => Swapped(u) /\ pushing'[u] = pushing[u]
      BY <1>6, <1>7
    <2> QED
      BY <2>1, <2>2, <2>3, <1>1, <1>16 DEF QueueInv, Progress
  <1>22. BatchChained'
    <2>1. ASSUME NEW k \in DOMAIN con.items PROVE next'[con.items[k]] = next[con.items[k]]
      <3>1. con.items[k] \in Nodes
        BY OrderFacts DEF Pops
      <3>2. con.items[k] # old
        BY <3>1, <1>10, QueueAssumption DEF QueueInv, Disjoint
      <3> QED
        BY <3>1, <3>2, <1>5 DEF Pointers
    <2>2. con.n = Len(con.items) => \A k \in 1..con.n - 1 : k \in DOMAIN con.items
      <3>1. con.items \in Seq(Nodes) /\ con.n \in Nat
        BY OrderFacts DEF Pops
      <3> QED
        BY <3>1
    <2> QED
      BY <2>1, <2>2, <1>1 DEF QueueInv, BatchChained
  <1> QED
    BY <1>11, <1>12, <1>13, <1>14, <1>15, <1>20, <1>21, <1>22 DEF QueueInv

-----------------------------------------------------------------------------
(* The invariant and what follows from it.                                 *)

LEMMA StepInv ==
    ASSUME QueueInv, [Next]_vars
    PROVE  QueueInv'
  <1>1. ASSUME NEW t \in Threads, Push(t) PROVE QueueInv'
    BY <1>1, PushCountInv, PushSwapInv, PushLinkInv DEF Push
  <1>2. CASE Start("pop") \/ Start("popBatch")
    BY <1>2, StartInv
  <1>3. CASE Consume
    BY <1>3, WalkInv, LastInv, StopInv, ClearInv, SwapBackInv, SpinInv, AdvanceInv,
       SubtractInv, IterateInv DEF Consume
  <1>4. CASE UNCHANGED vars
    BY <1>4 DEF vars, QueueInv, Typed, Disjoint, BatchesLinked, AtPlace, Links, FrontLink,
       Progress, BatchChained, Injective, Swapped, Before, Walking, Cutting
  <1> QED
    BY <1>1, <1>2, <1>3, <1>4 DEF Next

\* The strengthening of the three theorems below.
THEOREM QueueInvariant == Spec => []QueueInv
  BY InitInv, StepInv, PTL DEF Spec

LEMMA InvListWhole == QueueInv => ListWhole
  <1> SUFFICES ASSUME QueueInv, NEW i \in DOMAIN order
               PROVE  /\ back = Before(Len(order) + 1)
                      /\ \/ next[Before(i)] = order[i]
                         \/ \E t \in Threads : Swapped(t) /\ pushing[t].old = Before(i)
                                               /\ pushing[t].batch[1] = order[i]
                         \/ i = 1 /\ con.pc \in {"swap", "spin", "advance"}
                                  /\ con.first = order[con.n + 1]
    BY DEF ListWhole, QueueInv, Links
  <1>1. i \in 1..Len(order) /\ order # <<>>
    BY OrderFacts
  <1>2. CASE i = 1
    BY <1>1, <1>2 DEF QueueInv, FrontLink, Progress, Cutting, Before, Links
  <1>3. CASE i # 1
    <2>1. i \in 2..Len(order)
      BY <1>1, <1>3, OrderFacts
    <2> QED
      BY <2>1, <1>3 DEF QueueInv, Links, Before
  <1> QED
    BY <1>2, <1>3

LEMMA InvLinksLive == QueueInv => LinksLiveItem
  <1> SUFFICES ASSUME QueueInv, NEW t \in Threads, Swapped(t)
               PROVE  pushing[t].old \in Elements(order) \cup {Front}
    BY DEF LinksLiveItem
  <1>1. PICK i \in 1..Len(order) : pushing[t].old = Before(i)
    BY OrderFacts DEF QueueInv, AtPlace
  <1>2. i \in 1..Len(order) + 1
    BY OrderFacts
  <1> QED
    BY <1>1, <1>2, BeforeFacts DEF Elements

\* The list of push, pop and popBatch is cut only where a push is about to
\* link it, or in front while the consumer swaps the back pointer.
THEOREM Whole == Spec => []ListWhole
  BY QueueInvariant, InvListWhole, PTL

\* Between its swap and its store, a push writes to the stub or to an item of
\* the queue, never to one that the consumer has handed out.
THEOREM LinksLive == Spec => []LinksLiveItem
  BY QueueInvariant, InvLinksLive, PTL

\* The iterator of popBatch meets exactly the items that left the queue, in
\* the order of the pushes.
THEOREM Chained == Spec => []BatchChained
  <1>1. QueueInv => BatchChained
    BY DEF QueueInv
  <1> QED
    BY <1>1, QueueInvariant, PTL

-----------------------------------------------------------------------------
(* The count.                                                              *)

\* The items that are counted and not yet in the queue.
Pending == UNION {Elements(pushing[t].batch) : t \in Counted}

\* The items that have left the queue and are still counted.
Leaving == IF con.pc = "subtract" THEN con.n ELSE 0

CountExact ==
    /\ IsFiniteSet(Pending)
    /\ count = Cardinality(Pending) + Len(order) + Leaving

\* A batch has as many items as it has places.
LEMMA BatchSize ==
    ASSUME NEW b \in Seq(Nodes), Injective(b)
    PROVE  IsFiniteSet(Elements(b)) /\ Cardinality(Elements(b)) = Len(b)
  <1>1. Len(b) \in Nat /\ DOMAIN b = 1..Len(b)
    BY SeqFacts
  <1>2. IsFiniteSet(1..Len(b)) /\ Cardinality(1..Len(b)) = Len(b)
    <2>1. IsFiniteSet(1..Len(b))
      BY <1>1, FS_Interval
    <2>2. Cardinality(1..Len(b)) = IF 1 > Len(b) THEN 0 ELSE Len(b) - 1 + 1
      BY <1>1, FS_Interval
    <2> QED
      BY <1>1, <2>1, <2>2
  <1>3. b \in Bijection(1..Len(b), Elements(b))
    <2>1. b \in [1..Len(b) -> Elements(b)]
      BY <1>1 DEF Elements
    <2>2. \A i, j \in 1..Len(b) : b[i] = b[j] => i = j
      BY <1>1 DEF Injective
    <2>3. \A v \in Elements(b) : \E i \in 1..Len(b) : b[i] = v
      BY <1>1 DEF Elements
    <2> QED
      BY <2>1, <2>2, <2>3 DEF Bijection, Injection, Surjection, IsInjective
  <1>4. ExistsBijection(1..Len(b), Elements(b))
    BY <1>3 DEF ExistsBijection
  <1> QED
    BY <1>2, <1>4, FS_Bijection

\* A set and a batch with nothing in common.
LEMMA Together ==
    ASSUME NEW S, IsFiniteSet(S), NEW b \in Seq(Nodes), Injective(b), S \cap Elements(b) = {}
    PROVE  /\ IsFiniteSet(S \cup Elements(b)) /\ Cardinality(S) \in Nat /\ Len(b) \in Nat
           /\ Cardinality(S \cup Elements(b)) = Cardinality(S) + Len(b)
  <1>1. IsFiniteSet(Elements(b)) /\ Cardinality(Elements(b)) = Len(b)
    BY BatchSize
  <1>2. /\ IsFiniteSet(S \cup Elements(b))
        /\ Cardinality(S \cup Elements(b))
             = Cardinality(S) + Cardinality(Elements(b)) - Cardinality(S \cap Elements(b))
    BY <1>1, FS_Union
  <1>3. Cardinality(S \cap Elements(b)) = 0
    BY FS_EmptySet
  <1>4. Cardinality(S) \in Nat /\ Len(b) \in Nat
    BY FS_CardinalityType, SeqFacts
  <1> QED
    BY <1>1, <1>2, <1>3, <1>4

LEMMA CountNumbers ==
    ASSUME QueueInv, CountExact
    PROVE  /\ Cardinality(Pending) \in Nat /\ Len(order) \in Nat /\ con.n \in Nat
           /\ Leaving \in Nat /\ count \in Nat
  <1>1. Cardinality(Pending) \in Nat /\ Len(order) \in Nat /\ con.n \in Nat
    BY FS_CardinalityType, SeqFacts DEF CountExact, QueueInv, Typed, Pops
  <1>2. Leaving \in Nat
    BY <1>1 DEF Leaving
  <1> QED
    BY <1>1, <1>2 DEF CountExact

LEMMA CountInit == Init => CountExact
  <1> SUFFICES ASSUME Init PROVE CountExact
    OBVIOUS
  <1>1. Counted = {}
    BY DEF Init, NoPush, Counted
  <1>2. Pending = {}
    BY <1>1 DEF Pending
  <1>3. Leaving = 0 /\ Len(order) = 0 /\ count = 0
    BY DEF Init, NoPop, Leaving
  <1> QED
    BY <1>2, <1>3, FS_EmptySet DEF CountExact

\* The steps of the consumer that take nothing.
LEMMA CountKept ==
    ASSUME QueueInv, CountExact, UNCHANGED <<count, pushing, order>>,
           con.pc # "subtract", con'.pc # "subtract"
    PROVE  CountExact'
  <1>1. Pending' = Pending
    BY DEF Pending, Counted, Elements
  <1>2. Leaving' = Leaving
    BY DEF Leaving
  <1> QED
    BY <1>1, <1>2 DEF CountExact

\* Those that take n items, which stay counted.
LEMMA CountTake ==
    ASSUME QueueInv, CountExact, UNCHANGED <<count, pushing>>,
           con.pc # "subtract", NEW n \in Nat, n <= Len(order), Take(n)
    PROVE  CountExact'
  <1>1. Pending' = Pending
    BY DEF Pending, Counted, Elements
  <1>2. order \in Seq(Nodes) /\ con \in Pops /\ Len(order) \in Nat
    BY SeqFacts DEF QueueInv, Typed
  <1>3. Len(order') = Len(order) - n
    <2>1. n \in 0..Len(order) /\ order' = SubSeq(order, n + 1, Len(order))
      BY <1>2 DEF Take
    <2> QED
      BY <1>2, <2>1, Suffix
  <1>4. Leaving = 0 /\ Leaving' = n
    BY <1>2 DEF Leaving, Take, Pops
  <1>5. Cardinality(Pending) \in Nat
    BY CountNumbers
  <1> QED
    BY <1>1, <1>2, <1>3, <1>4, <1>5 DEF CountExact

LEMMA CountPush ==
    ASSUME QueueInv, CountExact, NEW t \in Threads, Push(t)
    PROVE  CountExact'
  <1>1. pushing \in [Threads -> Pushes] /\ order \in Seq(Nodes) /\ Len(order) \in Nat
    BY SeqFacts DEF QueueInv, Typed
  <1>2. /\ Cardinality(Pending) \in Nat /\ Leaving \in Nat /\ IsFiniteSet(Pending)
        /\ count = Cardinality(Pending) + Len(order) + Leaving
    BY CountNumbers DEF CountExact
  <1>3. CASE PushCount(t)
    <2>1. PICK b \in Batches :
            /\ pushing' = [pushing EXCEPT ![t] = [pc |-> "counted", batch |-> b, old |-> Front]]
            /\ count' = count + Len(b)
      BY <1>3 DEF PushCount
    <2>2. UNCHANGED <<con, order>> /\ pushing[t].pc = "idle"
      BY <1>3 DEF PushCount
    <2>3. b \in Seq(Nodes) /\ DOMAIN b = 1..Len(b) /\ Injective(b) /\ Len(b) \in Nat
      BY BatchFacts
    <2>4. /\ pushing'[t].pc = "counted" /\ pushing'[t].batch = b
          /\ \A u \in Threads : u # t => pushing'[u] = pushing[u]
      BY <1>1, <2>1
    <2>5. Counted' = Counted \cup {t} /\ t \notin Counted
      BY <2>2, <2>4 DEF Counted
    <2>6. Pending' = Pending \cup Elements(b)
      <3>1. \A u \in Counted : pushing'[u].batch = pushing[u].batch
        BY <2>4, <2>5 DEF Counted
      <3> QED
        BY <2>4, <2>5, <3>1 DEF Pending, Elements
    <2>7. Pending \cap Elements(b) = {}
      <3>1. ASSUME NEW i \in 1..Len(b), b[i] \in Pending PROVE FALSE
        <4>1. PICK u \in Counted : b[i] \in Elements(pushing[u].batch)
          BY <3>1 DEF Pending
        <4> QED
          BY <4>1, UsedFacts DEF Elements, Counted
      <3> QED
        BY <2>3, <3>1 DEF Elements
    <2>8. /\ IsFiniteSet(Pending')
          /\ Cardinality(Pending') = Cardinality(Pending) + Len(b)
      BY <1>2, <2>3, <2>6, <2>7, Together
    <2>9. Leaving' = Leaving
      BY <2>2 DEF Leaving
    <2> QED
      BY <1>1, <1>2, <2>1, <2>2, <2>3, <2>8, <2>9 DEF CountExact
  <1>4. CASE PushSwap(t)
    <2>1. PICK b : b = pushing[t].batch
      OBVIOUS
    <2>2. /\ UNCHANGED <<con, count>> /\ order' = order \o b /\ pushing[t].pc = "counted"
          /\ pushing' = [pushing EXCEPT ![t].pc = "swapped", ![t].old = back]
      BY <1>4, <2>1 DEF PushSwap
    <2>3. /\ pushing'[t].pc = "swapped"
          /\ \A u \in Threads : u # t => pushing'[u] = pushing[u]
      BY <1>1, <2>2 DEF Pushes
    <2>4. b \in Seq(Nodes) /\ Injective(b) /\ Len(b) \in Nat /\ DOMAIN b = 1..Len(b)
      <3>1. b \in Seq(Nodes) /\ Injective(b)
        BY <1>1, <2>1 DEF Pushes, QueueInv, Disjoint
      <3> QED
        BY <3>1, SeqFacts
    <2>5. Len(order') = Len(order) + Len(b)
      BY <1>1, <2>2, <2>4, Joined
    <2>6. Counted' = Counted \ {t} /\ t \in Counted
      BY <2>2, <2>3 DEF Counted
    <2>7. Pending = Pending' \cup Elements(b)
      <3>1. \A u \in Counted' : u \in Counted /\ u # t /\ pushing'[u].batch = pushing[u].batch
        BY <2>3, <2>6 DEF Counted
      <3>2. Pending' = UNION {Elements(pushing[u].batch) : u \in Counted'}
        BY <3>1 DEF Pending, Elements
      <3> QED
        BY <2>1, <2>6, <3>2 DEF Pending
    <2>8. Pending' \cap Elements(b) = {}
      <3>1. ASSUME NEW v \in Elements(b), v \in Pending' PROVE FALSE
        <4>1. PICK u \in Counted' : v \in Elements(pushing'[u].batch)
          BY <3>1 DEF Pending, Elements
        <4>2. u \in Threads /\ u # t /\ pushing'[u] = pushing[u]
          BY <2>3, <4>1 DEF Counted
        <4>3. PICK i \in DOMAIN pushing[u].batch : pushing[u].batch[i] = v
          BY <4>1, <4>2 DEF Elements
        <4>4. PICK j \in DOMAIN pushing[t].batch : pushing[t].batch[j] = v
          BY <2>1, <3>1 DEF Elements
        <4>5. pushing[u].batch[i] # pushing[t].batch[j]
          BY <4>2, <4>3, <4>4 DEF QueueInv, Disjoint
        <4> QED
          BY <4>3, <4>4, <4>5
      <3> QED
        BY <3>1
    <2>9. IsFiniteSet(Pending')
      <3>1. Pending' \in SUBSET Pending
        BY <2>7
      <3> QED
        BY <1>2, <3>1, FS_Subset
    <2>10. Cardinality(Pending') \in Nat /\ Cardinality(Pending) = Cardinality(Pending') + Len(b)
      BY <2>4, <2>7, <2>8, <2>9, Together
    <2>11. Leaving' = Leaving
      BY <2>2 DEF Leaving
    <2> QED
      BY <1>1, <1>2, <2>2, <2>4, <2>5, <2>9, <2>10, <2>11 DEF CountExact
  <1>5. CASE PushLink(t)
    <2>1. /\ UNCHANGED <<con, count, order>> /\ pushing[t].pc = "swapped"
          /\ pushing' = [pushing EXCEPT ![t] = NoPush]
      BY <1>5 DEF PushLink
    <2>2. pushing'[t].pc = "idle" /\ \A u \in Threads : u # t => pushing'[u] = pushing[u]
      BY <1>1, <2>1 DEF NoPush
    <2>3. Counted' = Counted /\ \A u \in Counted : pushing'[u] = pushing[u]
      BY <2>1, <2>2 DEF Counted
    <2>4. Pending' = Pending
      BY <2>3 DEF Pending, Elements
    <2>5. Leaving' = Leaving
      BY <2>1 DEF Leaving
    <2> QED
      BY <1>2, <2>1, <2>4, <2>5 DEF CountExact
  <1> QED
    BY <1>3, <1>4, <1>5 DEF Push

LEMMA CountConsume ==
    ASSUME QueueInv, CountExact, Consume \/ Start("pop") \/ Start("popBatch")
    PROVE  CountExact'
  <1>1. con \in Pops /\ con.n \in Nat /\ Len(order) \in Nat
    BY SeqFacts DEF QueueInv, Typed, Pops
  <1>2. CASE Start("pop") \/ Start("popBatch")
    BY <1>2, CountKept DEF Start, NoPop
  <1>3. CASE Walk
    BY <1>1, <1>3, CountKept DEF Walk, Pops
  <1>4. CASE Last
    BY <1>1, <1>4, CountKept DEF Last, Pops, NoPop
  <1>5. CASE Clear
    BY <1>1, <1>5, CountKept DEF Clear, Pops
  <1>6. CASE Spin
    BY <1>1, <1>6, CountKept DEF Spin, Pops
  <1>7. CASE Iterate
    BY <1>1, <1>7, CountKept DEF Iterate, Pops, NoPop
  <1>8. CASE Stop
    <2>1. con.n < Len(order)
      BY <1>8 DEF Stop, QueueInv, Progress, Walking
    <2> QED
      BY <1>1, <1>8, <2>1, CountTake DEF Stop
  <1>9. CASE Advance
    <2>1. con.n < Len(order)
      BY <1>9 DEF Advance, QueueInv, Progress, Cutting
    <2>2. con.n + 1 \in Nat /\ con.n + 1 <= Len(order)
      BY <1>1, <2>1
    <2> QED
      BY <1>9, <2>2, CountTake DEF Advance
  <1>10. CASE SwapBack /\ back = con.first
    <2>1. con.n < Len(order)
      BY <1>10 DEF SwapBack, QueueInv, Progress, Cutting
    <2>2. con.n + 1 \in Nat /\ con.n + 1 <= Len(order)
      BY <1>1, <2>1
    <2> QED
      BY <1>10, <2>2, CountTake DEF SwapBack
  <1>11. CASE SwapBack /\ back # con.first
    BY <1>1, <1>11, CountKept DEF SwapBack, Pops
  <1>12. CASE Subtract
    <2>1. /\ con.pc = "subtract" /\ count' = count - con.n /\ UNCHANGED <<pushing, order>>
          /\ con'.pc # "subtract"
      BY <1>1, <1>12 DEF Subtract, Pops, NoPop
    <2>2. Pending' = Pending
      BY <2>1 DEF Pending, Counted, Elements
    <2>3. Leaving = con.n /\ Leaving' = 0
      BY <2>1 DEF Leaving
    <2>4. Cardinality(Pending) \in Nat
      BY CountNumbers
    <2> QED
      BY <1>1, <2>1, <2>2, <2>3, <2>4 DEF CountExact
  <1> QED
    BY <1>2, <1>3, <1>4, <1>5, <1>6, <1>7, <1>8, <1>9, <1>10, <1>11, <1>12 DEF Consume

LEMMA CountCovered == QueueInv /\ CountExact => CountCovers /\ count \in Nat
  <1> SUFFICES ASSUME QueueInv, CountExact PROVE CountCovers /\ count \in Nat
    OBVIOUS
  <1>1. /\ Cardinality(Pending) \in Nat /\ Len(order) \in Nat /\ Leaving \in Nat
        /\ count \in Nat
    BY CountNumbers
  <1>2. count = Cardinality(Pending) + Len(order) + Leaving
    BY DEF CountExact
  <1>3. Len(order) + Leaving <= count
    BY <1>1, <1>2
  <1>4. ASSUME Counted = {} PROVE count = Len(order) + Leaving
    <2>1. Cardinality(Pending) = 0
      BY <1>4, FS_EmptySet DEF Pending
    <2> QED
      BY <1>1, <1>2, <2>1
  <1> QED
    BY <1>1, <1>3, <1>4 DEF CountCovers, Leaving

LEMMA CountStep == QueueInv /\ CountExact /\ [Next]_vars => CountExact'
  <1> SUFFICES ASSUME QueueInv, CountExact, [Next]_vars PROVE CountExact'
    OBVIOUS
  <1>1. CASE UNCHANGED vars
    BY <1>1 DEF vars, CountExact, Pending, Counted, Leaving, Elements
  <1> QED
    BY <1>1, CountPush, CountConsume DEF Next

\* The count is never below the number of items in the queue, never wraps below
\* zero, and is exact when no push is between its count and its swap: the
\* consumer subtracts what it took only after it has taken it.
THEOREM CountAlwaysCovers == Spec => []CountCovers
  <1>1. Init => QueueInv /\ CountExact
    BY InitInv, CountInit
  <1>2. QueueInv /\ CountExact /\ [Next]_vars => (QueueInv /\ CountExact)'
    BY StepInv, CountStep
  <1>3. QueueInv /\ CountExact => CountCovers
    BY CountCovered
  <1> QED
    BY <1>1, <1>2, <1>3, PTL DEF Spec

-----------------------------------------------------------------------------
(* The queue implements the channel.                                       *)

\* No batch is longer than one pushBatch.
BatchBound == \A t \in Threads : pushing[t].batch = <<>> \/ pushing[t].batch \in
                 UNION {[1..n -> Nodes] : n \in 1..MaxBatch}

THEOREM Bounded == Spec => []BatchBound
  <1>1. Init => BatchBound
    BY DEF Init, NoPush, BatchBound
  <1>2. ASSUME BatchBound, QueueInv, [Next]_vars PROVE BatchBound'
    <2>1. ASSUME NEW t \in Threads, PushCount(t) PROVE BatchBound'
      <3>1. PICK b \in Batches :
              pushing' = [pushing EXCEPT ![t] = [pc |-> "counted", batch |-> b, old |-> Front]]
        BY <2>1 DEF PushCount
      <3>2. b \in UNION {[1..n -> Nodes] : n \in 1..MaxBatch}
        BY DEF Batches
      <3> QED
        BY <3>1, <3>2, <1>2 DEF BatchBound, QueueInv, Typed, Pushes
    <2>2. ASSUME NEW t \in Threads, PushSwap(t) PROVE BatchBound'
      BY <2>2, <1>2 DEF PushSwap, BatchBound, QueueInv, Typed, Pushes
    <2>3. ASSUME NEW t \in Threads, PushLink(t) PROVE BatchBound'
      BY <2>3, <1>2 DEF PushLink, NoPush, BatchBound, QueueInv, Typed, Pushes
    <2>4. ASSUME UNCHANGED pushing PROVE BatchBound'
      BY <2>4, <1>2 DEF BatchBound
    <2> QED
      BY <1>2, <2>1, <2>2, <2>3, <2>4
      DEF Next, Push, Consume, vars, Start, Walk, Last, Stop, Clear, SwapBack, Spin, Advance,
          Subtract, Iterate
  <1> QED
    BY <1>1, <1>2, QueueInvariant, PTL DEF Spec

\* The items that the consumer has found, and the one after, are linked.
LEMMA FoundLinked ==
    ASSUME QueueInv, Walking \/ Cutting, NEW j \in 1..Len(order),
           \/ j <= con.n + 1
           \/ j = con.n + 2 /\ next[con.first] # Null
    PROVE  order[j] \notin Unlinked
  <1> SUFFICES ASSUME NEW t \in Threads, Swapped(t), pushing[t].batch[1] = order[j]
               PROVE  FALSE
    BY DEF Unlinked
  <1>1. PICK k \in con.n + 2..Len(order) :
          pushing[t].batch[1] = order[k] /\ pushing[t].old = order[k - 1]
    BY NotBehind
  <1>2. con.n \in Nat /\ con.first = order[con.n + 1] /\ Len(order) \in Nat
    BY OrderFacts DEF QueueInv, Progress, Pops
  <1>3. k \in 1..Len(order)
    BY <1>1, <1>2
  <1>4. j = k
    BY <1>1, <1>3, OrderFacts
  <1>5. k = con.n + 2 /\ next[con.first] # Null
    BY <1>1, <1>2, <1>4
  <1>6. k - 1 = con.n + 1
    BY <1>2, <1>5
  <1>7. pushing[t].old = con.first
    BY <1>1, <1>2, <1>6
  <1> QED
    BY <1>5, <1>7 DEF QueueInv, AtPlace

\* What leaves the queue may be taken from the channel.
LEMMA TakesOpen ==
    ASSUME QueueInv, Walking \/ Cutting, NEW m \in Nat, m > 0, m <= Len(order),
           m <= con.n + 1, Take(m), UNCHANGED pushing,
           m = con.n + 1 /\ m < Len(order) => next[con.first] # Null
    PROVE  Channel!Receive(m) /\ m \in 1..Len(order)
  <1>1. con.n \in Nat /\ Len(order) \in Nat /\ DOMAIN order = 1..Len(order)
    BY OrderFacts DEF Pops
  <1>2. ASSUME NEW i \in 1..Len(order), i <= m \/ i = m + 1 PROVE i \notin Channel!Hidden
    <2> SUFFICES ASSUME NEW j \in 1..i PROVE order[j] \notin Unlinked
      BY DEF Channel!Hidden
    <2>1. j \in 1..Len(order) /\ j <= m + 1 /\ j \in Nat
      BY <1>1, <1>2
    <2>2. CASE j <= con.n + 1
      BY <2>1, <2>2, FoundLinked
    <2>3. CASE ~(j <= con.n + 1)
      <3>1. j = con.n + 2 /\ m = con.n + 1 /\ m < Len(order)
        BY <1>1, <2>1, <2>3
      <3> QED
        BY <2>1, <3>1, FoundLinked
    <2> QED
      BY <2>2, <2>3
  <1>3. m \in 0..Len(order) /\ m \in 1..Len(order) /\ (m < Len(order) => m + 1 \in 1..Len(order))
    BY <1>1
  <1>4. \A i \in 1..m : i \in 1..Len(order) /\ i <= m
    BY <1>1
  <1>5. Channel!Takeable(m)
    BY <1>2, <1>3, <1>4 DEF Channel!Takeable
  <1>6. Unlinked' = Unlinked
    BY DEF Unlinked, Swapped
  <1> QED
    BY <1>3, <1>5, <1>6 DEF Channel!Receive, Take

LEMMA ChannelInit == Init => Channel!Init
  BY DEF Init, NoPush, Channel!Init, Unlinked, Swapped

LEMMA ChannelStep ==
    ASSUME QueueInv, BatchBound, [Next]_vars
    PROVE  [Channel!Next]_(Channel!vars)
  <1>1. ASSUME UNCHANGED <<order, pushing>> PROVE UNCHANGED Channel!vars
    BY <1>1 DEF Channel!vars, Unlinked, Swapped
  <1>2. ASSUME NEW t \in Threads, PushCount(t) PROVE UNCHANGED Channel!vars
    <2>1. \A u \in Threads : Swapped(u)' <=> Swapped(u)
      BY <1>2 DEF PushCount, Swapped, QueueInv, Typed, Pushes
    <2>2. \A u \in Threads : Swapped(u) => pushing'[u] = pushing[u]
      BY <1>2 DEF PushCount, Swapped, QueueInv, Typed, Pushes
    <2>3. Unlinked' = Unlinked
      BY <2>1, <2>2 DEF Unlinked
    <2> QED
      BY <1>2, <2>3 DEF PushCount, Channel!vars
  <1>3. ASSUME NEW t \in Threads, PushSwap(t) PROVE Channel!Next
    <2> DEFINE b == pushing[t].batch
    <2>1. b # <<>> /\ order' = order \o b
      BY <1>3 DEF PushSwap, QueueInv, BatchesLinked
    <2>2. /\ pushing'[t].batch = b /\ pushing'[t].pc = "swapped" /\ pushing[t].pc = "counted"
          /\ \A u \in Threads : u # t => pushing'[u] = pushing[u]
      BY <1>3 DEF PushSwap, QueueInv, Typed, Pushes
    <2>3. Unlinked' = Unlinked \cup {b[1]}
      <3>1. \A x : x \in Unlinked' => x \in Unlinked \cup {b[1]}
        BY <2>2 DEF Unlinked, Swapped
      <3>2. \A x : x \in Unlinked \cup {b[1]} => x \in Unlinked'
        BY <2>2 DEF Unlinked, Swapped
      <3> QED
        BY <3>1, <3>2
    <2>4. PICK m \in 1..MaxBatch : b \in [1..m -> Nodes]
      BY <2>1 DEF BatchBound
    <2>5. Channel!Send(b)
      BY <2>1, <2>3 DEF Channel!Send
    <2> QED
      BY <2>4, <2>5 DEF Channel!Next
  <1>4. ASSUME NEW t \in Threads, PushLink(t) PROVE Channel!Next
    <2> DEFINE item == pushing[t].batch[1]
    <2>1. /\ pushing'[t].pc = "idle" /\ Swapped(t) /\ UNCHANGED order
          /\ \A u \in Threads : u # t => pushing'[u] = pushing[u]
      BY <1>4 DEF PushLink, Swapped, NoPush, QueueInv, Typed, Pushes
    <2>2. \A u \in Threads : Swapped(u) => 1 \in DOMAIN pushing[u].batch
      <3> SUFFICES ASSUME NEW u \in Threads, Swapped(u) PROVE 1 \in DOMAIN pushing[u].batch
        OBVIOUS
      <3>1. pushing[u].batch \in Seq(Nodes) /\ pushing[u].batch # <<>>
        BY OrderFacts DEF QueueInv, BatchesLinked, Pushes, Swapped
      <3> QED
        BY <3>1
    <2>3. \A u \in Threads : Swapped(u) /\ u # t => pushing[u].batch[1] # item
      BY <2>1, <2>2 DEF QueueInv, Disjoint
    <2>4. Unlinked' = Unlinked \ {item}
      <3>1. \A u \in Threads : Swapped(u)' <=> Swapped(u) /\ u # t
        BY <2>1 DEF Swapped
      <3>2. \A x : x \in Unlinked' => x \in Unlinked \ {item}
        BY <2>1, <2>3, <3>1 DEF Unlinked
      <3>3. \A x : x \in Unlinked \ {item} => x \in Unlinked'
        BY <2>1, <3>1 DEF Unlinked
      <3> QED
        BY <3>2, <3>3
    <2>5. item \in Unlinked /\ item \in Nodes
      BY <2>1, <2>2, OrderFacts DEF Unlinked
    <2> QED
      BY <2>1, <2>4, <2>5 DEF Channel!Next, Channel!Link
  <1>5. CASE Stop
    <2>1. Walking /\ con.n \in Nat /\ con.n < Len(order) /\ Take(con.n) /\ UNCHANGED pushing
      BY <1>5, OrderFacts DEF Stop, Walking, QueueInv, Progress, Pops
    <2>2. CASE con.n = 0
      <3>1. order' = order
        <4>1. order \in Seq(Nodes) /\ order' = SubSeq(order, 1, Len(order))
          BY <2>1, <2>2 DEF QueueInv, Typed, Take
        <4> QED
          BY <4>1
      <3> QED
        BY <3>1, <2>1, <1>1
    <2>3. CASE con.n # 0
      <3>1. con.n > 0 /\ con.n <= Len(order) /\ con.n <= con.n + 1 /\ con.n # con.n + 1
        BY <2>1, <2>3, OrderFacts
      <3> QED
        BY <3>1, <2>1, TakesOpen DEF Channel!Next
    <2> QED
      BY <2>2, <2>3
  <1>6. CASE SwapBack /\ back = con.first
    <2> DEFINE m == con.n + 1
    <2>1. Cutting /\ con.n \in Nat /\ con.n < Len(order) /\ Take(m) /\ UNCHANGED pushing
      BY <1>6, OrderFacts DEF SwapBack, Cutting, QueueInv, Progress, Pops
    <2>2. next[con.first] # Null \/ m = Len(order)
      <3>1. Len(order) \in Nat /\ back = order[Len(order)] /\ con.first = order[m]
        <4>1. Len(order) + 1 # 1 /\ (Len(order) + 1) - 1 = Len(order) /\ Len(order) \in Nat
          BY <2>1, OrderFacts
        <4> QED
          BY <4>1, <2>1 DEF QueueInv, Links, Before, Progress
      <3>2. m \in 1..Len(order) /\ Len(order) \in 1..Len(order)
        BY <2>1, <3>1
      <3> QED
        BY <3>1, <3>2, <1>6, OrderFacts
    <2>3. m \in Nat /\ m > 0 /\ m <= Len(order) /\ m <= con.n + 1
          /\ (m < Len(order) => next[con.first] # Null)
      BY <2>1, <2>2, OrderFacts
    <2> HIDE DEF m
    <2> QED
      BY <2>1, <2>3, TakesOpen DEF Channel!Next
  <1>7. CASE Advance
    <2> DEFINE m == con.n + 1
    <2>1. /\ Cutting /\ con.n \in Nat /\ con.n + 1 < Len(order) /\ Take(m) /\ UNCHANGED pushing
          /\ next[con.first] = order[con.n + 2]
      BY <1>7, OrderFacts DEF Advance, Cutting, QueueInv, Progress, Pops
    <2>2. order[con.n + 2] # Null
      <3>1. con.n + 2 \in 1..Len(order)
        BY <2>1, OrderFacts
      <3> QED
        BY <3>1, OrderFacts, QueueAssumption
    <2>3. m \in Nat /\ m > 0 /\ m <= Len(order) /\ m <= con.n + 1
      BY <2>1, OrderFacts
    <2> HIDE DEF m
    <2> QED
      BY <2>1, <2>2, <2>3, TakesOpen DEF Channel!Next
  <1>8. CASE \/ Start("pop") \/ Start("popBatch") \/ Walk \/ Last \/ Clear \/ Spin
             \/ Subtract \/ Iterate \/ UNCHANGED vars \/ (SwapBack /\ back # con.first)
    BY <1>1, <1>8 DEF Start, Walk, Last, Clear, Spin, Subtract, Iterate, SwapBack, vars
  <1> QED
    BY <1>2, <1>3, <1>4, <1>5, <1>6, <1>7, <1>8 DEF Next, Push, Consume

\* What push, pushBatch, pop and popBatch do in many atomic accesses is the
\* channel: items leave in the order of the swaps, only those that can be
\* reached leave, and none is lost or handed out twice.
THEOREM Implements == Spec => ImplementsChannel
  BY ChannelInit, ChannelStep, QueueInvariant, Bounded, PTL
  DEF Spec, ImplementsChannel, Channel!Spec
=============================================================================
