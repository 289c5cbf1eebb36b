----------------------------- MODULE LinearFifo -----------------------------
(***************************************************************************)
(* std.fifo.LinearFifo(T, .Dynamic) of the Zig standard library, which is  *)
(* not part of the repository, as far as the code relies on it: a ring     *)
(* buffer whose capacity is a power of two.  Growing moves the items to    *)
(* the front; taking items moves the head and never realigns, so the       *)
(* slices that readableSlice(0) and writableSlice(0) return may be only a  *)
(* part of the items, or of the room, there is.                            *)
(***************************************************************************)
LOCAL INSTANCE Naturals
LOCAL INSTANCE Sequences

EmptyFifo == [cap |-> 0, head |-> 0, items |-> <<>>]

Count(f) == Len(f.items)

\* The rings of items of T; the head stays below the capacity, if there is one.
Fifos(T) ==
    {f \in [cap : Nat, head : Nat, items : Seq(T)] :
        Count(f) <= f.cap /\ IF f.cap = 0 THEN f.head = 0 ELSE f.head < f.cap}

\* The least power of two that is not below n; beyond what is listed, and what
\* the instances use, just enough.
PowerOfTwo(n) ==
    LET enough == {p \in {1, 2, 4, 8, 16, 32, 64, 128} : n <= p}
    IN  IF enough = {} THEN n ELSE CHOOSE p \in enough : \A q \in enough : p <= q

\* ensureUnusedCapacity(n)
Reserve(f, n) ==
    IF f.cap - Count(f) >= n THEN f
    ELSE [f EXCEPT !.cap = PowerOfTwo(Count(f) + n), !.head = 0]

\* writeItem
Push(f, x) == [Reserve(f, 1) EXCEPT !.items = Append(f.items, x)]

\* discard(n); readItem takes Head(f.items) and discards one.
Discard(f, n) ==
    [f EXCEPT !.head = IF f.cap = 0 THEN 0 ELSE (f.head + n) % f.cap,
              !.items = SubSeq(f.items, n + 1, Len(f.items))]

\* How many items readableSlice(0) shows.
Readable(f) ==
    IF f.head + Count(f) <= f.cap THEN Count(f) ELSE f.cap - f.head

\* How much room writableSlice(0) shows.
Writable(f) ==
    IF f.head + Count(f) < f.cap THEN f.cap - f.head - Count(f)
    ELSE f.cap - Count(f)
=============================================================================
