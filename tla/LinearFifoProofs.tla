-------------------------- MODULE LinearFifoProofs --------------------------
(***************************************************************************)
(* What the operators of LinearFifo do to the items and the capacity of a  *)
(* ring buffer of any type, with the facts about numbers and sequences     *)
(* that the proofs about its users rest on.                                *)
(***************************************************************************)
EXTENDS LinearFifo, Integers, Sequences, FiniteSets, WellFoundedInduction, TLAPS

-----------------------------------------------------------------------------
(* Numbers.                                                                *)

\* A set of numbers that is not empty has a least one.
LEMMA LeastNumber ==
    ASSUME NEW T, T \subseteq Nat, T # {}
    PROVE  \E x \in T : \A y \in T : x <= y
<1> DEFINE R == {ss \in Nat \X Nat : ss[1] < ss[2]}
<1>1. IsWellFoundedOn(R, Nat)
  BY NatLessThanWellFounded DEF OpToRel
<1>2. PICK x \in T : \A y \in T : <<y, x>> \notin R
  <2> HIDE DEF R
  <2> QED BY <1>1, WFMin
<1>3. \A y \in T : ~(y < x)
  BY <1>2
<1> QED BY <1>2, <1>3

\* Induction, over a set of numbers instead of a predicate.
LEMMA SetInduction ==
    ASSUME NEW T, 0 \in T, \A n \in Nat : n \in T => n + 1 \in T
    PROVE  Nat \subseteq T
<1> SUFFICES ASSUME Nat \ T # {} PROVE FALSE
  OBVIOUS
<1>1. PICK x \in Nat \ T : \A y \in Nat \ T : x <= y
  BY LeastNumber, Nat \ T \subseteq Nat
<1>2. x # 0 /\ x - 1 \in Nat /\ x - 1 \in T
  BY <1>1
<1> QED BY <1>1, <1>2

-----------------------------------------------------------------------------
(* Sequences.                                                              *)

LEMMA SeqFacts ==
    ASSUME NEW T, NEW s \in Seq(T), s # <<>>
    PROVE  /\ Len(s) \in Nat /\ Len(s) > 0 /\ Head(s) = s[1] /\ Head(s) \in T
           /\ Tail(s) \in Seq(T) /\ Len(Tail(s)) = Len(s) - 1
           /\ \A i \in 1..Len(s) - 1 : Tail(s)[i] = s[i + 1]
OBVIOUS

\* The frames after a change of the one on top.
LEMMA Replaced ==
    ASSUME NEW T, NEW s \in Seq(T), s # <<>>, NEW f \in T
    PROVE  LET r == <<f>> \o Tail(s)
           IN  /\ r \in Seq(T) /\ r # <<>> /\ Len(r) = Len(s)
               /\ Head(r) = f /\ r[1] = f
               /\ \A i \in 2..Len(s) : r[i] = s[i]
<1> DEFINE r == <<f>> \o Tail(s)
<1>1. <<f>> \in Seq(T) /\ Len(<<f>>) = 1 /\ <<f>>[1] = f
  OBVIOUS
<1>2. r \in Seq(T) /\ Len(r) = Len(s)
  BY <1>1, SeqFacts
<1>3. r[1] = f
  BY <1>1, SeqFacts
<1>4. \A i \in 2..Len(s) : r[i] = s[i]
  BY <1>1, SeqFacts
<1>5. r # <<>>
  BY <1>2, SeqFacts
<1> HIDE DEF r
<1>6. Head(r) = f
  BY <1>2, <1>3, <1>5, SeqFacts
<1> QED BY <1>2, <1>3, <1>4, <1>5, <1>6 DEF r

LEMMA Pushed ==
    ASSUME NEW T, NEW s \in Seq(T), NEW f \in T
    PROVE  LET r == <<f>> \o s
           IN  /\ r \in Seq(T) /\ r # <<>> /\ Len(r) = Len(s) + 1
               /\ Head(r) = f /\ r[1] = f
               /\ \A i \in 1..Len(s) : r[i + 1] = s[i]
<1> DEFINE r == <<f>> \o s
<1>1. <<f>> \in Seq(T) /\ Len(<<f>>) = 1 /\ <<f>>[1] = f
  OBVIOUS
<1>2. r \in Seq(T) /\ Len(r) = Len(s) + 1 /\ r[1] = f /\ \A i \in 1..Len(s) : r[i + 1] = s[i]
  BY <1>1
<1>3. r # <<>>
  BY <1>2
<1> HIDE DEF r
<1>4. Head(r) = f
  BY <1>2, <1>3, SeqFacts
<1> QED BY <1>2, <1>3, <1>4 DEF r

LEMMA Appended ==
    ASSUME NEW T, NEW s \in Seq(T), NEW x \in T
    PROVE  /\ Append(s, x) \in Seq(T) /\ Len(Append(s, x)) = Len(s) + 1
           /\ Append(s, x) # <<>>
           /\ \A i \in 1..Len(s) : Append(s, x)[i] = s[i]
           /\ Append(s, x)[Len(s) + 1] = x
OBVIOUS

LEMMA Suffix ==
    ASSUME NEW T, NEW s \in Seq(T), NEW k \in 0..Len(s)
    PROVE  /\ SubSeq(s, k + 1, Len(s)) \in Seq(T)
           /\ Len(SubSeq(s, k + 1, Len(s))) = Len(s) - k
           /\ \A i \in 1..Len(s) - k : SubSeq(s, k + 1, Len(s))[i] = s[i + k]
OBVIOUS

LEMMA Prefix ==
    ASSUME NEW T, NEW s \in Seq(T), NEW k \in 0..Len(s)
    PROVE  /\ SubSeq(s, 1, k) \in Seq(T) /\ Len(SubSeq(s, 1, k)) = k
           /\ \A i \in 1..k : SubSeq(s, 1, k)[i] = s[i]
OBVIOUS

LEMMA SameSequence ==
    ASSUME NEW T, NEW s \in Seq(T), NEW r \in Seq(T), Len(s) = Len(r),
           \A i \in 1..Len(s) : s[i] = r[i]
    PROVE  s = r
OBVIOUS

LEMMA Concat ==
    ASSUME NEW T, NEW s \in Seq(T), NEW r \in Seq(T)
    PROVE  /\ s \o r \in Seq(T) /\ Len(s \o r) = Len(s) + Len(r)
           /\ \A i \in 1..Len(s) : (s \o r)[i] = s[i]
           /\ \A i \in 1..Len(r) : (s \o r)[Len(s) + i] = r[i]
           /\ \A i \in 1..Len(s) + Len(r) :
                (s \o r)[i] = IF i <= Len(s) THEN s[i] ELSE r[i - Len(s)]
OBVIOUS

LEMMA ConcatEmpty ==
    ASSUME NEW T, NEW s \in Seq(T)
    PROVE  s \o <<>> = s /\ <<>> \o s = s
OBVIOUS

LEMMA ConcatType ==
    ASSUME NEW T, NEW s \in Seq(T), NEW r \in Seq(T)
    PROVE  s \o r \in Seq(T) /\ Len(s \o r) = Len(s) + Len(r)
BY Concat

LEMMA ConcatAssoc ==
    ASSUME NEW T, NEW s \in Seq(T), NEW r \in Seq(T), NEW t \in Seq(T)
    PROVE  (s \o r) \o t = s \o (r \o t)
OBVIOUS

LEMMA Split ==
    ASSUME NEW T, NEW s \in Seq(T), NEW n \in 0..Len(s)
    PROVE  SubSeq(s, 1, n) \o SubSeq(s, n + 1, Len(s)) = s
<1>1. PICK a, b : a = SubSeq(s, 1, n) /\ b = SubSeq(s, n + 1, Len(s))
  OBVIOUS
<1>2. Len(s) \in Nat /\ n \in Nat /\ n <= Len(s)
  OBVIOUS
<1>3. a \in Seq(T) /\ Len(a) = n /\ \A i \in 1..n : a[i] = s[i]
  BY <1>1, Prefix
<1>4. b \in Seq(T) /\ Len(b) = Len(s) - n /\ \A i \in 1..Len(s) - n : b[i] = s[i + n]
  BY <1>1, Suffix
<1>5. PICK u : u = a \o b
  OBVIOUS
<1>6. u \in Seq(T) /\ Len(u) = Len(a) + Len(b)
      /\ \A i \in 1..Len(a) + Len(b) : u[i] = IF i <= Len(a) THEN a[i] ELSE b[i - Len(a)]
  BY <1>3, <1>4, <1>5, Concat
<1>7. \A i \in 1..Len(u) : u[i] = s[i]
  <2> TAKE i \in 1..Len(u)
  <2>1. CASE i <= n
    BY <2>1, <1>2, <1>3, <1>4, <1>6
  <2>2. CASE i > n
    BY <2>2, <1>2, <1>3, <1>4, <1>6
  <2> QED BY <2>1, <2>2, <1>2, <1>3, <1>4, <1>6
<1>8. u = s
  BY <1>2, <1>3, <1>4, <1>6, <1>7, SameSequence
<1> QED BY <1>1, <1>5, <1>8

LEMMA AppendIsConcat ==
    ASSUME NEW T, NEW s \in Seq(T), NEW x \in T
    PROVE  Append(s, x) = s \o <<x>> /\ <<x>> \in Seq(T)
OBVIOUS

LEMMA HeadAndTail ==
    ASSUME NEW T, NEW s \in Seq(T), s # <<>>
    PROVE  <<Head(s)>> \o Tail(s) = s
OBVIOUS

\* The first item of two sequences in a row is taken from the first of them.
LEMMA HeadOfConcat ==
    ASSUME NEW T, NEW s \in Seq(T), NEW r \in Seq(T), s # <<>>
    PROVE  s \o r # <<>> /\ Head(s \o r) = Head(s)
OBVIOUS

LEMMA TailOfConcat ==
    ASSUME NEW T, NEW s \in Seq(T), NEW r \in Seq(T), s # <<>>
    PROVE  Tail(s \o r) = Tail(s) \o r
OBVIOUS

LEMMA ConcatAppend ==
    ASSUME NEW T, NEW s \in Seq(T), NEW r \in Seq(T), NEW x \in T
    PROVE  s \o Append(r, x) = Append(s \o r, x)
OBVIOUS

\* A set that holds the empty sequence and, with a sequence, those that are
\* longer by an item holds all sequences.
LEMMA SequenceInduction ==
    ASSUME NEW T, NEW U, <<>> \in U,
           \A s \in Seq(T), x \in T : s \in U => Append(s, x) \in U
    PROVE  Seq(T) \subseteq U
<1> DEFINE N == {n \in Nat : \A s \in Seq(T) : Len(s) = n => s \in U}
<1>1. 0 \in N
  OBVIOUS
<1>2. ASSUME NEW n \in Nat, n \in N PROVE n + 1 \in N
  <2> SUFFICES ASSUME NEW s \in Seq(T), Len(s) = n + 1 PROVE s \in U
    OBVIOUS
  <2>1. PICK p, x : p = SubSeq(s, 1, n) /\ x = s[n + 1]
    OBVIOUS
  <2>2. n \in 0..Len(s) /\ x \in T
    BY <2>1
  <2>3. p \in Seq(T) /\ Len(p) = n /\ \A i \in 1..n : p[i] = s[i]
    BY <2>1, <2>2, Prefix
  <2>4. PICK t : t = Append(p, x)
    OBVIOUS
  <2>5. /\ t \in Seq(T) /\ Len(t) = n + 1 /\ t[n + 1] = x
        /\ \A i \in 1..n : t[i] = s[i]
    BY <2>2, <2>3, <2>4, Appended
  <2>6. \A i \in 1..Len(t) : t[i] = s[i]
    BY <2>1, <2>5
  <2>7. t = s
    BY <2>5, <2>6, SameSequence
  <2>8. p \in U
    BY <1>2, <2>3
  <2> QED BY <2>2, <2>3, <2>4, <2>7, <2>8
<1> HIDE DEF N
<1>3. Nat \subseteq N
  BY <1>1, <1>2, SetInduction
<1> QED BY <1>3 DEF N

-----------------------------------------------------------------------------
(* Rings.                                                                  *)

\* The three changes that the operators make, one field or two at a time.
Regrown(f, c)  == [f EXCEPT !.cap = c, !.head = 0]
Turned(f, h)   == [f EXCEPT !.head = h]
Refilled(f, s) == [f EXCEPT !.items = s]

LEMMA RingEmpty == ASSUME NEW T PROVE EmptyFifo \in Fifos(T) /\ EmptyFifo.items = <<>>
BY <<>> \in Seq(T), Len(<<>>) = 0 DEF Fifos, Count, EmptyFifo

LEMMA RingFields ==
    ASSUME NEW T, NEW f \in Fifos(T)
    PROVE  /\ f.cap \in Nat /\ f.head \in Nat /\ f.head <= f.cap
           /\ f.items \in Seq(T) /\ Len(f.items) \in Nat /\ Len(f.items) <= f.cap
BY DEF Fifos, Count

LEMMA RingRegrown ==
    ASSUME NEW T, NEW f \in Fifos(T), NEW c \in Nat, Len(f.items) <= c
    PROVE  /\ Regrown(f, c) \in Fifos(T)
           /\ Regrown(f, c).items = f.items /\ Regrown(f, c).cap = c /\ Regrown(f, c).head = 0
<1>1. PICK e : e = [f EXCEPT !.cap = c]
  OBVIOUS
<1>2. e \in [cap : Nat, head : Nat, items : Seq(T)] /\ e.items = f.items /\ e.cap = c
  BY <1>1 DEF Fifos, Count
<1>3. Regrown(f, c) = [e EXCEPT !.head = 0]
  BY <1>1 DEF Regrown
<1>4. PICK d : d = [e EXCEPT !.head = 0]
  OBVIOUS
<1>5. d \in Fifos(T) /\ d.items = e.items /\ d.cap = e.cap /\ d.head = 0
  BY <1>2, <1>4 DEF Fifos, Count
<1> QED BY <1>2, <1>3, <1>4, <1>5

LEMMA RingTurned ==
    ASSUME NEW T, NEW f \in Fifos(T), NEW h \in Nat, IF f.cap = 0 THEN h = 0 ELSE h < f.cap
    PROVE  /\ Turned(f, h) \in Fifos(T)
           /\ Turned(f, h).items = f.items /\ Turned(f, h).cap = f.cap /\ Turned(f, h).head = h
BY DEF Fifos, Count, Turned

Fits(T, f, s) == f \in Fifos(T) /\ s \in Seq(T) /\ Len(s) <= f.cap

LEMMA RingRefilled ==
    ASSUME NEW T, NEW f, NEW s, Fits(T, f, s)
    PROVE  /\ Refilled(f, s) \in Fifos(T)
           /\ Refilled(f, s).items = s
           /\ Refilled(f, s).cap = f.cap /\ Refilled(f, s).head = f.head
BY DEF Fifos, Count, Refilled, Fits

LEMMA Powers == ASSUME NEW n \in Nat PROVE PowerOfTwo(n) \in Nat /\ PowerOfTwo(n) >= n
<1> DEFINE enough == {p \in {1, 2, 4, 8, 16, 32, 64, 128} : n <= p}
<1>1. CASE enough = {}
  BY <1>1 DEF PowerOfTwo
<1>2. CASE enough # {}
  <2>1. \E p \in enough : \A q \in enough : p <= q
    BY <1>2, LeastNumber, enough \subseteq Nat
  <2>2. PowerOfTwo(n) \in enough
    BY <1>2, <2>1 DEF PowerOfTwo
  <2> QED BY <2>2
<1> QED BY <1>1, <1>2

LEMMA Reserves ==
    ASSUME NEW T, NEW f \in Fifos(T), NEW n \in Nat
    PROVE  LET g == Reserve(f, n)
           IN  /\ g \in Fifos(T) /\ g.items = f.items /\ g.cap - Len(g.items) >= n
               /\ g = f \/ g.head = 0
<1> DEFINE c == PowerOfTwo(Len(f.items) + n)
<1>1. f.cap \in Nat /\ Len(f.items) \in Nat
  BY RingFields
<1>2. c \in Nat /\ c >= Len(f.items) + n
  BY SMTT(60), <1>1, Powers
<1>3. Reserve(f, n) = IF f.cap - Len(f.items) >= n THEN f ELSE Regrown(f, c)
  BY DEF Reserve, Count, Regrown
<1> HIDE DEF c
<1>4. CASE f.cap - Len(f.items) >= n
  BY <1>3, <1>4
<1>5. CASE ~(f.cap - Len(f.items) >= n)
  <2>1. Len(f.items) <= c
    BY <1>1, <1>2
  <2>2. Reserve(f, n) = Regrown(f, c)
    BY <1>3, <1>5
  <2> QED BY <1>1, <1>2, <2>1, <2>2, RingRegrown
<1> QED BY <1>4, <1>5

\* Items are written at the end.
LEMMA Extends ==
    ASSUME NEW T, NEW f \in Fifos(T), NEW s \in Seq(T)
    PROVE  LET g == [Reserve(f, Len(s)) EXCEPT !.items = f.items \o s]
           IN  g \in Fifos(T) /\ g.items = f.items \o s
<1>1. PICK r : r = Reserve(f, Len(s))
  OBVIOUS
<1>2. PICK t : t = f.items \o s
  OBVIOUS
<1>3. f.items \in Seq(T) /\ Len(f.items) \in Nat /\ Len(s) \in Nat
  BY RingFields
<1>4. r \in Fifos(T) /\ r.items = f.items /\ r.cap - Len(f.items) >= Len(s)
  BY <1>1, <1>3, Reserves
<1>5. r.cap \in Nat
  BY <1>4, RingFields
<1>6. Fits(T, r, t)
  BY <1>2, <1>3, <1>4, <1>5 DEF Fits
<1>7. [Reserve(f, Len(s)) EXCEPT !.items = f.items \o s] = Refilled(r, t)
  BY <1>1, <1>2 DEF Refilled
<1> QED BY <1>2, <1>4, <1>5, <1>6, <1>7, RingRefilled

LEMMA Pushes ==
    ASSUME NEW T, NEW f \in Fifos(T), NEW x \in T
    PROVE  /\ Push(f, x) \in Fifos(T) /\ Push(f, x).items = Append(f.items, x)
           /\ f.head = 0 => Push(f, x).head = 0
<1>1. PICK r : r = Reserve(f, 1)
  OBVIOUS
<1>2. PICK t : t = Append(f.items, x)
  OBVIOUS
<1>3. f.items \in Seq(T) /\ Len(f.items) \in Nat
  BY RingFields
<1>4. /\ r \in Fifos(T) /\ r.items = f.items /\ r.cap - Len(f.items) >= 1
      /\ r = f \/ r.head = 0
  BY <1>1, <1>3, Reserves
<1>5. r.cap \in Nat
  BY <1>4, RingFields
<1>6. Fits(T, r, t)
  BY <1>2, <1>3, <1>4, <1>5 DEF Fits
<1>7. Push(f, x) = Refilled(r, t)
  BY <1>1, <1>2 DEF Push, Refilled
<1>8. Push(f, x) \in Fifos(T) /\ Push(f, x).items = t /\ Push(f, x).head = r.head
  BY <1>6, <1>7, RingRefilled
<1> QED BY <1>2, <1>4, <1>8

\* Items are taken at the front.
LEMMA DiscardsSome ==
    ASSUME NEW T, NEW f \in Fifos(T), NEW n \in 0..Len(f.items)
    PROVE  /\ Discard(f, n) \in Fifos(T)
           /\ Discard(f, n).items = SubSeq(f.items, n + 1, Len(f.items))
<1> DEFINE h == IF f.cap = 0 THEN 0 ELSE (f.head + n) % f.cap
<1>1. PICK s : s = SubSeq(f.items, n + 1, Len(f.items))
  OBVIOUS
<1>2. f.cap \in Nat /\ f.head \in Nat /\ f.items \in Seq(T) /\ Len(f.items) \in Nat
      /\ Len(f.items) <= f.cap
  BY RingFields
<1>3. h \in Nat /\ IF f.cap = 0 THEN h = 0 ELSE h < f.cap
  BY <1>2
<1>4. s \in Seq(T) /\ Len(s) = Len(f.items) - n
  BY <1>1, <1>2, Suffix
<1>5. PICK e : e = Turned(f, h)
  OBVIOUS
<1>6. Discard(f, n) = Refilled(e, s)
  BY <1>1, <1>5 DEF Discard, Turned, Refilled
<1> HIDE DEF h
<1>7. e \in Fifos(T) /\ e.cap = f.cap
  BY <1>3, <1>5, RingTurned
<1>8. Fits(T, e, s)
  BY <1>2, <1>4, <1>7 DEF Fits
<1>9. Discard(f, n) \in Fifos(T) /\ Discard(f, n).items = s
  BY <1>6, <1>8, RingRefilled
<1> QED BY <1>1, <1>9

LEMMA Discards ==
    ASSUME NEW T, NEW f \in Fifos(T), f.items # <<>>
    PROVE  Discard(f, 1) \in Fifos(T) /\ Discard(f, 1).items = Tail(f.items)
<1>1. f.items \in Seq(T) /\ Len(f.items) \in Nat
  BY RingFields
<1>2. 1 \in 0..Len(f.items) /\ Tail(f.items) = SubSeq(f.items, 1 + 1, Len(f.items))
  BY <1>1
<1>3. /\ Discard(f, 1) \in Fifos(T)
      /\ Discard(f, 1).items = SubSeq(f.items, 1 + 1, Len(f.items))
  BY <1>2, DiscardsSome
<1> QED BY <1>2, <1>3

\* The readable slice shows an item if there is one, and no more than there are.
LEMMA Shows ==
    ASSUME NEW T, NEW f \in Fifos(T)
    PROVE  /\ Readable(f) \in 0..Len(f.items)
           /\ f.items # <<>> => Readable(f) > 0
<1>1. f.items = <<>> <=> Len(f.items) = 0
  BY RingFields
<1> QED BY <1>1, RingFields DEF Fifos, Readable, Count

\* A ring whose items start at its front has all its room at its end.
LEMMA Room ==
    ASSUME NEW T, NEW f \in Fifos(T)
    PROVE  /\ Writable(f) \in Nat
           /\ f.head = 0 => Writable(f) = f.cap - Len(f.items)
BY RingFields DEF Fifos, Writable, Count
=============================================================================
