------------------------- MODULE SocketRegistryProofs -------------------------
(* The promise of SocketRegistry, for every set of sockets and contexts: no  *)
(* socket is left with a freed context.  That a context lives exactly as     *)
(* long as somebody needs it is how Settle is defined, and is the lemma on   *)
(* the way.  SocketLoop implements the registry (SocketLoopImpl), so both    *)
(* hold of the lists and counts of the loop.                                 *)
EXTENDS SocketRegistry, TLAPS

\* Settle keeps the type of life and leaves live exactly the needed contexts,
\* if every context that is needed was live.
LEMMA SettleFacts ==
    ASSUME life \in [Contexts -> {"none", "live", "dead"}], NEW so, NEW cx, NEW ow,
           \A c \in Contexts : Needs(c, so, cx, ow) => life[c] = "live"
    PROVE  LET l == Settle(so, cx, ow)
           IN  /\ l \in [Contexts -> {"none", "live", "dead"}]
               /\ \A c \in Contexts : l[c] = "live" <=> Needs(c, so, cx, ow)
               /\ \A c \in Contexts : l[c] = "none" <=> life[c] = "none"
  BY DEF Settle

LEMMA InitInv == Init => Inv
  BY DEF Init, Inv, TypeOK, LiveIffNeeded,
     ContextOutlivesSocket, Needs

\* The steps that end somebody's need of a context.
LEMMA EndStep ==
    ASSUME Inv, life' = Settle(sock', ctx', owner'), TypeOK',
           \A c \in Contexts : Needs(c, sock', ctx', owner') => life[c] = "live",
           \A s \in Sockets : sock'[s] # "free" =>
              ctx'[s] \in Contexts /\ life[ctx'[s]] # "none"
    PROVE  Inv'
<1>1. life \in [Contexts -> {"none", "live", "dead"}]
  BY DEF Inv, TypeOK
<1>2. /\ \A c \in Contexts : life'[c] = "live" <=> Needs(c, sock', ctx', owner')
      /\ \A c \in Contexts : life'[c] = "none" <=> life[c] = "none"
  BY <1>1, SettleFacts
<1>3. LiveIffNeeded'
  BY <1>2 DEF LiveIffNeeded
<1>4. ContextOutlivesSocket'
  BY <1>2 DEF ContextOutlivesSocket
<1> QED BY <1>3, <1>4 DEF Inv

LEMMA NextInv == Inv /\ [Next]_vars => Inv'
<1> SUFFICES ASSUME Inv, [Next]_vars PROVE Inv'
  OBVIOUS
<1> USE DEF Inv, TypeOK, LiveIffNeeded, ContextOutlivesSocket, Needs
<1>1. ASSUME NEW c \in Contexts, Create(c) PROVE Inv'
  BY <1>1 DEF Create
<1>2. ASSUME NEW c \in Contexts, Disown(c) PROVE Inv'
  <2>1. life \in [Contexts -> {"none", "live", "dead"}]
    OBVIOUS
  <2>2. \A d \in Contexts : Needs(d, sock, ctx, owner') => life[d] = "live"
    BY <1>2 DEF Disown
  <2>3. life' = Settle(sock', ctx', owner')
    BY <1>2 DEF Disown
  <2>4. life' \in [Contexts -> {"none", "live", "dead"}]
    BY <2>1, <2>3 DEF Settle
  <2> QED BY <1>2, <2>2, <2>3, <2>4, EndStep DEF Disown
<1>3. ASSUME NEW s \in Sockets, NEW c \in Contexts, Open(s, c) PROVE Inv'
  BY <1>3 DEF Open
<1>4. ASSUME NEW s \in Sockets, BeginClose(s) PROVE Inv'
  BY <1>4 DEF BeginClose
<1>5. ASSUME NEW s \in Sockets, Close(s) PROVE Inv'
  <2>1. sock' = [sock EXCEPT ![s] = "closed"] /\ UNCHANGED <<ctx, owner>>
    BY <1>5 DEF Close
  <2>2. \A d \in Contexts : Needs(d, sock', ctx', owner') => life[d] = "live"
    BY <1>5, <2>1 DEF Close
  <2>3. life' = Settle(sock', ctx', owner')
    BY <1>5 DEF Close
  <2>4. life' \in [Contexts -> {"none", "live", "dead"}]
    BY <2>3 DEF Settle
  <2>5. TypeOK'
    BY <2>1, <2>4
  <2>6. \A t \in Sockets : sock'[t] # "free" =>
           ctx'[t] \in Contexts /\ life[ctx'[t]] # "none"
    BY <1>5, <2>1 DEF Close
  <2> QED BY <2>2, <2>3, <2>5, <2>6, EndStep
<1>6. ASSUME NEW s \in Sockets, NEW n \in Sockets, NEW c \in Contexts,
             Adopt(s, n, c)
      PROVE  Inv'
  <2>1. /\ \A t \in Sockets : sock'[t] = IF t = n THEN "open" ELSE
                                         IF t = s THEN "free" ELSE sock[t]
        /\ \A t \in Sockets : ctx'[t] = IF t = n THEN c ELSE
                                        IF t = s THEN Null ELSE ctx[t]
        /\ owner' = owner /\ life[c] = "live"
        /\ sock' \in [Sockets -> {"free", "open", "closing", "closed"}]
        /\ ctx' \in [Sockets -> Contexts \cup {Null}]
    BY <1>6 DEF Adopt
  <2>2. \A d \in Contexts : Needs(d, sock', ctx', owner') => life[d] = "live"
    BY <2>1
  <2>3. life' = Settle(sock', ctx', owner')
    BY <1>6 DEF Adopt
  <2>4. life' \in [Contexts -> {"none", "live", "dead"}]
    BY <2>3 DEF Settle
  <2>5. TypeOK'
    BY <2>1, <2>4
  <2>6. \A t \in Sockets : sock'[t] # "free" =>
           ctx'[t] \in Contexts /\ life[ctx'[t]] # "none"
    BY <2>1
  <2> QED BY <2>2, <2>3, <2>5, <2>6, EndStep
<1>7. ASSUME Reap PROVE Inv'
  <2>1. /\ \A t \in Sockets : sock'[t] = IF sock[t] = "closed" THEN "free" ELSE sock[t]
        /\ \A t \in Sockets : ctx'[t] = IF sock[t] = "closed" THEN Null ELSE ctx[t]
        /\ \A c \in Contexts : life'[c] = IF life[c] = "dead" THEN "none" ELSE life[c]
        /\ owner' = owner /\ TypeOK'
    BY <1>7 DEF Reap
  <2>2. LiveIffNeeded'
    BY <2>1
  <2>3. \A t \in Sockets : sock[t] \in {"open", "closing"} => life[ctx[t]] = "live"
    OBVIOUS
  <2>4. ContextOutlivesSocket'
    BY <2>1, <2>3
  <2> QED BY <2>1, <2>2, <2>4
<1>8. CASE UNCHANGED vars
  BY <1>8 DEF vars
<1> QED BY <1>1, <1>2, <1>3, <1>4, <1>5, <1>6, <1>7, <1>8 DEF Next

\* A context dies in the step that ends the last need of it and in no other,
\* and no socket, not even a closed one, is left with a freed context.
THEOREM RegistryInv == Spec => []Inv
  BY InitInv, NextInv, PTL DEF Spec

\* `s->context` may be read for as long as s is allocated (loop.c:209-240).
THEOREM SocketsKeepContext == Spec => []ContextOutlivesSocket
<1>1. Inv => ContextOutlivesSocket
  BY DEF Inv
<1> QED BY <1>1, RegistryInv, PTL
=============================================================================
