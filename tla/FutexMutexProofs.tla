-------------------------- MODULE FutexMutexProofs --------------------------
(***************************************************************************)
(* Proofs about the futex mutex, for every set of threads: the lock gives  *)
(* mutual exclusion and loses no wake-up.  MutualExclusion is inductive    *)
(* with the types alone; NoLostWakeup needs nothing else either, but each  *)
(* step has to be followed through the three ways a sleeper is remembered. *)
(***************************************************************************)
EXTENDS FutexMutex, TLAPS

LEMMA Words == Unlocked # Locked /\ Unlocked # Contended /\ Locked # Contended
BY DEF Unlocked, Locked, Contended

\* The bit test of tryLock succeeds on an unlocked word only, and sets Locked.
LEMMA BitTest ==
    ASSUME TypeOK, BitClear
    PROVE  state = Unlocked /\ state + 1 = Locked
BY DEF TypeOK, BitClear, Unlocked, Locked, Contended

LEMMA Typing == TypeOK /\ [Next]_vars => TypeOK'
<1> SUFFICES ASSUME TypeOK, [Next]_vars PROVE TypeOK'
  OBVIOUS
<1> USE DEF TypeOK
<1>1. CASE UNCHANGED vars
  BY <1>1 DEF vars
<1>2. ASSUME NEW t \in Threads, Acquire(t) PROVE TypeOK'
  BY <1>2, BitTest DEF Acquire, Goto, Places
<1>3. ASSUME NEW t \in Threads, FailTryLock(t) \/ Spurious(t) PROVE TypeOK'
  BY <1>3 DEF FailTryLock, Spurious, Goto, Places
<1>4. ASSUME NEW t \in Threads, Load(t) \/ Wait(t) PROVE TypeOK'
  BY <1>4 DEF Load, Wait, Goto, Places
<1>5. ASSUME NEW t \in Threads, Swap(t) \/ Unlock(t) PROVE TypeOK'
  BY <1>5 DEF Swap, Unlock, Goto, Places
<1>6. ASSUME NEW t \in Threads, Wake(t) PROVE TypeOK'
  BY <1>6 DEF Wake, Sleepers, Places
<1> QED BY <1>1, <1>2, <1>3, <1>4, <1>5, <1>6 DEF Next, Continue

-----------------------------------------------------------------------------

\* A step that changes neither the word nor who holds the lock.
LEMMA SameHolders ==
    ASSUME MutualExclusion, UNCHANGED state, Holders' = Holders
    PROVE  MutualExclusion'
BY DEF MutualExclusion

LEMMA ExclusionStep == TypeOK /\ MutualExclusion /\ [Next]_vars => MutualExclusion'
<1> SUFFICES ASSUME TypeOK, MutualExclusion, [Next]_vars PROVE MutualExclusion'
  OBVIOUS
<1>1. CASE UNCHANGED vars
  BY <1>1, SameHolders DEF vars, Holders
<1>2. ASSUME NEW t \in Threads, Acquire(t) PROVE MutualExclusion'
  <2>1. state = Unlocked /\ state' = Locked
    BY <1>2, BitTest DEF Acquire
  <2>2. Holders = {} /\ Holders' = {t}
    BY <1>2, <2>1 DEF Acquire, Goto, MutualExclusion, Holders, TypeOK
  <2> QED BY <2>1, <2>2, Words DEF MutualExclusion
<1>3. ASSUME NEW t \in Threads, FailTryLock(t) \/ Load(t) \/ Wait(t) \/ Spurious(t)
      PROVE  MutualExclusion'
  <2>1. UNCHANGED state /\ Holders' = Holders
    BY <1>3 DEF FailTryLock, Load, Wait, Spurious, Goto, Holders, TypeOK
  <2> QED BY <2>1, SameHolders
<1>4. ASSUME NEW t \in Threads, Swap(t) PROVE MutualExclusion'
  <2>1. CASE state = Unlocked
    <3>1. Holders = {} /\ Holders' = {t}
      BY <1>4, <2>1 DEF Swap, Goto, MutualExclusion, Holders, TypeOK
    <3> QED BY <1>4, <3>1, Words DEF MutualExclusion, Swap
  <2>2. CASE state # Unlocked
    <3>1. Holders' = Holders
      BY <1>4, <2>2 DEF Swap, Goto, Holders, TypeOK
    <3> QED BY <1>4, <2>2, <3>1, Words DEF MutualExclusion, Swap
  <2> QED BY <2>1, <2>2
<1>5. ASSUME NEW t \in Threads, Unlock(t) PROVE MutualExclusion'
  <2>1. Holders = {t}
    BY <1>5 DEF Unlock, Goto, MutualExclusion, Holders
  <2>2. Holders' = {}
    BY <1>5, <2>1 DEF Unlock, Goto, Holders, TypeOK
  <2> QED BY <1>5, <2>2 DEF MutualExclusion, Unlock
<1>6. ASSUME NEW t \in Threads, Wake(t) PROVE MutualExclusion'
  <2>1. UNCHANGED state /\ Holders' = Holders
    BY <1>6 DEF Wake, Sleepers, Holders, TypeOK
  <2> QED BY <2>1, SameHolders
<1> QED BY <1>1, <1>2, <1>3, <1>4, <1>5, <1>6 DEF Next, Continue

\* Two threads never hold the mutex together, and the word always tells
\* whether one does (FutexImpl.lock, tryLock, lockSlow and unlock).
THEOREM Exclusion == Spec => []MutualExclusion
<1>1. Init => TypeOK /\ MutualExclusion
  BY Words DEF Init, TypeOK, MutualExclusion, Holders, Places
<1> QED BY <1>1, Typing, ExclusionStep, PTL DEF Spec

-----------------------------------------------------------------------------

LEMMA WakeupStep == TypeOK /\ NoLostWakeup /\ [Next]_vars => NoLostWakeup'
<1> SUFFICES ASSUME TypeOK, NoLostWakeup, [Next]_vars PROVE NoLostWakeup'
  OBVIOUS
<1> USE DEF NoLostWakeup, Sleepers
<1>1. CASE UNCHANGED vars
  BY <1>1 DEF vars
<1>2. ASSUME NEW t \in Threads, Acquire(t) PROVE NoLostWakeup'
  <2>1. state # Contended
    BY <1>2, BitTest, Words DEF Acquire
  <2> QED BY <1>2, <2>1 DEF Acquire, Goto, TypeOK
<1>3. ASSUME NEW t \in Threads, FailTryLock(t) \/ Load(t) PROVE NoLostWakeup'
  BY <1>3 DEF FailTryLock, Load, Goto, TypeOK
<1>4. ASSUME NEW t \in Threads, Wait(t) PROVE NoLostWakeup'
  BY <1>4 DEF Wait, Goto, TypeOK
<1>5. ASSUME NEW t \in Threads, Spurious(t) PROVE NoLostWakeup'
  BY <1>5 DEF Spurious, Goto, TypeOK
<1>6. ASSUME NEW t \in Threads, Swap(t) PROVE NoLostWakeup'
  BY <1>6 DEF Swap
<1>7. ASSUME NEW t \in Threads, Unlock(t) PROVE NoLostWakeup'
  <2>1. CASE state = Contended
    BY <1>7, <2>1 DEF Unlock, Goto, TypeOK
  <2>2. CASE state # Contended
    BY <1>7, <2>2 DEF Unlock, Goto, TypeOK
  <2> QED BY <2>1, <2>2
<1>8. ASSUME NEW t \in Threads, Wake(t) PROVE NoLostWakeup'
  <2>1. CASE Sleepers = {}
    BY <1>8, <2>1 DEF Wake, TypeOK
  <2>2. CASE Sleepers # {}
    <3>1. PICK u \in Sleepers : pc' = [pc EXCEPT ![t] = "idle", ![u] = "swap"]
      BY <1>8, <2>2 DEF Wake
    <3>2. pc'[u] = "swap"
      BY <3>1 DEF TypeOK
    <3> QED BY <3>2
  <2> QED BY <2>1, <2>2
<1> QED BY <1>1, <1>2, <1>3, <1>4, <1>5, <1>6, <1>7, <1>8 DEF Next, Continue

\* No thread sleeps on a mutex that nobody will wake it for.
THEOREM WakeupsKept == Spec => []NoLostWakeup
<1>1. Init => TypeOK /\ NoLostWakeup
  BY DEF Init, TypeOK, NoLostWakeup, Sleepers, Places
<1> QED BY <1>1, Typing, WakeupStep, PTL DEF Spec
=============================================================================
