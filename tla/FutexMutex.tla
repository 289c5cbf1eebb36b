------------------------------ MODULE FutexMutex ------------------------------
(***************************************************************************)
(* The mutex of Mutex.zig on Linux (FutexImpl): a 32-bit word and the      *)
(* futex of futex.zig.  Every thread may lock, try to lock and unlock; one *)
(* action is one atomic operation on the word or one futex call.  The      *)
(* kernel's futex is external: a wait compares and sleeps in one step, a   *)
(* wake picks any sleeper, and a sleeper may return for no reason (EINTR). *)
(***************************************************************************)
EXTENDS Naturals, FiniteSets

CONSTANT Threads

VARIABLES
    state,    \* FutexImpl.state
    pc        \* where each thread stands in lock, lockSlow and unlock

vars == <<state, pc>>

Unlocked  == 0
Locked    == 1
Contended == 3     \* keeps the bit of Locked, which `lock bts` tests

Places == {"idle", "load", "wait", "asleep", "swap", "critical", "wake"}

TypeOK ==
    /\ state \in {Unlocked, Locked, Contended}
    /\ pc \in [Threads -> Places]

Init ==
    /\ state = Unlocked
    /\ pc = [t \in Threads |-> "idle"]

Goto(t, from, to) ==
    /\ pc[t] = from
    /\ pc' = [pc EXCEPT ![t] = to]

Holders  == {t \in Threads : pc[t] = "critical"}
Sleepers == {t \in Threads : pc[t] = "asleep"}

-----------------------------------------------------------------------------
(* lock and tryLock.                                                       *)

\* Mutant of BitClear: the bit that only Contended has.
BitClearHigh == (state \div 2) % 2 = 0

BitClear == state % 2 = 0

\* tryLock finds the bit of Locked clear and sets it.
Acquire(t) ==
    /\ Goto(t, "idle", "critical")
    /\ BitClear
    /\ state' = state + 1

\* tryLock fails inside lock, also spuriously (cmpxchgWeak on other
\* processors than x86).  A failed tryLock of a caller of its own is a stutter.
FailTryLock(t) ==
    /\ Goto(t, "idle", "load")
    /\ UNCHANGED state

\* lockSlow looks at the word before it swaps.
Load(t) ==
    /\ Goto(t, "load", IF state = Contended THEN "wait" ELSE "swap")
    /\ UNCHANGED state

\* Futex.waitForever(&state, contended).
Wait(t) ==
    /\ Goto(t, "wait", IF state = Contended THEN "asleep" ELSE "swap")
    /\ UNCHANGED state

\* A sleeper returns without a wake.
Spurious(t) ==
    /\ Goto(t, "asleep", "swap")
    /\ UNCHANGED state

\* Mutant of Swap: a thread that slept takes the lock as if nobody waited.
SwapLocked(t) ==
    /\ Goto(t, "swap", IF state = Unlocked THEN "critical" ELSE "wait")
    /\ state' = IF state = Unlocked THEN Locked ELSE Contended

Swap(t) ==
    /\ Goto(t, "swap", IF state = Unlocked THEN "critical" ELSE "wait")
    /\ state' = Contended

-----------------------------------------------------------------------------
(* unlock.                                                                 *)

\* Mutant of Unlock: only the holder's own value is expected in the word.
UnlockLocked(t) ==
    /\ Goto(t, "critical", "idle")
    /\ state' = Unlocked

Unlock(t) ==
    /\ Goto(t, "critical", IF state = Contended THEN "wake" ELSE "idle")
    /\ state' = Unlocked

\* Futex.wake(&state, 1).
Wake(t) ==
    /\ pc[t] = "wake"
    /\ IF Sleepers = {} THEN pc' = [pc EXCEPT ![t] = "idle"]
       ELSE \E u \in Sleepers : pc' = [pc EXCEPT ![t] = "idle", ![u] = "swap"]
    /\ UNCHANGED state

-----------------------------------------------------------------------------
(* What a thread runs by itself: a caller need not lock, and the kernel    *)
(* need not wake a sleeper by mistake.                                     *)

Continue(t) == Load(t) \/ Wait(t) \/ Swap(t) \/ Unlock(t) \/ Wake(t)

Next == \E t \in Threads :
    Acquire(t) \/ FailTryLock(t) \/ Spurious(t) \/ Continue(t)

\* Every running thread is scheduled again, and a holder unlocks.
Spec == Init /\ [][Next]_vars /\ \A t \in Threads : WF_vars(Continue(t))

-----------------------------------------------------------------------------

\* At most one thread is in the critical section, and the word is unlocked
\* exactly when none is: the barging tryLock, the swap of every waiter and the
\* late waker never free a lock that is held (the assertion of Mutex.zig:197).
MutualExclusion ==
    /\ \A t, u \in Holders : t = u
    /\ state = Unlocked <=> Holders = {}

\* No wake-up is lost: while a thread sleeps, the word tells the holder to wake
\* somebody, or a wake is on its way, or a thread that was just woken will mark
\* the word again (Mutex.zig:174-182).
NoLostWakeup ==
    Sleepers # {} =>
        \/ state = Contended
        \/ \E t \in Threads : pc[t] \in {"wake", "swap"}

Waiting == {t \in Threads : pc[t] \in {"load", "wait", "asleep", "swap"}}

\* The lock never stops: while threads wait for it, one of them or a barging
\* thread gets it.
DeadlockFree == (Waiting # {}) ~> (Holders # {})
=============================================================================
