----------------------------- MODULE Semaphore ------------------------------
(***************************************************************************)
(* One semaphore of src/kernel/sync.c, shared by the threads of Scheduler. *)
(*                                                                         *)
(* Threads call semaphore_wait() and semaphore_signal() with interrupts    *)
(* on: the timer can switch threads between any two of the steps below, a  *)
(* step being an access to the semaphore, to its spinlock or to the thread *)
(* table.  What is read and written under the spinlock in one go is one    *)
(* step.                                                                   *)
(***************************************************************************)
EXTENDS SyncThread, Sequences

CONSTANTS
    InitialCount,       \* semaphore_init()'s argument
    WaitersMax,         \* SYNC_WAITERS_MAX
    MaxSignals,         \* bound on the number of signals
    CanWait, CanSignal  \* which workers call which operation

ASSUME SemaphoreAssumption ==
    /\ InitialCount \in Nat /\ WaitersMax \in Nat /\ MaxSignals \in Nat
    /\ CanWait \subseteq Workers /\ CanSignal \subseteq Workers

VARIABLES
    count, locked, waiters,     \* the semaphore
    taken,                      \* history: waits that have returned
    given                       \* history: signals that have taken effect

semFields == <<count, locked, waiters, taken, given>>

SemFieldsInit ==
    /\ count = InitialCount /\ locked = FALSE /\ waiters = <<>>
    /\ taken = 0 /\ given = 0

-----------------------------------------------------------------------------
\* spinlock_acquire(): the exchange that succeeds, and spinlock_release().
spinlock_acquire(t, from, to) ==
    /\ Runs(t, from) /\ ~locked
    /\ locked' = TRUE /\ Goto(t, to)
    /\ UNCHANGED <<threadVars, count, waiters, taken, given>>
spinlock_release(t, from, to) ==
    /\ Runs(t, from)
    /\ locked' = FALSE /\ Goto(t, to)
    /\ UNCHANGED <<threadVars, count, waiters, taken, given>>

CallWait(t) ==
    /\ t \in CanWait /\ Runs(t, "idle") /\ Goto(t, "w_lock")
    /\ UNCHANGED <<threadVars, count, locked, waiters, taken, given>>

\* Under the lock: take a unit, or join the queue, or spin when it is full.
WaitTest_zero(t) ==
    /\ Runs(t, "w_test") /\ count >= 0
    /\ count' = count - 1 /\ taken' = taken + 1 /\ Goto(t, "w_taken")
    /\ UNCHANGED <<threadVars, locked, waiters, given>>
WaitTest(t) ==
    /\ Runs(t, "w_test")
    /\ \/ /\ count > 0
          /\ count' = count - 1 /\ taken' = taken + 1
          /\ Goto(t, "w_taken") /\ UNCHANGED waiters
       \/ /\ count <= 0 /\ Len(waiters) < WaitersMax
          /\ waiters' = Append(waiters, current_thread)
          /\ Goto(t, "w_block") /\ UNCHANGED <<count, taken>>
       \/ /\ count <= 0 /\ Len(waiters) >= WaitersMax
          /\ Goto(t, "w_full") /\ UNCHANGED <<count, taken, waiters>>
    /\ UNCHANGED <<threadVars, locked, given>>

WaitBlock(t) ==
    /\ Runs(t, "w_block") /\ thread_block_current /\ Goto(t, "w_unlock")
    /\ UNCHANGED <<count, locked, waiters, taken, given>>

\* The halt loop ends when somebody has made the thread READY again.
WaitWoken(t) ==
    /\ Runs(t, "w_halt") /\ state[t] # "BLOCKED" /\ Goto(t, "w_lock")
    /\ UNCHANGED <<threadVars, count, locked, waiters, taken, given>>

semaphore_wait(t) ==
    \/ CallWait(t)
    \/ spinlock_acquire(t, "w_lock", "w_test")
    \/ WaitTest(t)
    \/ WaitBlock(t)
    \/ spinlock_release(t, "w_unlock", "w_halt")
    \/ WaitWoken(t)
    \/ spinlock_release(t, "w_taken", "idle")
    \/ spinlock_release(t, "w_full", "w_lock")

CallSignal(t) ==
    /\ t \in CanSignal /\ given < MaxSignals /\ Runs(t, "idle") /\ Goto(t, "s_lock")
    /\ UNCHANGED <<threadVars, count, locked, waiters, taken, given>>

\* Under the lock: hand the signal to the first waiter, or count it.
SignalGive_keepsWaiter(t) ==
    /\ Runs(t, "s_give")
    /\ \/ waiters # <<>> /\ thread_unblock(Head(waiters)) /\ UNCHANGED <<count, waiters>>
       \/ waiters = <<>> /\ count' = count + 1 /\ UNCHANGED <<threadVars, waiters>>
    /\ given' = given + 1 /\ Goto(t, "s_unlock")
    /\ UNCHANGED <<locked, taken>>
SignalGive(t) ==
    /\ Runs(t, "s_give")
    /\ \/ /\ waiters # <<>>
          /\ waiters' = Tail(waiters) /\ thread_unblock(Head(waiters))
          /\ UNCHANGED count
       \/ /\ waiters = <<>>
          /\ count' = count + 1 /\ UNCHANGED <<threadVars, waiters>>
    /\ given' = given + 1 /\ Goto(t, "s_unlock")
    /\ UNCHANGED <<locked, taken>>

semaphore_signal(t) ==
    \/ CallSignal(t)
    \/ spinlock_acquire(t, "s_lock", "s_give")
    \/ SignalGive(t)
    \/ spinlock_release(t, "s_unlock", "idle")

-----------------------------------------------------------------------------
Queued == {"w_block", "w_unlock", "w_halt"}
UnderLock == {"w_test", "w_block", "w_unlock", "w_taken", "w_full", "s_give", "s_unlock"}
InQueue(t) == \E k \in 1 .. Len(waiters) : waiters[k] = t

\* The spinlock has one holder; what a thread in or out of the queue is doing.
SemaphoreInv ==
    /\ count \in Nat /\ locked \in BOOLEAN /\ taken \in Nat /\ given \in Nat
    /\ waiters \in Seq(Workers)
    /\ \A t, u \in ThreadIdx : pc[t] \in UnderLock /\ pc[u] \in UnderLock => t = u
    /\ \A t \in ThreadIdx : pc[t] \in UnderLock => locked
    /\ \A j, k \in 1 .. Len(waiters) : waiters[j] = waiters[k] => j = k
    /\ \A t \in ThreadIdx :
          /\ InQueue(t) => pc[t] \in Queued
          /\ pc[t] = "w_block" => InQueue(t)
          /\ InQueue(t) /\ pc[t] # "w_block" => state[t] = "BLOCKED"
          /\ state[t] = "BLOCKED" => InQueue(t) /\ pc[t] # "w_block"

(* No wait returns without a unit of its own: the waits that returned, with the
   units still to be had, never exceed the initial count plus the signals. *)
NeverOverAdmits ==
    taken + (IF count > 0 THEN count ELSE 0) <= InitialCount + given

(* The waiter queue: a thread is in it at most once, only while it waits, and a
   blocked thread is in it, so the signal that would wake it finds it. *)
QueueSound ==
    /\ \A j, k \in 1 .. Len(waiters) : waiters[j] = waiters[k] => j = k
    /\ \A t \in Workers :
          /\ InQueue(t) => pc[t] \in Queued
          /\ state[t] = "BLOCKED" => InQueue(t)
=============================================================================
