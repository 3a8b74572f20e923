------------------------------- MODULE Mutex --------------------------------
(***************************************************************************)
(* One mutex of src/kernel/sync.c, shared by the threads of Scheduler: a   *)
(* spinlock and an owner that is written after the lock is taken.  The     *)
(* timer can switch threads between any two steps.  A worker may call      *)
(* mutex_unlock() whether it holds the mutex or not.                       *)
(***************************************************************************)
EXTENDS SyncThread

VARIABLES mutex_lock_word, owner    \* the mutex: its spinlock and its owner field

mutexFields == <<mutex_lock_word, owner>>

MutexFieldsInit == mutex_lock_word = FALSE /\ owner = -1

-----------------------------------------------------------------------------
CallLock(t) ==
    /\ Runs(t, "idle") /\ Goto(t, "spin")
    /\ UNCHANGED <<threadVars, mutex_lock_word, owner>>

\* The exchange of spinlock_try_acquire() that finds the lock free.
TryAcquire(t) ==
    /\ Runs(t, "spin") /\ ~mutex_lock_word
    /\ mutex_lock_word' = TRUE /\ Goto(t, "own")
    /\ UNCHANGED <<threadVars, owner>>

SetOwner(t) ==
    /\ Runs(t, "own")
    /\ owner' = current_thread /\ Goto(t, "held")
    /\ UNCHANGED <<threadVars, mutex_lock_word>>

mutex_lock(t) == CallLock(t) \/ TryAcquire(t) \/ SetOwner(t)

\* Only the owner goes on; for any other caller mutex_unlock() returns.
UnlockTest_anyone(t) ==
    /\ Runs(t, "idle") \/ Runs(t, "held")
    /\ Goto(t, "u_clear")
    /\ UNCHANGED <<threadVars, mutex_lock_word, owner>>
UnlockTest_byId(t) ==
    /\ Runs(t, "idle") \/ Runs(t, "held")
    /\ IF owner = current_thread + 1 THEN Goto(t, "u_clear") ELSE UNCHANGED pc
    /\ UNCHANGED <<threadVars, mutex_lock_word, owner>>
UnlockTest(t) ==
    /\ Runs(t, "idle") \/ Runs(t, "held")
    /\ IF owner = current_thread THEN Goto(t, "u_clear") ELSE UNCHANGED pc
    /\ UNCHANGED <<threadVars, mutex_lock_word, owner>>

ClearOwner(t) ==
    /\ Runs(t, "u_clear")
    /\ owner' = -1 /\ Goto(t, "u_release")
    /\ UNCHANGED <<threadVars, mutex_lock_word>>

Release(t) ==
    /\ Runs(t, "u_release")
    /\ mutex_lock_word' = FALSE /\ Goto(t, "idle")
    /\ UNCHANGED <<threadVars, owner>>

mutex_unlock(t) == UnlockTest(t) \/ ClearOwner(t) \/ Release(t)

-----------------------------------------------------------------------------
Inside == {"own", "held", "u_clear", "u_release"}

\* The two fields against where the threads stand.
MutexInv ==
    /\ mutex_lock_word \in BOOLEAN /\ owner \in ThreadIdx \cup {-1}
    /\ \A t, u \in ThreadIdx : pc[t] \in Inside /\ pc[u] \in Inside => t = u
    /\ \A t \in ThreadIdx : pc[t] \in Inside => mutex_lock_word
    /\ \A t \in ThreadIdx : pc[t] \in {"held", "u_clear"} => owner = t
    /\ \A t \in ThreadIdx : owner = t => pc[t] \in {"held", "u_clear"}

(* mutex_lock() and mutex_unlock(): between the two a thread is alone, the owner
   field names it, so its own unlock will go through, and nobody else's call of
   mutex_unlock() has released the lock under it. *)
HolderAlone ==
    \A t \in ThreadIdx :
        pc[t] = "held" => /\ mutex_lock_word /\ owner = t
                          /\ \A u \in ThreadIdx \ {t} : pc[u] \notin Inside

(* A mutex that is taken becomes free again, wherever the timer interrupts its
   holder, as long as every holder calls mutex_unlock(). *)
LockComesFree == mutex_lock_word ~> ~mutex_lock_word
=============================================================================
