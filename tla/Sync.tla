-------------------------------- MODULE Sync --------------------------------
(***************************************************************************)
(* A mutex and a semaphore of src/kernel/sync.c used by the same threads.  *)
(* A worker is in one operation at a time, and does not wait on the        *)
(* semaphore while it holds the mutex.                                     *)
(***************************************************************************)
EXTENDS Mutex, Semaphore

syncVars == <<threadVars, pc, mutexFields, semFields>>

SyncInit == WorkersInit /\ MutexFieldsInit /\ SemFieldsInit

SyncTick == scheduler_tick /\ UNCHANGED <<pc, mutexFields, semFields>>

MutexCall(t) == (mutex_lock(t) \/ mutex_unlock(t)) /\ UNCHANGED semFields
SemaphoreCall(t) == (semaphore_wait(t) \/ semaphore_signal(t)) /\ UNCHANGED mutexFields

SyncNext == SyncTick \/ \E t \in Workers : MutexCall(t) \/ SemaphoreCall(t)

SyncSpec == SyncInit /\ [][SyncNext]_syncVars

\* The timer keeps interrupting, and a thread that gets the processor again and
\* again goes on with an operation it is in; whether it calls one is up to it.
FairSyncSpec ==
    /\ SyncSpec
    /\ WF_syncVars(SyncTick)
    /\ \A t \in Workers : SF_syncVars(MutexCall(t) /\ pc[t] \in Inside)

-----------------------------------------------------------------------------
SyncPlaces == Inside \cup UnderLock \cup {"idle", "spin", "w_lock", "w_halt", "s_lock"}

\* A worker that has the processor is RUNNING, or has just blocked itself.
SyncInv ==
    /\ pc \in [ThreadIdx -> SyncPlaces]
    /\ state[current_thread] \in {"RUNNING", "BLOCKED"}
    /\ MutexInv
    /\ SemaphoreInv
    /\ NeverOverAdmits
=============================================================================
