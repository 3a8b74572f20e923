---------------------------- MODULE ThreadProofs ----------------------------
(***************************************************************************)
(* Proofs about Scheduler and about the two modules built on it, Sync and  *)
(* Process, for any number of threads.                                     *)
(***************************************************************************)
EXTENDS Process, Sync, BasicProofs, TLAPS

-----------------------------------------------------------------------------
(***************************************************************************)
(* Proofs about Scheduler, for any number of threads and any use of the    *)
(* policies: CurrentRuns together with the types is inductive, and from it *)
(* follows that a terminated thread never gets the processor back.         *)
(***************************************************************************)

\* A thread that find_next_thread() returns is READY, under every policy.
LEMMA NextIsReady ==
    ASSUME SchedulerTypeOK, NEW st, find_next_thread(st) >= 0
    PROVE  find_next_thread(st) \in ThreadIdx /\ st[find_next_thread(st)] = "READY"
<1>t. ThreadMax \in Nat \ {0} /\ current_thread \in Nat /\ ThreadIdx \subseteq Nat
  BY SchedulerAssumption DEF SchedulerTypeOK, ThreadIdx
<1>r. ReadyIn(st) \subseteq Nat /\ ~(-1 >= 0)
  <2>1. ReadyIn(st) \subseteq ThreadIdx
    BY DEF ReadyIn
  <2>2. ReadyIn(st) \subseteq Nat
    BY <1>t, <2>1
  <2>3. ~(-1 >= 0)
    BY SMT
  <2> QED
    BY <2>2, <2>3
<1>1. CASE find_next_thread(st) = find_fcfs(st)
  <2>1. ReadyIn(st) # {} /\ ReadyIn(st) \in SUBSET Nat
    BY <1>1, <1>r DEF find_fcfs
  <2>2. Lowest(ReadyIn(st)) \in ReadyIn(st)
    BY <2>1, LowestOfSet
  <2> QED
    BY <1>1, <2>1, <2>2 DEF find_fcfs, ReadyIn
<1>2. CASE find_next_thread(st) = find_priority(st)
  <2> DEFINE ids == {i + 1 : i \in ReadyIn(st)}
  <2>1. ReadyIn(st) # {} /\ ReadyIn(st) \in SUBSET Nat
    BY <1>2, <1>r DEF find_priority
  <2>2. ids # {} /\ ids \in SUBSET Nat
    BY <2>1
  <2>3. Lowest(ids) \in ids
    BY <2>2, LowestOfSet
  <2>4. Lowest(ids) - 1 \in ReadyIn(st)
    BY <2>1, <2>3
  <2> QED
    BY <1>2, <2>1, <2>4 DEF find_priority, ReadyIn
<1>3. CASE find_next_thread(st) = find_round_robin(st)
  <2> DEFINE offsets == {o \in 1 .. ThreadMax :
                            st[(current_thread + o) % ThreadMax] = "READY"}
  <2>a. offsets \in SUBSET Nat
    BY <1>t
  <2>b. offsets # {}
    BY <1>3, <1>r DEF find_round_robin
  <2>1. offsets # {} /\ offsets \in SUBSET Nat
    BY <2>a, <2>b
  <2>2. Lowest(offsets) \in offsets
    BY <2>1, LowestOfSet
  <2>3. (current_thread + Lowest(offsets)) % ThreadMax \in 0 .. (ThreadMax - 1)
    <3>1. Lowest(offsets) \in Nat
      BY <2>1, <2>2
    <3> HIDE DEF offsets
    <3>2. current_thread + Lowest(offsets) \in Nat
      BY <1>t, <3>1
    <3> QED
      BY <1>t, <3>2
  <2> QED
    BY <1>3, <2>1, <2>2, <2>3 DEF find_round_robin, ThreadIdx
<1> QED
  BY <1>1, <1>2, <1>3 DEF find_next_thread

\* The initial state of thread_init() and scheduler_init().
LEMMA SchedulerInit == thread_init => SchedulerTypeOK /\ CurrentRuns
<1> SUFFICES ASSUME thread_init PROVE SchedulerTypeOK /\ CurrentRuns
  OBVIOUS
<1>1. 0 \in ThreadIdx
  BY SchedulerAssumption DEF ThreadIdx
<1>2. SchedulerTypeOK
  BY <1>1 DEF thread_init, SchedulerTypeOK, States
<1>3. CurrentRuns
  BY <1>1 DEF thread_init, CurrentRuns
<1> QED
  BY <1>2, <1>3

\* scheduler_tick() puts the processor on the stack of the thread it marks
\* RUNNING, and that thread was READY or the current one.
LEMMA TickRuns ==
    ASSUME SchedulerTypeOK, CurrentRuns, scheduler_tick
    PROVE  /\ SchedulerTypeOK' /\ CurrentRuns'
           /\ \A i \in ThreadIdx : state[i] = "TERMINATED" =>
                  state'[i] = "TERMINATED" /\ (cpu # i => cpu' # i)
<1> DEFINE kept == [saved EXCEPT ![current_thread] = cpu]
           next == find_next_thread(PutBack)
<1>1. kept \in [ThreadIdx -> ThreadIdx \cup {None}] /\ kept[current_thread] = current_thread
      /\ \A i \in ThreadIdx \ {current_thread} : kept[i] = saved[i]
  BY DEF SchedulerTypeOK, CurrentRuns
<1>2. PutBack \in [ThreadIdx -> States] /\ \A i \in ThreadIdx : PutBack[i] # "RUNNING"
  BY DEF PutBack, SchedulerTypeOK, CurrentRuns, States
<1>3. \A i \in ThreadIdx : state[i] = "TERMINATED" <=> PutBack[i] = "TERMINATED"
  BY DEF PutBack, SchedulerTypeOK
<1>4. \A i \in ThreadIdx \ {current_thread} : PutBack[i] = state[i]
  BY DEF PutBack, SchedulerTypeOK
<1>5. saved' = kept /\ scheduler_policy' = scheduler_policy
  BY DEF scheduler_tick
<1>6. CASE next < 0 /\ state' = PutBack /\ UNCHANGED <<current_thread, cpu>>
  <2>1. SchedulerTypeOK'
    BY <1>1, <1>2, <1>5, <1>6 DEF SchedulerTypeOK
  <2>2. CurrentRuns'
    BY <1>1, <1>2, <1>4, <1>5, <1>6 DEF CurrentRuns
  <2> QED
    BY <1>3, <1>6, <2>1, <2>2
<1>7. CASE /\ next >= 0 /\ current_thread' = next
           /\ state' = [PutBack EXCEPT ![next] = "RUNNING"] /\ cpu' = kept[next]
  <2>1. next \in ThreadIdx /\ PutBack[next] = "READY"
    BY <1>7, NextIsReady
  <2> HIDE DEF next
  <2>2. kept[next] = next
    BY <1>1, <1>4, <2>1 DEF CurrentRuns
  <2> HIDE DEF kept
  <2>3. SchedulerTypeOK'
    BY <1>1, <1>2, <1>5, <1>7, <2>1, <2>2 DEF SchedulerTypeOK, States
  <2>4. \A i \in ThreadIdx \ {next} : state'[i] = PutBack[i] /\ state'[i] # "RUNNING"
    BY <1>2, <1>7, <2>1
  <2>5. \A i \in ThreadIdx \ {next} : state'[i] # "UNUSED" => saved'[i] = i
    BY <1>1, <1>4, <1>5, <2>4 DEF CurrentRuns
  <2>6. CurrentRuns'
    BY <1>7, <2>2, <2>4, <2>5 DEF CurrentRuns
  <2> QED
    BY <1>3, <1>7, <2>1, <2>2, <2>3, <2>4, <2>6
<1> QED
  BY <1>6, <1>7 DEF scheduler_tick

\* Going round the table once comes back to where it started.
LEMMA RoundTheTable ==
    ASSUME NEW M \in Nat \ {0}, NEW c \in 0 .. (M - 1)
    PROVE  (c + M) % M = c
<1> DEFINE q == (c + M) \div M
           r == (c + M) % M
<1>1. q \in Int /\ r \in 0 .. (M - 1) /\ c + M = M * q + r
  OBVIOUS
<1> HIDE DEF q, r
<1>2. q >= 1
  <2>1. SUFFICES ASSUME q <= 0 PROVE FALSE
    BY <1>1
  <2>2. M * q <= 0
    BY <1>1, <2>1
  <2> QED
    BY <1>1, <2>2
<1>3. q <= 1
  <2>1. SUFFICES ASSUME q >= 2 PROVE FALSE
    BY <1>1
  <2>2. M * q >= M * 2
    BY <1>1, <2>1
  <2> QED
    BY <1>1, <2>2
<1>4. q = 1
  BY <1>1, <1>2, <1>3
<1>5. r = c
  BY <1>1, <1>4
<1> QED
  BY <1>5 DEF r

\* A tick that finds nobody READY had no RUNNING thread to put back: under every
\* policy the current thread is among those looked at.
LEMMA NobodyIsReady ==
    ASSUME SchedulerTypeOK, NEW st, ~(find_next_thread(st) >= 0)
    PROVE  st[current_thread] # "READY"
<1> SUFFICES ASSUME st[current_thread] = "READY" PROVE FALSE
  OBVIOUS
<1>t. /\ ThreadMax \in Nat \ {0} /\ current_thread \in 0 .. (ThreadMax - 1)
      /\ current_thread \in ThreadIdx /\ ThreadIdx \subseteq Nat
  BY SchedulerAssumption DEF SchedulerTypeOK, ThreadIdx
<1>r. current_thread \in ReadyIn(st) /\ ReadyIn(st) \in SUBSET Nat
  BY <1>t DEF ReadyIn
<1>1. CASE find_next_thread(st) = find_fcfs(st)
  <2>1. Lowest(ReadyIn(st)) \in Nat
    BY <1>r, LowestOfSet
  <2> QED
    BY <1>1, <1>r, <2>1 DEF find_fcfs
<1>2. CASE find_next_thread(st) = find_priority(st)
  <2> DEFINE ids == {i + 1 : i \in ReadyIn(st)}
  <2>1. ids # {} /\ ids \in SUBSET Nat
    BY <1>r
  <2>2. Lowest(ids) \in ids
    BY <2>1, LowestOfSet
  <2>3. Lowest(ids) - 1 \in Nat
    BY <1>r, <2>2
  <2> QED
    BY <1>2, <1>r, <2>3 DEF find_priority
<1>3. CASE find_next_thread(st) = find_round_robin(st)
  <2> DEFINE offsets == {o \in 1 .. ThreadMax :
                            st[(current_thread + o) % ThreadMax] = "READY"}
  <2>1. (current_thread + ThreadMax) % ThreadMax = current_thread
    BY <1>t, RoundTheTable
  <2>2. ThreadMax \in 1 .. ThreadMax
    BY <1>t
  <2>3. ThreadMax \in offsets
    BY <2>1, <2>2
  <2>4. offsets # {} /\ offsets \in SUBSET Nat
    BY <1>t, <2>3
  <2>5. Lowest(offsets) \in Nat
    BY <2>4, LowestOfSet
  <2>6. find_round_robin(st) = (current_thread + Lowest(offsets)) % ThreadMax
    BY <2>4 DEF find_round_robin
  <2> HIDE DEF offsets
  <2>7. (current_thread + Lowest(offsets)) % ThreadMax >= 0
    <3>1. current_thread + Lowest(offsets) \in Nat
      BY <1>t, <2>5
    <3> QED
      BY <1>t, <3>1
  <2> QED
    BY <1>3, <2>6, <2>7
<1> QED
  BY <1>1, <1>2, <1>3 DEF find_next_thread

\* scheduler_tick() only turns RUNNING into READY and back: it leaves threads that
\* wait, that have ended or that were never created as they are, and it leaves a
\* RUNNING thread on the processor unless there was none to run.
LEMMA TickKeeps ==
    ASSUME SchedulerTypeOK, CurrentRuns, scheduler_tick
    PROVE  /\ \A i \in ThreadIdx, s \in {"UNUSED", "BLOCKED", "TERMINATED"} :
                  state'[i] = s <=> state[i] = s
           /\ \/ state'[current_thread'] = "RUNNING"
              \/ state' = state /\ current_thread' = current_thread
<1> DEFINE next == find_next_thread(PutBack)
<1>1. PutBack \in [ThreadIdx -> States]
      /\ \A i \in ThreadIdx, s \in {"UNUSED", "BLOCKED", "TERMINATED"} :
            PutBack[i] = s <=> state[i] = s
  BY DEF PutBack, SchedulerTypeOK, States
<1>2. CASE ~(next >= 0)
  <2>1. PutBack[current_thread] # "READY"
    BY <1>2, NobodyIsReady
  <2>2. PutBack = state
    BY <2>1 DEF PutBack, SchedulerTypeOK
  <2>3. state' = PutBack /\ current_thread' = current_thread
    BY <1>2 DEF scheduler_tick
  <2> QED
    BY <2>2, <2>3
<1>3. CASE next >= 0
  <2>1. next \in ThreadIdx /\ PutBack[next] = "READY"
    BY <1>3, NextIsReady
  <2>2. ~(next < 0)
    BY <1>3, <2>1, SchedulerAssumption DEF ThreadIdx
  <2>3. current_thread' = next /\ state' = [PutBack EXCEPT ![next] = "RUNNING"]
    BY <2>2 DEF scheduler_tick
  <2> HIDE DEF next
  <2> QED
    BY <1>1, <2>1, <2>3
<1> QED
  BY <1>2, <1>3

\* Every step keeps both invariants and revives no terminated thread.
LEMMA SchedulerStep ==
    ASSUME SchedulerTypeOK, CurrentRuns, [SchedulerNext]_threadVars
    PROVE  /\ SchedulerTypeOK' /\ CurrentRuns'
           /\ \A i \in ThreadIdx : state[i] = "TERMINATED" =>
                  state'[i] = "TERMINATED" /\ (cpu # i => cpu' # i)
<1> USE DEF SchedulerTypeOK, CurrentRuns
<1>1. CASE UNCHANGED threadVars
  BY <1>1 DEF threadVars
<1>2. CASE scheduler_tick
  BY <1>2, TickRuns
<1>3. CASE thread_create
  <2>1. UnusedSlots # {} /\ UnusedSlots \in SUBSET Nat
    BY <1>3, SchedulerAssumption DEF thread_create, UnusedSlots, ThreadIdx
  <2>2. Lowest(UnusedSlots) \in UnusedSlots
    BY <2>1, LowestOfSet
  <2>3. /\ state' = [state EXCEPT ![Lowest(UnusedSlots)] = "READY"]
        /\ saved' = [saved EXCEPT ![Lowest(UnusedSlots)] = Lowest(UnusedSlots)]
        /\ UNCHANGED <<current_thread, cpu, scheduler_policy>>
    BY <1>3 DEF thread_create
  <2> QED
    BY <2>2, <2>3 DEF UnusedSlots, States
<1>4. CASE Executing(cpu) /\ thread_exit
  BY <1>4 DEF Executing, thread_exit, States
<1>5. CASE thread_block_current
  BY <1>5 DEF thread_block_current, States
<1>6. CASE \E i \in ThreadIdx : thread_unblock(i)
  BY <1>6 DEF thread_unblock, States
<1>7. CASE thread_wake_one
  <2> DEFINE blocked == {i \in ThreadIdx : state[i] = "BLOCKED"}
  <2>1. blocked # {} /\ blocked \in SUBSET Nat /\ thread_unblock(Lowest(blocked))
    BY <1>7, SchedulerAssumption DEF thread_wake_one, ThreadIdx
  <2>2. Lowest(blocked) \in ThreadIdx
    BY <2>1, LowestOfSet
  <2> HIDE DEF blocked
  <2> QED
    BY <2>1, <2>2 DEF thread_unblock, States
<1>8. CASE \E p \in Policies : scheduler_set_policy(p)
  BY <1>8, SchedulerAssumption DEF scheduler_set_policy
<1> QED
  BY <1>1, <1>2, <1>3, <1>4, <1>5, <1>6, <1>7, <1>8 DEF SchedulerNext

(* With any number of threads and under any policy, the processor is on the
   stack of current_thread, and every thread that can be picked resumes on its
   own stack. *)
THEOREM SchedulerInSync == SchedulerSpec => []CurrentRuns
<1>1. SchedulerTypeOK /\ CurrentRuns /\ [SchedulerNext]_threadVars
          => SchedulerTypeOK' /\ CurrentRuns'
  BY SchedulerStep
<1> QED
  BY <1>1, SchedulerInit, PTL DEF SchedulerSpec

(* With any number of threads and under any policy, thread_exit() is final. *)
THEOREM ExitIsFinal == SchedulerSpec => TerminatedForGood
<1> DEFINE Final == \A i \in ThreadIdx :
                       state[i] = "TERMINATED" =>
                           state'[i] = "TERMINATED" /\ (cpu # i => cpu' # i)
<1>1. SchedulerTypeOK /\ CurrentRuns /\ [SchedulerNext]_threadVars
          => SchedulerTypeOK' /\ CurrentRuns' /\ [Final]_threadVars
  BY SchedulerStep
<1> HIDE DEF Final
<1>2. SchedulerSpec => [][Final]_threadVars
  BY <1>1, SchedulerInit, PTL DEF SchedulerSpec
<1> QED
  BY <1>2 DEF TerminatedForGood, Final

-----------------------------------------------------------------------------
(***************************************************************************)
(* Proofs about Sync, for any number of threads, any count and any length  *)
(* of the waiter queue.  MutexInv relates the two fields of the mutex to   *)
(* where the threads stand; it rests on CurrentRuns of Scheduler, because  *)
(* mutex.owner is compared with current_thread while the code runs on the  *)
(* processor's stack.  SemaphoreInv says who is under the spinlock, who is *)
(* in the queue and who is BLOCKED; it rests on what a tick may change in  *)
(* the thread table.                                                       *)
(***************************************************************************)

WorkersInv == SchedulerTypeOK /\ CurrentRuns /\ SyncInv

\* Where everything stands when the workers start.
LEMMA SyncStart == SyncInit => WorkersInv
<1> SUFFICES ASSUME SyncInit PROVE WorkersInv
  OBVIOUS
<1>1. 0 \in ThreadIdx /\ -1 \notin ThreadIdx
  BY SchedulerAssumption DEF ThreadIdx
<1>2. SchedulerTypeOK /\ CurrentRuns
  BY <1>1, WorkersAssumption DEF SyncInit, WorkersInit, thread_init_with, SchedulerTypeOK,
     CurrentRuns, States
<1>3. MutexInv
  BY <1>1 DEF SyncInit, WorkersInit, MutexFieldsInit, MutexInv, Inside
<1>4. waiters = <<>> /\ Len(waiters) = 0 /\ \A t \in ThreadIdx : ~InQueue(t)
  BY DEF SyncInit, SemFieldsInit, InQueue
<1>5. \A t \in ThreadIdx : pc[t] = "idle" /\ state[t] # "BLOCKED"
  BY <1>1 DEF SyncInit, WorkersInit, thread_init_with
<1>6. SemaphoreInv
  <2>1. count \in Nat /\ locked \in BOOLEAN /\ taken \in Nat /\ given \in Nat
    BY SemaphoreAssumption DEF SyncInit, SemFieldsInit
  <2> QED
    BY <1>4, <1>5, <2>1 DEF SemaphoreInv, UnderLock
<1>7. pc \in [ThreadIdx -> SyncPlaces] /\ state[current_thread] \in {"RUNNING", "BLOCKED"}
  BY <1>1 DEF SyncInit, WorkersInit, thread_init_with, SyncPlaces
<1>8. NeverOverAdmits
  BY SemaphoreAssumption DEF SyncInit, SemFieldsInit, NeverOverAdmits
<1> QED
  BY <1>2, <1>3, <1>6, <1>7, <1>8 DEF WorkersInv, SyncInv

\* A timer interrupt touches neither the mutex nor the semaphore, and blocks and
\* unblocks nobody.
LEMMA SyncTickStep == ASSUME WorkersInv, SyncTick PROVE WorkersInv'
<1>1. SchedulerTypeOK' /\ CurrentRuns'
  BY TickRuns DEF SyncTick, WorkersInv
<1>2. /\ \A i \in ThreadIdx : state'[i] = "BLOCKED" <=> state[i] = "BLOCKED"
      /\ state'[current_thread'] \in {"RUNNING", "BLOCKED"}
  <2>1. scheduler_tick /\ SchedulerTypeOK /\ CurrentRuns
    BY DEF SyncTick, WorkersInv
  <2>2. state[current_thread] \in {"RUNNING", "BLOCKED"}
    BY DEF WorkersInv, SyncInv
  <2> QED
    BY <2>1, <2>2, TickKeeps
<1>3. UNCHANGED <<pc, mutex_lock_word, owner, count, locked, waiters, taken, given>>
  BY DEF SyncTick, mutexFields, semFields
<1>4. MutexInv'
  BY <1>3 DEF WorkersInv, SyncInv, MutexInv
<1>5. SemaphoreInv'
  BY <1>2, <1>3 DEF WorkersInv, SyncInv, SemaphoreInv, InQueue
<1>6. NeverOverAdmits'
  BY <1>3 DEF WorkersInv, SyncInv, NeverOverAdmits
<1> QED
  BY <1>1, <1>2, <1>3, <1>4, <1>5, <1>6 DEF WorkersInv, SyncInv

\* A step inside the mutex's operations.
LEMMA MutexStep ==
    ASSUME WorkersInv, NEW t \in Workers, MutexCall(t)
    PROVE  WorkersInv'
<1>t. -1 \notin ThreadIdx /\ current_thread \in ThreadIdx /\ cpu = current_thread
      /\ pc \in [ThreadIdx -> SyncPlaces] /\ t \in ThreadIdx
  BY SchedulerAssumption, WorkersAssumption
     DEF WorkersInv, SchedulerTypeOK, CurrentRuns, SyncInv, ThreadIdx
<1>1. CallLock(t) \/ TryAcquire(t) \/ SetOwner(t) \/ UnlockTest(t) \/ ClearOwner(t) \/ Release(t)
  BY DEF MutexCall, mutex_lock, mutex_unlock
<1>2. UNCHANGED threadVars /\ cpu = t
  BY <1>1 DEF CallLock, TryAcquire, SetOwner, UnlockTest, ClearOwner, Release, Runs
<1>3. SchedulerTypeOK' /\ CurrentRuns'
  BY <1>2 DEF threadVars, WorkersInv, SchedulerTypeOK, CurrentRuns
<1>4. \E p \in Inside \cup {"idle", "spin"} : pc' = [pc EXCEPT ![t] = p]
  <2>1. CASE UNCHANGED pc
    <3>1. CASE UnlockTest(t)
      BY <1>t, <2>1, <3>1 DEF UnlockTest, Runs, Inside
    <3> QED
      BY <1>1, <3>1 DEF CallLock, TryAcquire, SetOwner, ClearOwner, Release, Goto, Inside
  <2> QED
    BY <1>1, <2>1 DEF CallLock, TryAcquire, SetOwner, UnlockTest, ClearOwner, Release, Goto,
       Inside
<1>5. pc[t] \in Inside \cup {"idle", "spin"}
  BY <1>1 DEF CallLock, TryAcquire, SetOwner, UnlockTest, ClearOwner, Release, Runs, Inside
<1>6. pc' \in [ThreadIdx -> SyncPlaces]
  BY <1>t, <1>4 DEF SyncPlaces
<1>7. MutexInv'
  <2>1. CASE CallLock(t)
    BY <1>t, <2>1 DEF CallLock, Runs, Goto, Inside, WorkersInv, SyncInv, MutexInv
  <2>2. CASE TryAcquire(t)
    BY <1>t, <2>2 DEF TryAcquire, Runs, Goto, Inside, WorkersInv, SyncInv, MutexInv
  <2>3. CASE SetOwner(t)
    BY <1>t, <2>3 DEF SetOwner, Runs, Goto, Inside, WorkersInv, SyncInv, MutexInv
  <2>4. CASE UnlockTest(t)
    BY <1>t, <2>4 DEF UnlockTest, Runs, Goto, Inside, WorkersInv, SyncInv, MutexInv
  <2>5. CASE ClearOwner(t)
    BY <1>t, <2>5 DEF ClearOwner, Runs, Goto, Inside, WorkersInv, SyncInv, MutexInv
  <2>6. CASE Release(t)
    BY <1>t, <2>6 DEF Release, Runs, Goto, Inside, WorkersInv, SyncInv, MutexInv
  <2> QED
    BY <1>1, <2>1, <2>2, <2>3, <2>4, <2>5, <2>6
<1>8. UNCHANGED <<count, locked, waiters, taken, given, state, current_thread>>
  BY <1>2 DEF MutexCall, semFields, threadVars
<1>9. SemaphoreInv' /\ NeverOverAdmits'
  <2>1. \A u \in ThreadIdx : /\ pc'[u] \in UnderLock <=> pc[u] \in UnderLock
                             /\ pc'[u] \in Queued <=> pc[u] \in Queued
                             /\ pc'[u] = "w_block" <=> pc[u] = "w_block"
    BY <1>t, <1>4, <1>5 DEF UnderLock, Queued, Inside
  <2>2. NeverOverAdmits'
    BY <1>8 DEF WorkersInv, SyncInv, NeverOverAdmits
  <2> QED
    BY <1>8, <2>1, <2>2 DEF WorkersInv, SyncInv, SemaphoreInv, InQueue
<1> QED
  BY <1>3, <1>6, <1>7, <1>8, <1>9 DEF WorkersInv, SyncInv

\* A step inside the semaphore's operations leaves the mutex alone, and its thread
\* is at a place of the semaphore's before and after.
LEMMA SemaphoreFrame ==
    ASSUME WorkersInv, NEW t \in Workers, SemaphoreCall(t)
    PROVE  /\ t \in ThreadIdx /\ cpu = t /\ current_thread = t
           /\ pc' \in [ThreadIdx -> SyncPlaces]
           /\ \A u \in ThreadIdx \ {t} : pc'[u] = pc[u]
           /\ MutexInv'
<1> DEFINE Outside == UnderLock \cup {"idle", "w_lock", "w_halt", "s_lock"}
<1>t. cpu = current_thread /\ pc \in [ThreadIdx -> SyncPlaces] /\ t \in ThreadIdx
  BY WorkersAssumption DEF WorkersInv, CurrentRuns, SyncInv
<1>1. semaphore_wait(t) \/ semaphore_signal(t)
  BY DEF SemaphoreCall
<1>2. cpu = t /\ pc[t] \in Outside
  BY <1>1 DEF semaphore_wait, semaphore_signal, CallWait, CallSignal, spinlock_acquire,
     spinlock_release, WaitTest, WaitBlock, WaitWoken, SignalGive, Runs, UnderLock
<1>3. \E p \in Outside : pc' = [pc EXCEPT ![t] = p]
  BY <1>1 DEF semaphore_wait, semaphore_signal, CallWait, CallSignal, spinlock_acquire,
     spinlock_release, WaitTest, WaitBlock, WaitWoken, SignalGive, Goto, UnderLock
<1>4. \A u \in ThreadIdx : /\ pc'[u] \in Inside <=> pc[u] \in Inside
                           /\ pc'[u] \in {"held", "u_clear"} <=> pc[u] \in {"held", "u_clear"}
  BY <1>t, <1>2, <1>3 DEF Inside, UnderLock
<1>5. MutexInv'
  BY <1>4 DEF SemaphoreCall, mutexFields, WorkersInv, SyncInv, MutexInv
<1> QED
  BY <1>t, <1>2, <1>3, <1>5 DEF SyncPlaces

\* A step that changes only the place of its thread and the spinlock.
LEMMA LockStep ==
    ASSUME WorkersInv, NEW t \in Workers, SemaphoreCall(t),
           UNCHANGED <<threadVars, count, waiters, taken, given>>,
           pc[t] # "w_block", pc'[t] \notin {"w_block", "w_unlock"},
           pc[t] = "w_unlock" <=> pc'[t] = "w_halt",
           pc[t] = "w_halt" => state[t] # "BLOCKED",
           locked' \in BOOLEAN,
           \/ pc'[t] \in UnderLock /\ ~locked /\ locked'
           \/ pc'[t] \notin UnderLock /\ pc[t] \in UnderLock
           \/ pc'[t] \notin UnderLock /\ locked' = locked
    PROVE  WorkersInv'
<1>f. /\ t \in ThreadIdx /\ current_thread = t
      /\ pc' \in [ThreadIdx -> SyncPlaces] /\ \A u \in ThreadIdx \ {t} : pc'[u] = pc[u]
      /\ MutexInv'
  BY SemaphoreFrame
<1>1. SchedulerTypeOK' /\ CurrentRuns' /\ state'[current_thread'] \in {"RUNNING", "BLOCKED"}
  BY DEF threadVars, WorkersInv, SyncInv, SchedulerTypeOK, CurrentRuns
<1>2. NeverOverAdmits'
  BY DEF WorkersInv, SyncInv, NeverOverAdmits
<1>3. SemaphoreInv'
  <2>1. SemaphoreInv
    BY DEF WorkersInv, SyncInv
  <2>2. \A u \in ThreadIdx : InQueue(u)' <=> InQueue(u)
    BY DEF InQueue
  <2>3. /\ \A u, v \in ThreadIdx : pc'[u] \in UnderLock /\ pc'[v] \in UnderLock => u = v
        /\ \A u \in ThreadIdx : pc'[u] \in UnderLock => locked'
    BY <1>f, <2>1 DEF SemaphoreInv
  <2>4. \A u \in ThreadIdx :
          /\ InQueue(u) => pc'[u] \in Queued
          /\ pc'[u] = "w_block" => InQueue(u)
          /\ InQueue(u) /\ pc'[u] # "w_block" => state[u] = "BLOCKED"
          /\ state[u] = "BLOCKED" => InQueue(u) /\ pc'[u] # "w_block"
    BY <1>f, <2>1 DEF SemaphoreInv, Queued
  <2> QED
    BY <2>1, <2>2, <2>3, <2>4 DEF SemaphoreInv, threadVars
<1> QED
  BY <1>f, <1>1, <1>2, <1>3 DEF WorkersInv, SyncInv

\* WaitTest() under the spinlock: a unit is taken, or the thread joins the queue, or
\* it will try again.
LEMMA WaitTestStep ==
    ASSUME WorkersInv, NEW t \in Workers, SemaphoreCall(t), WaitTest(t)
    PROVE  WorkersInv'
<1>f. /\ t \in ThreadIdx /\ current_thread = t
      /\ pc' \in [ThreadIdx -> SyncPlaces] /\ \A u \in ThreadIdx \ {t} : pc'[u] = pc[u]
      /\ MutexInv'
  BY SemaphoreFrame
<1>s. SemaphoreInv /\ pc \in [ThreadIdx -> SyncPlaces]
  BY DEF WorkersInv, SyncInv
<1>1. SchedulerTypeOK' /\ CurrentRuns' /\ state'[current_thread'] \in {"RUNNING", "BLOCKED"}
  BY DEF WaitTest, threadVars, WorkersInv, SyncInv, SchedulerTypeOK, CurrentRuns
<1>2. pc[t] = "w_test" /\ pc'[t] \in {"w_taken", "w_block", "w_full"}
      /\ locked' = locked /\ given' = given /\ state' = state
  BY <1>f, <1>s DEF WaitTest, Runs, Goto, threadVars
<1>3. ~InQueue(t) /\ state[t] # "BLOCKED"
  BY <1>2, <1>f, <1>s DEF SemaphoreInv, Queued
<1>4. /\ \A u, v \in ThreadIdx : pc'[u] \in UnderLock /\ pc'[v] \in UnderLock => u = v
      /\ \A u \in ThreadIdx : pc'[u] \in UnderLock => locked'
  BY <1>f, <1>s, <1>2 DEF SemaphoreInv, UnderLock
<1>5. CASE UNCHANGED waiters /\ pc'[t] # "w_block"
  <2>1. /\ count' \in Nat /\ locked' \in BOOLEAN /\ taken' \in Nat /\ given' \in Nat
        /\ NeverOverAdmits'
    BY <1>s, <1>2 DEF WaitTest, SemaphoreInv, WorkersInv, SyncInv, NeverOverAdmits
  <2>2. SemaphoreInv'
    BY <1>f, <1>s, <1>2, <1>3, <1>4, <1>5, <2>1 DEF SemaphoreInv, InQueue
  <2> QED
    BY <1>f, <1>1, <2>1, <2>2 DEF WorkersInv, SyncInv
<1>6. CASE waiters' = Append(waiters, t) /\ pc'[t] = "w_block" /\ UNCHANGED <<count, taken>>
  <2>1. /\ waiters' \in Seq(Workers) /\ Len(waiters') = Len(waiters) + 1
        /\ waiters'[Len(waiters) + 1] = t
        /\ \A k \in 1 .. Len(waiters) : waiters'[k] = waiters[k]
    BY <1>6, <1>s DEF SemaphoreInv
  <2>2. Len(waiters) \in Nat /\ \A k \in 1 .. Len(waiters) : waiters[k] # t
    BY <1>s, <1>3 DEF SemaphoreInv, InQueue
  <2>3. \A u \in ThreadIdx : InQueue(u)' <=> InQueue(u) \/ u = t
    <3>1. \A u \in ThreadIdx : InQueue(u)' => InQueue(u) \/ u = t
      BY <2>1, <2>2 DEF InQueue
    <3>2. \A u \in ThreadIdx : InQueue(u) => InQueue(u)'
      BY <2>1, <2>2 DEF InQueue
    <3>3. InQueue(t)'
      BY <2>1, <2>2 DEF InQueue
    <3> QED
      BY <3>1, <3>2, <3>3
  <2>4. \A j, k \in 1 .. Len(waiters') : waiters'[j] = waiters'[k] => j = k
    <3> SUFFICES ASSUME NEW j \in 1 .. Len(waiters'), NEW k \in 1 .. Len(waiters'),
                        waiters'[j] = waiters'[k]
                 PROVE  j = k
      OBVIOUS
    <3>1. CASE j \in 1 .. Len(waiters) /\ k \in 1 .. Len(waiters)
      BY <1>s, <2>1, <3>1 DEF SemaphoreInv
    <3>2. CASE j = Len(waiters) + 1 \/ k = Len(waiters) + 1
      BY <2>1, <2>2, <3>2
    <3> QED
      BY <2>1, <2>2, <3>1, <3>2
  <2>5. \A u \in ThreadIdx :
          /\ InQueue(u)' => pc'[u] \in Queued
          /\ pc'[u] = "w_block" => InQueue(u)'
          /\ InQueue(u)' /\ pc'[u] # "w_block" => state'[u] = "BLOCKED"
          /\ state'[u] = "BLOCKED" => InQueue(u)' /\ pc'[u] # "w_block"
    BY <1>f, <1>s, <1>2, <1>3, <1>6, <2>3 DEF SemaphoreInv, Queued
  <2>6. SemaphoreInv' /\ NeverOverAdmits'
    BY <1>s, <1>2, <1>4, <1>6, <2>1, <2>4, <2>5 DEF SemaphoreInv, WorkersInv, SyncInv, NeverOverAdmits
  <2> QED
    BY <1>f, <1>1, <2>6 DEF WorkersInv, SyncInv
<1> QED
  BY <1>5, <1>6, <1>f, <1>s DEF WaitTest, Goto

\* thread_block_current() of a queued waiter, which is RUNNING.
LEMMA WaitBlockStep ==
    ASSUME WorkersInv, NEW t \in Workers, SemaphoreCall(t), WaitBlock(t)
    PROVE  WorkersInv'
<1>f. /\ t \in ThreadIdx /\ current_thread = t
      /\ pc' \in [ThreadIdx -> SyncPlaces] /\ \A u \in ThreadIdx \ {t} : pc'[u] = pc[u]
      /\ MutexInv'
  BY SemaphoreFrame
<1>s. SemaphoreInv /\ pc \in [ThreadIdx -> SyncPlaces] /\ state \in [ThreadIdx -> States]
  BY DEF WorkersInv, SyncInv, SchedulerTypeOK
<1>1. pc[t] = "w_block" /\ pc'[t] = "w_unlock" /\ UNCHANGED <<count, locked, waiters, taken, given>>
  BY <1>f, <1>s DEF WaitBlock, Runs, Goto
<1>2. state[t] = "RUNNING"
  BY <1>f, <1>s, <1>1 DEF SemaphoreInv, WorkersInv, SyncInv
<1>3. state' = [state EXCEPT ![t] = "BLOCKED"] /\ UNCHANGED <<saved, current_thread, cpu, scheduler_policy>>
  BY <1>f, <1>2 DEF WaitBlock, thread_block_current
<1>4. SchedulerTypeOK' /\ CurrentRuns' /\ state'[current_thread'] \in {"RUNNING", "BLOCKED"}
  BY <1>f, <1>3 DEF WorkersInv, SchedulerTypeOK, CurrentRuns, States
<1>5. \A u \in ThreadIdx : InQueue(u)' <=> InQueue(u)
  BY <1>1 DEF InQueue
<1>6. /\ \A u, v \in ThreadIdx : pc'[u] \in UnderLock /\ pc'[v] \in UnderLock => u = v
      /\ \A u \in ThreadIdx : pc'[u] \in UnderLock => locked'
  BY <1>f, <1>s, <1>1 DEF SemaphoreInv, UnderLock
<1>7. \A u \in ThreadIdx :
        /\ InQueue(u) => pc'[u] \in Queued
        /\ pc'[u] = "w_block" => InQueue(u)
        /\ InQueue(u) /\ pc'[u] # "w_block" => state'[u] = "BLOCKED"
        /\ state'[u] = "BLOCKED" => InQueue(u) /\ pc'[u] # "w_block"
  BY <1>f, <1>s, <1>1, <1>3 DEF SemaphoreInv, Queued
<1>8. SemaphoreInv' /\ NeverOverAdmits'
  BY <1>s, <1>1, <1>5, <1>6, <1>7 DEF SemaphoreInv, WorkersInv, SyncInv, NeverOverAdmits
<1> QED
  BY <1>f, <1>4, <1>8 DEF WorkersInv, SyncInv

\* SignalGive() under the spinlock: the first waiter leaves the queue and becomes
\* READY, or the signal is counted.
LEMMA SignalGiveStep ==
    ASSUME WorkersInv, NEW t \in Workers, SemaphoreCall(t), SignalGive(t)
    PROVE  WorkersInv'
<1>f. /\ t \in ThreadIdx /\ current_thread = t
      /\ pc' \in [ThreadIdx -> SyncPlaces] /\ \A u \in ThreadIdx \ {t} : pc'[u] = pc[u]
      /\ MutexInv'
  BY SemaphoreFrame
<1>s. SemaphoreInv /\ pc \in [ThreadIdx -> SyncPlaces] /\ state \in [ThreadIdx -> States]
  BY DEF WorkersInv, SyncInv, SchedulerTypeOK
<1>1. pc[t] = "s_give" /\ pc'[t] = "s_unlock" /\ UNCHANGED <<locked, taken>> /\ given' = given + 1
  BY <1>f, <1>s DEF SignalGive, Runs, Goto
<1>2. ~InQueue(t) /\ state[t] # "BLOCKED"
  BY <1>f, <1>s, <1>1 DEF SemaphoreInv, Queued
<1>3. /\ \A u, v \in ThreadIdx : pc'[u] \in UnderLock /\ pc'[v] \in UnderLock => u = v
      /\ \A u \in ThreadIdx : pc'[u] \in UnderLock => locked'
  BY <1>f, <1>s, <1>1 DEF SemaphoreInv, UnderLock
<1>4. CASE waiters = <<>> /\ count' = count + 1 /\ UNCHANGED <<threadVars, waiters>>
  <2>1. SchedulerTypeOK' /\ CurrentRuns' /\ state'[current_thread'] \in {"RUNNING", "BLOCKED"}
    BY <1>4 DEF threadVars, WorkersInv, SyncInv, SchedulerTypeOK, CurrentRuns
  <2>2. \A u \in ThreadIdx : (InQueue(u)' <=> InQueue(u)) /\ state'[u] = state[u]
    BY <1>4 DEF InQueue, threadVars
  <2>3. \A u \in ThreadIdx :
          /\ InQueue(u) => pc'[u] \in Queued
          /\ pc'[u] = "w_block" => InQueue(u)
          /\ InQueue(u) /\ pc'[u] # "w_block" => state'[u] = "BLOCKED"
          /\ state'[u] = "BLOCKED" => InQueue(u) /\ pc'[u] # "w_block"
    BY <1>f, <1>s, <1>1, <1>2, <2>2 DEF SemaphoreInv, Queued
  <2>4. SemaphoreInv'
    BY <1>s, <1>1, <1>3, <1>4, <2>2, <2>3 DEF SemaphoreInv
  <2>5. NeverOverAdmits'
    BY <1>s, <1>1, <1>4, SemaphoreAssumption DEF SemaphoreInv, WorkersInv, SyncInv, NeverOverAdmits
  <2> QED
    BY <1>f, <2>1, <2>4, <2>5 DEF WorkersInv, SyncInv
<1>5. CASE /\ waiters # <<>> /\ waiters' = Tail(waiters)
           /\ thread_unblock(Head(waiters)) /\ UNCHANGED count
  <2> DEFINE h == Head(waiters)
  <2>1. /\ Len(waiters) \in Nat /\ Len(waiters) >= 1 /\ h = waiters[1] /\ h \in Workers
        /\ waiters' \in Seq(Workers) /\ Len(waiters') = Len(waiters) - 1
        /\ \A k \in 1 .. (Len(waiters) - 1) : waiters'[k] = waiters[k + 1]
    BY <1>5, <1>s DEF SemaphoreInv
  <2> HIDE DEF h
  <2>2. h \in ThreadIdx /\ InQueue(h)
    BY <2>1, WorkersAssumption DEF InQueue
  <2>3. h # t /\ pc[h] # "w_block" /\ state[h] = "BLOCKED"
    BY <1>f, <1>s, <1>1, <1>2, <2>2 DEF SemaphoreInv, UnderLock
  <2>4. state' = [state EXCEPT ![h] = "READY"] /\ UNCHANGED <<saved, current_thread, cpu, scheduler_policy>>
    BY <1>5, <2>3 DEF thread_unblock, h
  <2>5. SchedulerTypeOK' /\ CurrentRuns' /\ state'[current_thread'] \in {"RUNNING", "BLOCKED"}
    BY <1>f, <2>2, <2>3, <2>4 DEF WorkersInv, SyncInv, SchedulerTypeOK, CurrentRuns, States
  <2>6. \A j, k \in 1 .. Len(waiters) : waiters[j] = waiters[k] => j = k
    BY <1>s DEF SemaphoreInv
  <2>7. \A j, k \in 1 .. Len(waiters') : waiters'[j] = waiters'[k] => j = k
    <3> SUFFICES ASSUME NEW j \in 1 .. Len(waiters'), NEW k \in 1 .. Len(waiters'),
                        waiters'[j] = waiters'[k]
                 PROVE  j = k
      OBVIOUS
    <3>1. j + 1 \in 1 .. Len(waiters) /\ k + 1 \in 1 .. Len(waiters)
          /\ waiters[j + 1] = waiters[k + 1]
      BY <2>1
    <3>2. j + 1 = k + 1
      BY <2>6, <3>1
    <3> QED
      BY <3>2, <2>1
  <2>8. \A u \in ThreadIdx : InQueue(u)' <=> InQueue(u) /\ u # h
    <3>1. ASSUME NEW u \in ThreadIdx, InQueue(u)' PROVE InQueue(u) /\ u # h
      <4>1. PICK k \in 1 .. Len(waiters') : waiters'[k] = u
        BY <3>1 DEF InQueue
      <4>2. k + 1 \in 1 .. Len(waiters) /\ waiters[k + 1] = u /\ k + 1 # 1 /\ 1 \in 1 .. Len(waiters)
        BY <2>1, <4>1
      <4>3. waiters[1] # u
        BY <2>6, <4>2
      <4> QED
        BY <2>1, <4>2, <4>3 DEF InQueue
    <3>2. ASSUME NEW u \in ThreadIdx, InQueue(u), u # h PROVE InQueue(u)'
      <4>1. PICK k \in 1 .. Len(waiters) : waiters[k] = u
        BY <3>2 DEF InQueue
      <4>2. k # 1
        BY <2>1, <3>2, <4>1
      <4>3. k - 1 \in 1 .. Len(waiters') /\ k - 1 \in 1 .. (Len(waiters) - 1) /\ (k - 1) + 1 = k
        BY <2>1, <4>2
      <4>4. waiters'[k - 1] = u
        BY <2>1, <4>1, <4>3
      <4> QED
        BY <4>3, <4>4 DEF InQueue
    <3> QED
      BY <3>1, <3>2
  <2>9. \A u \in ThreadIdx :
          /\ InQueue(u)' => pc'[u] \in Queued
          /\ pc'[u] = "w_block" => InQueue(u)'
          /\ InQueue(u)' /\ pc'[u] # "w_block" => state'[u] = "BLOCKED"
          /\ state'[u] = "BLOCKED" => InQueue(u)' /\ pc'[u] # "w_block"
    BY <1>f, <1>s, <1>1, <1>2, <2>2, <2>3, <2>4, <2>8 DEF SemaphoreInv, Queued
  <2>10. SemaphoreInv'
    BY <1>s, <1>1, <1>3, <1>5, <2>1, <2>7, <2>9 DEF SemaphoreInv
  <2>11. NeverOverAdmits'
    BY <1>s, <1>1, <1>5, SemaphoreAssumption DEF SemaphoreInv, WorkersInv, SyncInv, NeverOverAdmits
  <2> QED
    BY <1>f, <2>5, <2>10, <2>11 DEF WorkersInv, SyncInv
<1> QED
  BY <1>4, <1>5 DEF SignalGive

\* Every step inside the semaphore's operations.
LEMMA SemaphoreStep ==
    ASSUME WorkersInv, NEW t \in Workers, SemaphoreCall(t)
    PROVE  WorkersInv'
<1>t. t \in ThreadIdx /\ pc \in [ThreadIdx -> SyncPlaces] /\ locked \in BOOLEAN
  BY SemaphoreFrame DEF WorkersInv, SyncInv, SemaphoreInv
<1> USE DEF Runs, Goto, UnderLock
<1>1. CASE CallWait(t)
  BY <1>t, <1>1, LockStep DEF CallWait
<1>2. CASE CallSignal(t)
  BY <1>t, <1>2, LockStep DEF CallSignal
<1>3. CASE spinlock_acquire(t, "w_lock", "w_test")
  BY <1>t, <1>3, LockStep DEF spinlock_acquire
<1>4. CASE spinlock_acquire(t, "s_lock", "s_give")
  BY <1>t, <1>4, LockStep DEF spinlock_acquire
<1>5. CASE spinlock_release(t, "w_unlock", "w_halt")
  BY <1>t, <1>5, LockStep DEF spinlock_release
<1>6. CASE spinlock_release(t, "w_taken", "idle")
  BY <1>t, <1>6, LockStep DEF spinlock_release
<1>7. CASE spinlock_release(t, "w_full", "w_lock")
  BY <1>t, <1>7, LockStep DEF spinlock_release
<1>8. CASE spinlock_release(t, "s_unlock", "idle")
  BY <1>t, <1>8, LockStep DEF spinlock_release
<1>9. CASE WaitWoken(t)
  BY <1>t, <1>9, LockStep DEF WaitWoken
<1>10. CASE WaitTest(t)
  BY <1>10, WaitTestStep
<1>11. CASE WaitBlock(t)
  BY <1>11, WaitBlockStep
<1>12. CASE SignalGive(t)
  BY <1>12, SignalGiveStep
<1> QED
  BY <1>1, <1>2, <1>3, <1>4, <1>5, <1>6, <1>7, <1>8, <1>9, <1>10, <1>11, <1>12
     DEF SemaphoreCall, semaphore_wait, semaphore_signal

\* Every step of the system.
LEMMA SyncStep == WorkersInv /\ [SyncNext]_syncVars => WorkersInv'
<1> SUFFICES ASSUME WorkersInv, [SyncNext]_syncVars PROVE WorkersInv'
  OBVIOUS
<1>1. CASE UNCHANGED syncVars
  BY <1>1 DEF syncVars, threadVars, mutexFields, semFields, WorkersInv, SchedulerTypeOK, CurrentRuns,
     SyncInv, MutexInv, SemaphoreInv, InQueue, NeverOverAdmits
<1>2. CASE SyncTick
  BY <1>2, SyncTickStep
<1>3. CASE \E t \in Workers : MutexCall(t)
  BY <1>3, MutexStep
<1>4. CASE \E t \in Workers : SemaphoreCall(t)
  BY <1>4, SemaphoreStep
<1> QED
  BY <1>1, <1>2, <1>3, <1>4 DEF SyncNext

(* With any number of threads, wherever the timer interrupts them and whoever
   calls mutex_unlock(), the holder of the mutex is alone and can release it. *)
THEOREM MutexExcludes == SyncSpec => []HolderAlone
<1>1. WorkersInv => HolderAlone
  BY DEF WorkersInv, SyncInv, MutexInv, HolderAlone, Inside
<1> QED
  BY <1>1, SyncStart, SyncStep, PTL DEF SyncSpec

(* With any number of threads, any initial count and any length of the queue,
   semaphore_wait() never returns more often than the count and the signals
   allow, wherever the timer interrupts. *)
THEOREM SemaphoreAdmits == SyncSpec => []NeverOverAdmits
<1>1. WorkersInv => NeverOverAdmits
  BY DEF WorkersInv, SyncInv
<1> QED
  BY <1>1, SyncStart, SyncStep, PTL DEF SyncSpec

(* With any number of threads and any length of the queue, no thread is queued
   twice, the queue holds only threads that wait, and no BLOCKED thread is missing
   from it. *)
THEOREM WaitersAreQueued == SyncSpec => []QueueSound
<1>1. WorkersInv => QueueSound
  BY WorkersAssumption DEF WorkersInv, SyncInv, SemaphoreInv, QueueSound
<1> QED
  BY <1>1, SyncStart, SyncStep, PTL DEF SyncSpec

-----------------------------------------------------------------------------
(***************************************************************************)
(* Proofs about Process, for any number of threads, processes and handles. *)
(* TableInv ties the process table to the thread table: an entry names a   *)
(* thread slot that is in use, so the slot thread_create() hands out next  *)
(* is in no entry, and no two entries share a thread.  HandleInv follows a *)
(* handle from its claim to its close.                                     *)
(***************************************************************************)

ProcessInv == SchedulerTypeOK /\ CurrentRuns /\ ProcessTypeOK /\ TableInv

\* The step of process_create() and of a thread that exits, in the thread table.
LEMMA ThreadSteps ==
    ASSUME SchedulerTypeOK, CurrentRuns,
           thread_create \/ (Executing(cpu) /\ thread_exit) \/ UNCHANGED threadVars
    PROVE  SchedulerTypeOK' /\ CurrentRuns'
<1>1. CASE thread_create
  BY <1>1, SchedulerStep DEF SchedulerNext
<1>2. CASE Executing(cpu) /\ thread_exit
  BY <1>2 DEF thread_exit, Executing, SchedulerTypeOK, CurrentRuns, States
<1>3. CASE UNCHANGED threadVars
  BY <1>3 DEF threadVars, SchedulerTypeOK, CurrentRuns
<1> QED
  BY <1>1, <1>2, <1>3

\* A search by thread index finds the one process of that thread, and a search by
\* pid the one process with that pid.
LEMMA Finds ==
    ASSUME ProcessTypeOK, TableInv, NEW p \in InUse
    PROVE  /\ process_find_by_pid(processes[p].pid) = p
           /\ process_find_by_thread_index(processes[p].thread_index) = p
<1>1. InUse \in SUBSET Nat
  BY ProcessAssumption DEF InUse, ProcIdx
<1>2. ASSUME NEW S \in SUBSET InUse, p \in S, \A q \in S : q = p
      PROVE  Lowest(S) = p
  BY <1>1, <1>2, LowestOfSet
<1>3. \A q \in InUse : processes[q].pid = processes[p].pid => q = p
  BY DEF TableInv
<1>4. \A q \in InUse : processes[q].thread_index = processes[p].thread_index => q = p
  BY DEF TableInv
<1>5. process_find_by_pid(processes[p].pid) = p
  <2> DEFINE hits == {q \in InUse : processes[q].pid = processes[p].pid}
  <2>1. hits \in SUBSET InUse /\ p \in hits /\ \A q \in hits : q = p
    BY <1>3
  <2>2. Lowest(hits) = p /\ hits # {}
    BY <1>2, <2>1
  <2> QED
    BY <2>2 DEF process_find_by_pid
<1>6. process_find_by_thread_index(processes[p].thread_index) = p
  <2> DEFINE hits == {q \in InUse : processes[q].thread_index = processes[p].thread_index}
  <2>1. hits \in SUBSET InUse /\ p \in hits /\ \A q \in hits : q = p
    BY <1>4
  <2>2. Lowest(hits) = p /\ hits # {}
    BY <1>2, <2>1
  <2> QED
    BY <2>2 DEF process_find_by_thread_index
<1> QED
  BY <1>5, <1>6

\* The boot state has no process.
LEMMA ProcessStart == Init => ProcessInv
<1> SUFFICES ASSUME Init PROVE ProcessInv
  OBVIOUS
<1>1. SchedulerTypeOK /\ CurrentRuns
  BY SchedulerInit DEF Init
<1>2. 0 \in ThreadIdx /\ 0 \in HandleIdx /\ <<>> \in Seq(HandleIdx)
  BY SchedulerAssumption, ProcessAssumption DEF ThreadIdx, HandleIdx
<1>3. ProcessTypeOK
  BY <1>2 DEF Init, process_init, ProcessTypeOK, Free, NoCode, ProcessPlaces, Entries, Locals
<1>4. InUse = {} /\ \A t \in ThreadIdx : local[t].pc = "none"
  BY DEF Init, process_init, InUse, Free, NoCode
<1>5. TableInv
  BY <1>4 DEF TableInv
<1> QED
  BY <1>1, <1>3, <1>5 DEF ProcessInv

\* process_create(): the slot of the new thread is in no entry of the table.
LEMMA CreateStep ==
    ASSUME ProcessInv, process_create
    PROVE  /\ ProcessInv' 
           /\ \E t \in ThreadIdx, p \in ProcIdx :
                /\ local[t].pc = "none" /\ p \notin InUse /\ InUse' = InUse \cup {p}
                /\ processes' = [processes EXCEPT ![p] =
                      [in_use |-> TRUE, pid |-> next_pid, thread_index |-> t, fds |-> <<>>]]
                /\ local' = [local EXCEPT ![t].pc = "start"]
                /\ UNCHANGED <<handles, holder>>
<1> DEFINE t == Lowest(UnusedSlots)
           p == Lowest(ProcIdx \ InUse)
<1>i. /\ SchedulerTypeOK /\ CurrentRuns /\ ProcessTypeOK /\ TableInv
      /\ thread_create
  BY DEF ProcessInv, process_create
<1>1. t \in UnusedSlots /\ t \in ThreadIdx /\ state[t] = "UNUSED"
  <2>1. UnusedSlots \in SUBSET Nat /\ UnusedSlots # {}
    BY <1>i, SchedulerAssumption DEF thread_create, UnusedSlots, ThreadIdx
  <2>2. Lowest(UnusedSlots) \in UnusedSlots
    BY <2>1, LowestOfSet
  <2> QED
    BY <2>2 DEF UnusedSlots
<1>2. p \in ProcIdx /\ p \notin InUse
  <2>1. ProcIdx \ InUse \in SUBSET Nat /\ ProcIdx \ InUse # {}
    BY ProcessAssumption DEF process_create, ProcIdx
  <2> QED
    BY <2>1, LowestOfSet
<1>3. /\ processes' = [processes EXCEPT ![p] =
            [in_use |-> TRUE, pid |-> next_pid, thread_index |-> t, fds |-> <<>>]]
      /\ next_pid' = next_pid + 1
      /\ local' = [local EXCEPT ![t].pc = "start"]
      /\ state' = [state EXCEPT ![t] = "READY"]
      /\ UNCHANGED <<handles, holder>>
  BY DEF process_create, thread_create
<1> HIDE DEF t, p
<1>4. SchedulerTypeOK' /\ CurrentRuns'
  BY <1>i, ThreadSteps
<1>5. ProcessTypeOK'
  <2>1. [in_use |-> TRUE, pid |-> next_pid, thread_index |-> t, fds |-> <<>>] \in Entries
    BY <1>i, <1>1 DEF ProcessTypeOK, Entries, Locals
  <2>2. processes' \in [ProcIdx -> Entries]
    BY <1>i, <1>3, <2>1 DEF ProcessTypeOK
  <2>3. [local[t] EXCEPT !.pc = "start"] \in Locals
    BY <1>i, <1>1 DEF ProcessTypeOK, ProcessPlaces, Entries, Locals
  <2>4. local' \in [ThreadIdx -> Locals]
    BY <1>i, <1>3, <2>3 DEF ProcessTypeOK
  <2>5. next_pid' \in Nat /\ handles' \subseteq HandleIdx
        /\ holder' \in [HandleIdx -> ThreadIdx \cup {None}]
    BY <1>i, <1>3 DEF ProcessTypeOK
  <2> QED
    BY <2>2, <2>4, <2>5 DEF ProcessTypeOK
<1>6. InUse' = InUse \cup {p}
  BY <1>i, <1>2, <1>3 DEF InUse, ProcessTypeOK
<1>7. \A q \in InUse : processes'[q] = processes[q] /\ processes[q].thread_index # t
  <2>1. \A q \in InUse : q \in ProcIdx /\ q # p
    BY <1>2 DEF InUse
  <2>2. \A q \in InUse : processes'[q] = processes[q]
    BY <1>i, <1>3, <2>1 DEF ProcessTypeOK
  <2>3. \A q \in InUse : processes[q].thread_index # t
    BY <1>i, <1>1 DEF TableInv
  <2> QED
    BY <2>2, <2>3
<1>8. processes'[p].pid = next_pid /\ processes'[p].thread_index = t
  BY <1>i, <1>2, <1>3 DEF ProcessTypeOK
<1>9. local[t].pc = "none"
  BY <1>i, <1>1, <1>7 DEF TableInv
<1>10. TableInv'
  <2>0. \A q \in InUse : q \in ProcIdx /\ processes[q].pid \in Nat /\ processes[q].thread_index \in ThreadIdx
    BY <1>i DEF InUse, ProcessTypeOK, Entries, Locals
  <2>1. \A q \in InUse' : /\ processes'[q].pid < next_pid'
                          /\ state'[processes'[q].thread_index] # "UNUSED"
    <3>1. next_pid \in Nat /\ next_pid' = next_pid + 1
      BY <1>i, <1>3 DEF ProcessTypeOK
    <3>2. \A u \in ThreadIdx : state'[u] = IF u = t THEN "READY" ELSE state[u]
      BY <1>i, <1>1, <1>3 DEF SchedulerTypeOK
    <3>3. \A q \in InUse : processes[q].pid < next_pid /\ state[processes[q].thread_index] # "UNUSED"
      BY <1>i DEF TableInv
    <3>4. ASSUME NEW q \in InUse PROVE processes'[q].pid < next_pid' /\ state'[processes'[q].thread_index] # "UNUSED"
      BY <1>7, <2>0, <3>1, <3>2, <3>3
    <3>5. processes'[p].pid < next_pid' /\ state'[processes'[p].thread_index] # "UNUSED"
      BY <1>1, <1>8, <3>1, <3>2
    <3> QED
      BY <1>6, <3>4, <3>5
  <2>2. \A q, r \in InUse' :
          processes'[q].pid = processes'[r].pid
          \/ processes'[q].thread_index = processes'[r].thread_index => q = r
    <3>1. \A q, r \in InUse :
            processes[q].pid = processes[r].pid
            \/ processes[q].thread_index = processes[r].thread_index => q = r
      BY <1>i DEF TableInv
    <3>2. next_pid \in Nat /\ \A q \in InUse : processes[q].pid < next_pid
      BY <1>i DEF TableInv, ProcessTypeOK
    <3>3. \A q \in InUse : processes[q].pid # next_pid
      BY <2>0, <3>2
    <3> QED
      BY <1>6, <1>7, <1>8, <3>1, <3>3
  <2>3. \A u \in ThreadIdx : local'[u].pc # "none" => \E q \in InUse' : processes'[q].thread_index = u
    <3>1. \A u \in ThreadIdx \ {t} : local'[u] = local[u]
      BY <1>i, <1>1, <1>3 DEF ProcessTypeOK
    <3>2. \A u \in ThreadIdx : local[u].pc # "none" => \E q \in InUse : processes[q].thread_index = u
      BY <1>i DEF TableInv
    <3> QED
      BY <1>6, <1>7, <1>8, <3>1, <3>2
  <2>4. \A u \in ThreadIdx : local'[u].pc \notin {"none", "start"} =>
                /\ local'[u].proc \in InUse'
                /\ processes'[local'[u].proc].thread_index = u
                /\ processes'[local'[u].proc].pid = local'[u].pid
    BY <1>i, <1>1, <1>3, <1>6, <1>7 DEF ProcessTypeOK, TableInv, Entries, Locals
  <2> QED
    BY <2>1, <2>2, <2>3, <2>4 DEF TableInv
<1> QED
  BY <1>1, <1>2, <1>3, <1>4, <1>5, <1>6, <1>9, <1>10 DEF ProcessInv

\* Storing a list of fds in one entry changes nothing else in the table.
LEMMA FdsUpdate ==
    ASSUME processes \in [ProcIdx -> Entries], NEW q \in ProcIdx, NEW f \in Seq(HandleIdx),
           processes' = [processes EXCEPT ![q].fds = f]
    PROVE  /\ processes' \in [ProcIdx -> Entries]
           /\ \A p \in ProcIdx : /\ processes'[p].in_use = processes[p].in_use
                                 /\ processes'[p].pid = processes[p].pid
                                 /\ processes'[p].thread_index = processes[p].thread_index
                                 /\ processes'[p].fds = IF p = q THEN f ELSE processes[p].fds
<1> DEFINE r == [processes[q] EXCEPT !.fds = f]
<1>1. processes[q] \in Entries
  OBVIOUS
<1>2. /\ r.in_use = processes[q].in_use /\ r.pid = processes[q].pid
      /\ r.thread_index = processes[q].thread_index /\ r.fds = f
  BY <1>1 DEF Entries
<1>3. r \in Entries
  BY <1>1 DEF Entries
<1>4. processes' = [processes EXCEPT ![q] = r]
  OBVIOUS
<1> HIDE DEF r
<1>5. processes' \in [ProcIdx -> Entries] /\ processes'[q] = r
      /\ \A p \in ProcIdx \ {q} : processes'[p] = processes[p]
  BY <1>3, <1>4
<1> QED
  BY <1>2, <1>5

\* A step of thread t: it may change its own locals, the fds in the table, the
\* handles, and end the thread, and it still knows its own entry.
OwnStep(t) ==
    /\ local[t].pc # "none" /\ local'[t] \in Locals /\ local'[t].pc # "none"
    /\ local' = [local EXCEPT ![t] = local'[t]]
    /\ processes' \in [ProcIdx -> Entries]
    /\ \A p \in ProcIdx : /\ processes'[p].in_use = processes[p].in_use
                          /\ processes'[p].pid = processes[p].pid
                          /\ processes'[p].thread_index = processes[p].thread_index
    /\ next_pid' = next_pid
    /\ handles' \subseteq HandleIdx /\ holder' \in [HandleIdx -> ThreadIdx \cup {None}]
    /\ UNCHANGED threadVars \/ (Executing(cpu) /\ thread_exit)
    /\ \/ /\ local[t].pc # "start"
          /\ local'[t].proc = local[t].proc /\ local'[t].pid = local[t].pid
       \/ /\ local'[t].proc \in InUse
          /\ processes[local'[t].proc].thread_index = t
          /\ processes[local'[t].proc].pid = local'[t].pid

\* Such a step keeps the invariant.
LEMMA OwnStepKeeps ==
    ASSUME ProcessInv, NEW t \in ThreadIdx, OwnStep(t)
    PROVE  ProcessInv' /\ InUse' = InUse
<1>i. SchedulerTypeOK /\ CurrentRuns /\ ProcessTypeOK /\ TableInv
  BY DEF ProcessInv
<1>1. SchedulerTypeOK' /\ CurrentRuns'
  BY <1>i, ThreadSteps DEF OwnStep
<1>2. \A u \in ThreadIdx : state[u] # "UNUSED" => state'[u] # "UNUSED"
  BY <1>i DEF OwnStep, thread_exit, threadVars, SchedulerTypeOK
<1>3. local \in [ThreadIdx -> Locals] /\ processes \in [ProcIdx -> Entries] /\ next_pid \in Nat
  BY <1>i DEF ProcessTypeOK
<1>4. ProcessTypeOK'
  <2>1. local' \in [ThreadIdx -> Locals]
    BY <1>3 DEF OwnStep
  <2> QED
    BY <1>3, <2>1 DEF OwnStep, ProcessTypeOK
<1>5. InUse' = InUse
  BY DEF OwnStep, InUse
<1>6. \A u \in ThreadIdx \ {t} : local'[u] = local[u]
  BY <1>3 DEF OwnStep
<1>7. \A p \in InUse : /\ p \in ProcIdx /\ processes[p].thread_index \in ThreadIdx
                      /\ processes'[p].pid = processes[p].pid
                      /\ processes'[p].thread_index = processes[p].thread_index
  BY <1>3 DEF OwnStep, InUse, Entries
<1>8. TableInv'
  <2>1. \A p \in InUse' : /\ processes'[p].pid < next_pid'
                         /\ state'[processes'[p].thread_index] # "UNUSED"
    BY <1>i, <1>2, <1>5, <1>7 DEF TableInv, OwnStep
  <2>2. \A p, q \in InUse' :
          processes'[p].pid = processes'[q].pid
          \/ processes'[p].thread_index = processes'[q].thread_index => p = q
    BY <1>i, <1>5, <1>7 DEF TableInv
  <2>3. \A u \in ThreadIdx :
          local'[u].pc # "none" => \E p \in InUse' : processes'[p].thread_index = u
    BY <1>i, <1>5, <1>6, <1>7 DEF TableInv, OwnStep
  <2>4. \A u \in ThreadIdx : local'[u].pc \notin {"none", "start"} =>
                /\ local'[u].proc \in InUse'
                /\ processes'[local'[u].proc].thread_index = u
                /\ processes'[local'[u].proc].pid = local'[u].pid
    <3>1. \A u \in ThreadIdx : local[u].pc \notin {"none", "start"} =>
                /\ local[u].proc \in InUse
                /\ processes[local[u].proc].thread_index = u
                /\ processes[local[u].proc].pid = local[u].pid
      BY <1>i DEF TableInv
    <3>2. \A u \in ThreadIdx \ {t} : local'[u].pc \notin {"none", "start"} =>
                /\ local'[u].proc \in InUse'
                /\ processes'[local'[u].proc].thread_index = u
                /\ processes'[local'[u].proc].pid = local'[u].pid
      BY <1>5, <1>6, <1>7, <3>1
    <3>3. /\ local'[t].proc \in InUse
          /\ processes[local'[t].proc].thread_index = t
          /\ processes[local'[t].proc].pid = local'[t].pid
      BY <3>1 DEF OwnStep
    <3> QED
      BY <1>5, <1>7, <3>2, <3>3
  <2> QED
    BY <2>1, <2>2, <2>3, <2>4 DEF TableInv
<1> QED
  BY <1>1, <1>4, <1>5, <1>8 DEF ProcessInv

\* Every action of a thread is such a step.
LEMMA ThreadsStepOwn ==
    ASSUME ProcessInv, NEW t \in ThreadIdx, Progress(t) \/ OpenScan(t) \/ EntryExits(t)
    PROVE  OwnStep(t)
<1>i. /\ SchedulerTypeOK /\ CurrentRuns /\ ProcessTypeOK /\ TableInv
      /\ local \in [ThreadIdx -> Locals] /\ processes \in [ProcIdx -> Entries]
      /\ handles \subseteq HandleIdx /\ holder \in [HandleIdx -> ThreadIdx \cup {None}]
  BY DEF ProcessInv, ProcessTypeOK
<1>0. cpu = t /\ Executing(cpu)
  BY DEF Progress, Start, OpenClaim, process_register_fd, EntryReturns, CloseOne, Forget, Exit,
     OpenScan, EntryExits, At, Executing
<1>l. /\ local[t] \in Locals /\ local[t].proc \in ProcIdx \cup {-1} /\ local[t].pid \in Nat
      /\ local[t].fd \in HandleIdx /\ local[t].i \in Nat /\ local[t].opens \in Nat
  BY <1>i DEF Locals
<1>1. CASE Start(t)
  <2> DEFINE p == process_find_by_thread_index(current_thread)
  <2>1. local[t].pc = "start" /\ current_thread = t
    BY <1>i, <1>0, <1>1 DEF Start, At, CurrentRuns
  <2>2. PICK q \in InUse : processes[q].thread_index = t
    BY <1>i, <2>1 DEF TableInv
  <2>3. p = q
    BY <1>i, <2>1, <2>2, Finds
  <2>4. q \in ProcIdx /\ ~(q < 0) /\ processes[q].pid \in Nat
    BY <1>i, <2>2, ProcessAssumption DEF InUse, ProcIdx, Entries
  <2>5. process_get_current_pid = processes[q].pid
    BY <2>3, <2>4 DEF process_get_current_pid
  <2>6. local' = [local EXCEPT ![t].proc = q, ![t].pid = processes[q].pid, ![t].pc = "entry"]
    BY <1>1, <2>3, <2>4, <2>5 DEF Start
  <2>7. local'[t] = [local[t] EXCEPT !.proc = q, !.pid = processes[q].pid, !.pc = "entry"]
        /\ local' = [local EXCEPT ![t] = local'[t]]
    BY <1>i, <2>6
  <2>8. local'[t] \in Locals /\ local'[t].proc = q /\ local'[t].pid = processes[q].pid
        /\ local'[t].pc # "none"
    BY <1>l, <2>4, <2>7 DEF Locals, ProcessPlaces
  <2> QED
    BY <1>i, <1>1, <2>1, <2>2, <2>7, <2>8 DEF OwnStep, Start
<1>2. CASE OpenScan(t)
  <2>1. Lowest(HandleIdx \ handles) \in HandleIdx
    <3>1. HandleIdx \ handles \in SUBSET Nat /\ HandleIdx \ handles # {}
      BY <1>2, ProcessAssumption DEF OpenScan, HandleIdx
    <3> QED
      BY <3>1, LowestOfSet
  <2>2. local[t].pc = "entry"
        /\ local'[t] = [local[t] EXCEPT !.fd = Lowest(HandleIdx \ handles),
                                        !.opens = local[t].opens + 1, !.pc = "claim"]
        /\ local' = [local EXCEPT ![t] = local'[t]]
    BY <1>i, <1>2 DEF OpenScan, At
  <2>3. local'[t] \in Locals /\ local'[t].pc = "claim" /\ local'[t].proc = local[t].proc
        /\ local'[t].pid = local[t].pid
    <3> DEFINE fd == Lowest(HandleIdx \ handles)
    <3> HIDE DEF fd
    <3>1. local'[t] = [local[t] EXCEPT !.fd = fd, !.opens = local[t].opens + 1, !.pc = "claim"]
          /\ fd \in HandleIdx /\ local[t].opens + 1 \in Nat
      BY <1>l, <2>1, <2>2 DEF fd
    <3> QED
      BY <1>l, <3>1 DEF Locals, ProcessPlaces
  <2> QED
    BY <1>i, <1>2, <2>2, <2>3 DEF OwnStep, OpenScan
<1>3. ASSUME NEW place \in ProcessPlaces \ {"none"}, MoveOn(t, place), local[t].pc \notin {"none", "start"}
      PROVE  /\ local[t].pc # "none" /\ local'[t] \in Locals /\ local'[t].pc # "none"
             /\ local' = [local EXCEPT ![t] = local'[t]]
             /\ local'[t].proc = local[t].proc /\ local'[t].pid = local[t].pid
  <2>1. local'[t] = [local[t] EXCEPT !.pc = place] /\ local' = [local EXCEPT ![t] = local'[t]]
    BY <1>i, <1>3 DEF MoveOn
  <2> QED
    BY <1>3, <1>l, <2>1 DEF Locals
<1>4. CASE OpenClaim(t)
  <2>1. MoveOn(t, "register") /\ local[t].pc = "claim"
    BY <1>4 DEF OpenClaim, At
  <2>2. handles' \subseteq HandleIdx /\ holder' \in [HandleIdx -> ThreadIdx \cup {None}]
    BY <1>i, <1>l, <1>4 DEF OpenClaim
  <2> QED
    BY <1>i, <1>3, <1>4, <2>1, <2>2 DEF OwnStep, OpenClaim, ProcessPlaces
<1>5. CASE process_register_fd(t)
  <2>1. MoveOn(t, "entry") /\ local[t].pc = "register"
    BY <1>5 DEF process_register_fd, At
  <2>2. /\ local[t].proc \in InUse /\ process_find_by_pid(local[t].pid) = local[t].proc
        /\ local[t].proc \in ProcIdx /\ ~(local[t].proc < 0)
    <3>1. local[t].proc \in InUse /\ processes[local[t].proc].pid = local[t].pid
      BY <1>i, <2>1 DEF TableInv
    <3>2. local[t].proc \in ProcIdx /\ ~(local[t].proc < 0)
      BY <3>1, ProcessAssumption DEF InUse, ProcIdx
    <3> QED
      BY <1>i, <3>1, <3>2, Finds
  <2>3. \/ processes' = processes
        \/ processes' = [processes EXCEPT ![local[t].proc].fds = Append(@, local[t].fd)]
    BY <1>5, <2>2 DEF process_register_fd
  <2>4. /\ processes' \in [ProcIdx -> Entries]
        /\ \A p \in ProcIdx : /\ processes'[p].in_use = processes[p].in_use
                              /\ processes'[p].pid = processes[p].pid
                              /\ processes'[p].thread_index = processes[p].thread_index
    <3> DEFINE f == Append(processes[local[t].proc].fds, local[t].fd)
    <3>1. f \in Seq(HandleIdx)
      BY <1>i, <1>l, <2>2 DEF Entries
    <3>2. CASE processes' = [processes EXCEPT ![local[t].proc].fds = f]
      <4> HIDE DEF f
      <4> QED
        BY <1>i, <2>2, <3>1, <3>2, FdsUpdate
    <3>3. CASE processes' = processes
      BY <1>i, <3>3
    <3> QED
      BY <2>3, <3>2, <3>3
  <2> QED
    BY <1>i, <1>3, <1>5, <2>1, <2>4 DEF OwnStep, process_register_fd, ProcessPlaces
<1>6. CASE EntryReturns(t)
  BY <1>i, <1>3, <1>6 DEF OwnStep, EntryReturns, At, ProcessPlaces
<1>7. CASE EntryExits(t)
  BY <1>i, <1>0, <1>3, <1>7 DEF OwnStep, EntryExits, At, ProcessPlaces
<1>8. CASE Exit(t)
  BY <1>i, <1>0, <1>3, <1>8 DEF OwnStep, Exit, At, ProcessPlaces
<1>9. CASE CloseOne(t)
  <2>1. local[t].pc = "cleanup" /\ local'[t] = [local[t] EXCEPT !.i = local[t].i + 1]
        /\ local' = [local EXCEPT ![t] = local'[t]]
    BY <1>i, <1>9 DEF CloseOne, At
  <2>2. local'[t] \in Locals /\ local'[t].pc = local[t].pc /\ local'[t].proc = local[t].proc
        /\ local'[t].pid = local[t].pid
    BY <1>l, <2>1 DEF Locals
  <2> QED
    BY <1>i, <1>9, <2>1, <2>2 DEF OwnStep, CloseOne
<1>10. CASE Forget(t)
  <2>1. MoveOn(t, "exit") /\ local[t].pc = "cleanup"
    BY <1>10 DEF Forget, At
  <2>2. local[t].proc \in ProcIdx
    BY <1>i, <2>1 DEF TableInv, InUse
  <2>3. /\ processes' \in [ProcIdx -> Entries]
        /\ \A p \in ProcIdx : /\ processes'[p].in_use = processes[p].in_use
                              /\ processes'[p].pid = processes[p].pid
                              /\ processes'[p].thread_index = processes[p].thread_index
    <3>1. <<>> \in Seq(HandleIdx) /\ processes' = [processes EXCEPT ![local[t].proc].fds = <<>>]
      BY <1>10 DEF Forget
    <3> QED
      BY <1>i, <2>2, <3>1, FdsUpdate
  <2> QED
    BY <1>i, <1>3, <1>10, <2>1, <2>3 DEF OwnStep, Forget, ProcessPlaces
<1> QED
  BY <1>1, <1>2, <1>4, <1>5, <1>6, <1>7, <1>8, <1>9, <1>10 DEF Progress

\* A timer interrupt gives no slot back and takes none.
LEMMA ProcessTickStep == ASSUME ProcessInv, scheduler_tick, UNCHANGED procVars PROVE ProcessInv'
<1>i. SchedulerTypeOK /\ CurrentRuns /\ ProcessTypeOK /\ TableInv
  BY DEF ProcessInv
<1>1. SchedulerTypeOK' /\ CurrentRuns'
  BY <1>i, TickRuns
<1>2. \A u \in ThreadIdx : state'[u] = "UNUSED" <=> state[u] = "UNUSED"
  BY <1>i, TickKeeps
<1>3. ProcessTypeOK' /\ InUse' = InUse
  BY <1>i DEF procVars, ProcessTypeOK, InUse
<1>4. TableInv'
  <2>1. \A p \in InUse : processes[p].thread_index \in ThreadIdx
    BY <1>i DEF InUse, ProcessTypeOK, Entries, Locals
  <2> QED
    BY <1>i, <1>2, <1>3, <2>1 DEF procVars, TableInv
<1> QED
  BY <1>1, <1>3, <1>4 DEF ProcessInv

\* Every step of the system.
LEMMA ProcessStep == ProcessInv /\ [Next]_vars => ProcessInv'
<1> SUFFICES ASSUME ProcessInv, [Next]_vars PROVE ProcessInv'
  OBVIOUS
<1>1. CASE UNCHANGED vars
  BY <1>1 DEF vars, threadVars, procVars, ProcessInv, SchedulerTypeOK, CurrentRuns, ProcessTypeOK,
     TableInv, InUse
<1>2. CASE scheduler_tick /\ UNCHANGED procVars
  BY <1>2, ProcessTickStep
<1>3. CASE process_create
  BY <1>3, CreateStep
<1>4. CASE \E t \in ThreadIdx : Progress(t) \/ OpenScan(t) \/ EntryExits(t)
  BY <1>4, ThreadsStepOwn, OwnStepKeeps
<1> QED
  BY <1>1, <1>2, <1>3, <1>4 DEF Next

(* With any number of threads and processes, and wherever the timer interrupts
   them, the trampoline finds the process its thread was created for, and works on
   that process's entry until it exits. *)
THEOREM TrampolineFindsItself == Spec => []FindsItself
<1>1. ProcessInv => FindsItself
  BY DEF ProcessInv, TableInv, FindsItself
<1> QED
  BY <1>1, ProcessStart, ProcessStep, PTL DEF Spec

-----------------------------------------------------------------------------
(* The handles. *)

\* No handle is open at boot.
LEMMA HandleStart == Init => HandleInv
<1> SUFFICES ASSUME Init PROVE HandleInv
  OBVIOUS
<1>1. handles = {} /\ \A t \in ThreadIdx : local[t] = NoCode
  BY DEF Init, process_init
<1>2. \A t \in ThreadIdx : Counted(t)
  BY <1>1, ProcessAssumption DEF Counted, NoCode
<1> QED
  BY <1>1, <1>2 DEF HandleInv

\* The step changes the fds of no process but thread t's.
OnlyMyFds(t) ==
    \A p \in ProcIdx : processes[p].thread_index # t \/ p \notin InUse => processes'[p].fds = processes[p].fds

\* What the other threads will close does not change.
LEMMA OthersKeep ==
    ASSUME ProcessInv, HandleInv, NEW t \in ThreadIdx, OwnStep(t), OnlyMyFds(t), NEW u \in ThreadIdx \ {t}
    PROVE  /\ local'[u] = local[u] /\ Counted(u)'
           /\ \A h \in HandleIdx : WillClose(u, h)' <=> WillClose(u, h)
<1>i. ProcessTypeOK /\ TableInv /\ InUse' = InUse
  BY OwnStepKeeps DEF ProcessInv
<1>1. local'[u] = local[u]
  BY <1>i DEF OwnStep, ProcessTypeOK
<1>2. \A p \in InUse : processes[p].thread_index = u =>
         processes'[p].thread_index = u /\ processes'[p].fds = processes[p].fds
  BY DEF OwnStep, OnlyMyFds, InUse
<1>3. \A p \in InUse : processes'[p].thread_index = processes[p].thread_index
  BY DEF OwnStep, InUse
<1>4. local[u].pc \notin {"none", "start"} => MyFds(u)' = MyFds(u)
  BY <1>i, <1>1, <1>2 DEF TableInv, MyFds
<1>5. Counted(u)'
  <2>1. Counted(u)
    BY DEF HandleInv
  <2>2. CASE local[u].pc \in {"none", "start"}
    BY <1>i, <1>1, <1>2, <1>3, <2>1, <2>2 DEF Counted
  <2>3. CASE local[u].pc \notin {"none", "start"}
    BY <1>1, <1>4, <2>1, <2>3 DEF Counted
  <2> QED
    BY <2>2, <2>3
<1>6. ASSUME NEW h \in HandleIdx PROVE WillClose(u, h)' <=> WillClose(u, h)
  <2>1. CASE local[u].pc \in {"none", "start"}
    BY <1>1, <2>1 DEF WillClose, Running
  <2>2. CASE local[u].pc \notin {"none", "start"}
    BY <1>1, <1>4, <2>2 DEF WillClose
  <2> QED
    BY <2>1, <2>2
<1> QED
  BY <1>1, <1>5, <1>6

\* Thread t will close the handles it claimed.
Tracked(t) ==
    \A h \in handles : holder[h] = t => local[t].pc = "bypassed" \/ WillClose(t, h)

\* So a step of thread t keeps the invariant if it does so for t and its handles.
LEMMA MineKept ==
    ASSUME ProcessInv, HandleInv, NEW t \in ThreadIdx, OwnStep(t), OnlyMyFds(t), Counted(t)', Tracked(t)',
           \A h \in handles' : holder'[h] # t => h \in handles /\ holder'[h] = holder[h]
    PROVE  HandleInv'
<1>1. handles \subseteq HandleIdx
  BY DEF ProcessInv, ProcessTypeOK
<1>2. \A u \in ThreadIdx : Counted(u)'
  <2>1. \A u \in ThreadIdx \ {t} : Counted(u)'
    BY OthersKeep
  <2> QED
    BY <2>1
<1>3. ASSUME NEW h \in handles'
      PROVE  holder'[h] \in ThreadIdx /\ (local'[holder'[h]].pc = "bypassed" \/ WillClose(holder[h], h)')
  <2>1. CASE holder'[h] = t
    BY <1>3, <2>1 DEF Tracked, WillClose, MyFds
  <2>2. CASE h \in handles /\ holder'[h] = holder[h] /\ holder[h] # t
    <3>0. PICK u \in ThreadIdx \ {t} : u = holder[h]
      BY <2>2 DEF HandleInv
    <3>1. (local[u].pc = "bypassed" \/ WillClose(u, h)) /\ h \in HandleIdx
      BY <1>1, <2>2, <3>0 DEF HandleInv
    <3>2. local'[u] = local[u] /\ (WillClose(u, h)' <=> WillClose(u, h))
      BY <3>1, OthersKeep
    <3>3. local'[u].pc = "bypassed" \/ WillClose(u, h)'
      BY <3>1, <3>2
    <3>4. holder'[h] = u
      BY <2>2, <3>0
    <3> QED
      BY <3>3, <3>4 DEF WillClose, MyFds
  <2> QED
    BY <1>3, <2>1, <2>2
<1> QED
  BY <1>2, <1>3 DEF HandleInv

\* A process that registers all it opens has room for each, so every step of a
\* thread keeps track of its handles.
LEMMA HandleStep ==
    ASSUME ProcessInv, HandleInv, MaxOpens <= MaxFds, NEW t \in ThreadIdx,
           Progress(t) \/ OpenScan(t) \/ EntryExits(t)
    PROVE  HandleInv'
<1>o. OwnStep(t)
  BY ThreadsStepOwn
<1>i. /\ TableInv /\ local \in [ThreadIdx -> Locals] /\ processes \in [ProcIdx -> Entries]
      /\ handles \subseteq HandleIdx /\ holder \in [HandleIdx -> ThreadIdx \cup {None}]
  BY DEF ProcessInv, ProcessTypeOK
<1>l. /\ local[t].fd \in HandleIdx /\ local[t].i \in Nat /\ local[t].opens \in Nat
      /\ MaxOpens \in Nat /\ MaxFds \in Nat
  BY <1>i, ProcessAssumption DEF Locals
<1>c. Counted(t)
  BY DEF HandleInv
<1>h. \A h \in handles : holder[h] = t => local[t].pc = "bypassed" \/ WillClose(t, h)
  BY DEF HandleInv
<1>m. local[t].pc \notin {"none", "start"} =>
        /\ local[t].proc \in InUse /\ local[t].proc \in ProcIdx
        /\ processes[local[t].proc].thread_index = t /\ processes[local[t].proc].pid = local[t].pid
        /\ MyFds(t) \in Seq(HandleIdx) /\ Len(MyFds(t)) \in Nat
  BY <1>i DEF TableInv, InUse, MyFds, Entries
<1>p. ASSUME UNCHANGED processes PROVE OnlyMyFds(t)
  BY <1>p DEF OnlyMyFds
<1>1. CASE Start(t)
  <2>1. /\ UNCHANGED <<processes, handles, holder>> /\ local[t].pc = "start"
        /\ local'[t].i = local[t].i /\ local'[t].opens = local[t].opens
        /\ local'[t].pc = IF local'[t].proc < 0 THEN "exit" ELSE "entry"
    <3>1. local[t] \in Locals
      BY <1>i
    <3>2. local[t].pc = "start" /\ UNCHANGED <<processes, handles, holder>>
          /\ \E p, pid : local'[t] = [local[t] EXCEPT !.proc = p, !.pid = pid,
                                         !.pc = IF p < 0 THEN "exit" ELSE "entry"]
      BY <1>1, <1>i DEF Start, At
    <3> QED
      BY <3>1, <3>2 DEF Locals
  <2>2. local'[t].proc \in InUse /\ processes[local'[t].proc].thread_index = t
    BY <1>o, <2>1 DEF OwnStep
  <2>3. local'[t].pc = "entry"
    <3>1. ~(local'[t].proc < 0)
      BY <2>2, ProcessAssumption DEF InUse, ProcIdx
    <3> QED
      BY <2>1, <3>1
  <2>4. MyFds(t)' = <<>>
    BY <1>c, <2>1, <2>2 DEF Counted, MyFds
  <2>5. Counted(t)'
    <3>1. local[t].opens = 0 /\ local[t].i = 1
      BY <1>c, <2>1 DEF Counted
    <3> QED
      BY <1>l, <2>1, <2>3, <2>4, <3>1 DEF Counted
  <2>6. Tracked(t)'
    BY <1>h, <2>1 DEF Tracked, WillClose, Running
  <2> QED
    BY <1>o, <1>p, <2>1, <2>5, <2>6, MineKept
<1>g. ASSUME NEW place \in ProcessPlaces, MoveOn(t, place)
      PROVE  /\ local'[t].pc = place /\ local'[t].proc = local[t].proc /\ local'[t].i = local[t].i
             /\ local'[t].fd = local[t].fd /\ local'[t].opens = local[t].opens
  <2>1. local[t] \in Locals /\ local'[t] = [local[t] EXCEPT !.pc = place]
    BY <1>i, <1>g DEF MoveOn
  <2> QED
    BY <2>1 DEF Locals
<1>2. CASE OpenScan(t)
  <2>1. /\ UNCHANGED <<processes, handles, holder>> /\ local[t].pc = "entry"
        /\ local[t].opens < MaxOpens
        /\ local'[t].pc = "claim" /\ local'[t].proc = local[t].proc /\ local'[t].i = local[t].i
        /\ local'[t].opens = local[t].opens + 1
    <3>1. local[t] \in Locals
      BY <1>i
    <3>2. /\ local[t].pc = "entry" /\ local[t].opens < MaxOpens
          /\ UNCHANGED <<processes, handles, holder>>
          /\ \E fd : local'[t] = [local[t] EXCEPT !.fd = fd, !.opens = local[t].opens + 1,
                                                  !.pc = "claim"]
      BY <1>2, <1>i DEF OpenScan, At
    <3> QED
      BY <3>1, <3>2 DEF Locals
  <2>2. MyFds(t)' = MyFds(t)
    BY <2>1 DEF MyFds
  <2>3. Counted(t)'
    BY <1>c, <1>l, <1>m, <2>1, <2>2 DEF Counted
  <2>4. Tracked(t)'
    BY <1>h, <2>1, <2>2 DEF Tracked, WillClose, Running
  <2> QED
    BY <1>o, <1>p, <2>1, <2>3, <2>4, MineKept
<1>3. CASE OpenClaim(t)
  <2>1. /\ handles' = handles \cup {local[t].fd} /\ holder' = [holder EXCEPT ![local[t].fd] = t]
        /\ processes' = processes /\ local[t].pc = "claim" /\ MoveOn(t, "register")
    BY <1>3 DEF OpenClaim, At
  <2>2. /\ local'[t].pc = "register" /\ local'[t].proc = local[t].proc /\ local'[t].i = local[t].i
        /\ local'[t].fd = local[t].fd /\ local'[t].opens = local[t].opens
    BY <1>g, <2>1 DEF ProcessPlaces
  <2>3. MyFds(t)' = MyFds(t)
    BY <2>1, <2>2 DEF MyFds
  <2>4. Counted(t)'
    BY <1>c, <1>l, <2>1, <2>2, <2>3 DEF Counted
  <2>5. Tracked(t)'
    <3> SUFFICES ASSUME NEW h \in handles', holder'[h] = t PROVE WillClose(t, h)'
      BY DEF Tracked
    <3>1. CASE h = local[t].fd
      BY <2>2, <3>1 DEF WillClose
    <3>2. CASE h # local[t].fd
      <4>1. h \in handles /\ holder[h] = t
        BY <1>i, <1>l, <2>1, <3>2
      <4> QED
        BY <1>h, <2>1, <2>2, <2>3, <4>1 DEF WillClose, Running
    <3> QED
      BY <3>1, <3>2
  <2>6. \A h \in handles' : holder'[h] # t => h \in handles /\ holder'[h] = holder[h]
    BY <1>i, <1>l, <2>1
  <2> QED
    BY <1>o, <1>p, <2>1, <2>4, <2>5, <2>6, MineKept
<1>4. CASE process_register_fd(t)
  <2>1. /\ UNCHANGED <<handles, holder>> /\ local[t].pc = "register" /\ MoveOn(t, "entry")
        /\ processes' = LET p == process_find_by_pid(local[t].pid) IN
                         IF p < 0 \/ Len(processes[p].fds) >= MaxFds THEN processes
                         ELSE [processes EXCEPT ![p].fds = Append(@, local[t].fd)]
    BY <1>4 DEF process_register_fd, At
  <2>2. /\ local'[t].pc = "entry" /\ local'[t].proc = local[t].proc /\ local'[t].i = local[t].i
        /\ local'[t].fd = local[t].fd /\ local'[t].opens = local[t].opens
    BY <1>g, <2>1 DEF ProcessPlaces
  <2>3. process_find_by_pid(local[t].pid) = local[t].proc /\ ~(local[t].proc < 0)
    <3>1. ~(local[t].proc < 0)
      BY <1>m, <2>1, ProcessAssumption DEF ProcIdx
    <3> QED
      BY <1>m, <2>1, <3>1, Finds DEF ProcessInv
  <2>4. Len(MyFds(t)) < local[t].opens /\ local[t].opens <= MaxOpens /\ local[t].i = 1
    BY <1>c, <2>1 DEF Counted
  <2>5. ~(Len(processes[local[t].proc].fds) >= MaxFds)
    BY <1>l, <1>m, <2>1, <2>4 DEF MyFds
  <2> DEFINE f == Append(MyFds(t), local[t].fd)
  <2>6. processes' = [processes EXCEPT ![local[t].proc].fds = f]
    BY <2>1, <2>3, <2>5 DEF MyFds
  <2>7. f \in Seq(HandleIdx) /\ Len(f) = Len(MyFds(t)) + 1 /\ f[Len(MyFds(t)) + 1] = local[t].fd
        /\ \A k \in 1 .. Len(MyFds(t)) : f[k] = MyFds(t)[k]
    BY <1>l, <1>m, <2>1
  <2> HIDE DEF f
  <2>8. \A p \in ProcIdx : processes'[p].fds = IF p = local[t].proc THEN f ELSE processes[p].fds
    <3>1. local[t].proc \in ProcIdx /\ f \in Seq(HandleIdx)
      BY <1>m, <2>1, <2>7
    <3> QED
      BY <1>i, <2>6, <3>1, FdsUpdate
  <2>9. OnlyMyFds(t) /\ MyFds(t)' = f
    BY <1>m, <2>1, <2>2, <2>8 DEF OnlyMyFds, MyFds
  <2>10. Counted(t)'
    BY <1>c, <1>l, <1>m, <2>1, <2>2, <2>4, <2>7, <2>9 DEF Counted
  <2>11. Tracked(t)'
    <3> SUFFICES ASSUME NEW h \in handles, holder[h] = t PROVE WillClose(t, h)'
      BY <2>1 DEF Tracked
    <3>1. WillClose(t, h)
      BY <1>h, <2>1
    <3>2. \E k \in 1 .. Len(f) : local[t].i <= k /\ f[k] = h
      <4>1. CASE local[t].fd = h
        <5>1. Len(MyFds(t)) + 1 \in 1 .. Len(f) /\ local[t].i <= Len(MyFds(t)) + 1
          BY <1>m, <2>1, <2>4, <2>7
        <5> QED
          BY <2>7, <4>1, <5>1
      <4>2. CASE local[t].fd # h
        <5>1. PICK k \in 1 .. Len(MyFds(t)) : local[t].i <= k /\ MyFds(t)[k] = h
          BY <3>1, <4>2 DEF WillClose
        <5>2. k \in 1 .. Len(f) /\ f[k] = h
          BY <1>m, <2>1, <2>7, <5>1
        <5> QED
          BY <5>1, <5>2
      <4> QED
        BY <4>1, <4>2
    <3> QED
      BY <2>2, <2>9, <3>2 DEF WillClose, Running
  <2> QED
    BY <1>o, <2>1, <2>9, <2>10, <2>11, MineKept
<1>5. CASE EntryReturns(t)
  <2>1. UNCHANGED <<processes, handles, holder>> /\ local[t].pc = "entry" /\ MoveOn(t, "cleanup")
    BY <1>5 DEF EntryReturns, At
  <2>2. /\ local'[t].pc = "cleanup" /\ local'[t].proc = local[t].proc /\ local'[t].i = local[t].i
        /\ local'[t].opens = local[t].opens
    BY <1>g, <2>1 DEF ProcessPlaces
  <2>3. MyFds(t)' = MyFds(t)
    BY <2>1, <2>2 DEF MyFds
  <2>4. Counted(t)'
    BY <1>c, <2>2 DEF Counted
  <2>5. Tracked(t)'
    BY <1>h, <2>1, <2>2, <2>3 DEF Tracked, WillClose, Running
  <2> QED
    BY <1>o, <1>p, <2>1, <2>4, <2>5, MineKept
<1>6. CASE EntryExits(t)
  <2>1. UNCHANGED <<processes, handles, holder>> /\ MoveOn(t, "bypassed")
    BY <1>6 DEF EntryExits
  <2>2. local'[t].pc = "bypassed" /\ local'[t].opens = local[t].opens
    BY <1>g, <2>1 DEF ProcessPlaces
  <2>3. Counted(t)' /\ Tracked(t)'
    BY <1>c, <2>2 DEF Counted, Tracked
  <2> QED
    BY <1>o, <1>p, <2>1, <2>3, MineKept
<1>7. CASE CloseOne(t)
  <2>1. /\ handles' = handles \ {MyFds(t)[local[t].i]} /\ UNCHANGED <<processes, holder>>
        /\ local[t].pc = "cleanup"
    BY <1>7 DEF CloseOne, At
  <2>2. /\ local'[t].pc = "cleanup" /\ local'[t].proc = local[t].proc
        /\ local'[t].i = local[t].i + 1 /\ local'[t].opens = local[t].opens
    <3>1. local[t] \in Locals /\ local'[t] = [local[t] EXCEPT !.i = local[t].i + 1]
      BY <1>i, <1>7 DEF CloseOne
    <3> QED
      BY <2>1, <3>1 DEF Locals
  <2>3. MyFds(t)' = MyFds(t)
    BY <2>1, <2>2 DEF MyFds
  <2>4. Counted(t)'
    BY <1>c, <2>2 DEF Counted
  <2>5. Tracked(t)'
    <3> SUFFICES ASSUME NEW h \in handles', holder[h] = t PROVE WillClose(t, h)'
      BY <2>1 DEF Tracked
    <3>1. WillClose(t, h) /\ h # MyFds(t)[local[t].i]
      BY <1>h, <2>1
    <3>2. PICK k \in 1 .. Len(MyFds(t)) : local[t].i <= k /\ MyFds(t)[k] = h
      BY <2>1, <3>1 DEF WillClose
    <3>3. local[t].i + 1 <= k
      BY <1>l, <1>m, <2>1, <3>1, <3>2
    <3> QED
      BY <2>2, <2>3, <3>2, <3>3 DEF WillClose, Running
  <2> QED
    BY <1>o, <1>p, <2>1, <2>4, <2>5, MineKept
<1>8. CASE Forget(t)
  <2>1. /\ local[t].i > Len(MyFds(t)) /\ processes' = [processes EXCEPT ![local[t].proc].fds = <<>>]
        /\ UNCHANGED <<handles, holder>> /\ local[t].pc = "cleanup" /\ MoveOn(t, "exit")
    BY <1>8 DEF Forget, At
  <2>2. local'[t].pc = "exit" /\ local'[t].opens = local[t].opens
    BY <1>g, <2>1 DEF ProcessPlaces
  <2>3. OnlyMyFds(t)
    <3>1. <<>> \in Seq(HandleIdx)
      OBVIOUS
    <3>2. \A p \in ProcIdx : processes'[p].fds = IF p = local[t].proc THEN <<>> ELSE processes[p].fds
      BY <1>i, <1>m, <2>1, <3>1, FdsUpdate
    <3> QED
      BY <1>m, <2>1, <3>2 DEF OnlyMyFds
  <2>4. Counted(t)'
    BY <1>c, <2>2 DEF Counted
  <2>5. Tracked(t)'
    BY <1>h, <1>l, <1>m, <2>1 DEF Tracked, WillClose
  <2> QED
    BY <1>o, <2>1, <2>3, <2>4, <2>5, MineKept
<1>9. CASE Exit(t)
  <2>1. UNCHANGED <<processes, handles, holder>> /\ local[t].pc = "exit" /\ MoveOn(t, "gone")
    BY <1>9 DEF Exit, At
  <2>2. local'[t].pc = "gone" /\ local'[t].opens = local[t].opens
    BY <1>g, <2>1 DEF ProcessPlaces
  <2>3. Counted(t)'
    BY <1>c, <2>2 DEF Counted
  <2>4. Tracked(t)'
    BY <1>h, <2>1 DEF Tracked, WillClose, Running
  <2> QED
    BY <1>o, <1>p, <2>1, <2>3, <2>4, MineKept
<1> QED
  BY <1>1, <1>2, <1>3, <1>4, <1>5, <1>6, <1>7, <1>8, <1>9 DEF Progress

\* A process that is created has no handle yet, and a timer interrupt moves none.
LEMMA HandlesTracked ==
    ProcessInv /\ HandleInv /\ MaxOpens <= MaxFds /\ [Next]_vars => HandleInv'
<1> SUFFICES ASSUME ProcessInv, HandleInv, MaxOpens <= MaxFds, [Next]_vars PROVE HandleInv'
  OBVIOUS
<1>1. CASE UNCHANGED procVars
  <2>1. UNCHANGED <<processes, local, handles, holder>>
    BY <1>1 DEF procVars
  <2> QED
    BY <2>1 DEF HandleInv, Counted, WillClose, MyFds, InUse
<1>2. CASE process_create
  <2>1. PICK t \in ThreadIdx, p \in ProcIdx :
          /\ local[t].pc = "none" /\ p \notin InUse /\ InUse' = InUse \cup {p}
          /\ processes' = [processes EXCEPT ![p] =
                [in_use |-> TRUE, pid |-> next_pid, thread_index |-> t, fds |-> <<>>]]
          /\ local' = [local EXCEPT ![t].pc = "start"]
          /\ UNCHANGED <<handles, holder>>
    BY <1>2, CreateStep
  <2>2. /\ local \in [ThreadIdx -> Locals] /\ processes \in [ProcIdx -> Entries]
        /\ handles \subseteq HandleIdx /\ TableInv /\ TableInv'
    BY <1>2, CreateStep DEF ProcessInv, ProcessTypeOK
  <2>3. /\ processes'[p].fds = <<>> /\ processes'[p].thread_index = t
        /\ \A q \in InUse : processes'[q] = processes[q]
    BY <2>1, <2>2 DEF InUse
  <2>4. /\ \A u \in ThreadIdx \ {t} : local'[u] = local[u]
        /\ local'[t].pc = "start" /\ local'[t].opens = local[t].opens /\ local'[t].i = local[t].i
    BY <2>1, <2>2 DEF Locals
  <2>5. \A u \in ThreadIdx \ {t} : local[u].pc \notin {"none", "start"} => MyFds(u)' = MyFds(u)
    BY <2>2, <2>3, <2>4 DEF TableInv, MyFds
  <2>6. ASSUME NEW u \in ThreadIdx \ {t} PROVE Counted(u)'
    <3>1. Counted(u)
      BY DEF HandleInv
    <3> QED
      BY <2>1, <2>3, <2>4, <2>5, <3>1 DEF Counted
  <2>7. Counted(t)'
    <3>1. Counted(t)
      BY DEF HandleInv
    <3>2. \A q \in InUse' : processes'[q].thread_index = t => q = p
      BY <2>1, <2>2, <2>3 DEF TableInv
    <3> QED
      BY <2>1, <2>3, <2>4, <3>1, <3>2 DEF Counted
  <2>8. ASSUME NEW h \in handles
        PROVE  holder[h] \in ThreadIdx /\ (local'[holder[h]].pc = "bypassed" \/ WillClose(holder[h], h)')
    <3>1. PICK u \in ThreadIdx : u = holder[h] /\ (local[u].pc = "bypassed" \/ WillClose(u, h))
      BY DEF HandleInv
    <3>2. u # t /\ local[u].pc \notin {"none", "start"}
      BY <2>1, <3>1 DEF WillClose, Running
    <3>3. local'[u].pc = "bypassed" \/ WillClose(u, h)'
      BY <2>4, <2>5, <3>1, <3>2 DEF WillClose
    <3> QED
      BY <2>1, <3>1, <3>3 DEF WillClose, MyFds
  <2> QED
    BY <2>1, <2>6, <2>7, <2>8 DEF HandleInv
<1>3. CASE \E t \in ThreadIdx : Progress(t) \/ OpenScan(t) \/ EntryExits(t)
  BY <1>3, HandleStep
<1> QED
  BY <1>1, <1>2, <1>3 DEF Next, vars

(* With any number of threads, processes and handles, and whatever races for a
   handle fs_open() loses, a process that registered all it opened and whose entry
   function returned leaves no handle open that it was the last to claim.  The
   hypothesis is that no entry function opens more files than a process can
   register (PROCESS_MAX_FDS); process_register_fd() drops the rest. *)
THEOREM CleanupClosesAll == MaxOpens <= MaxFds /\ Spec => []ReturnedLeavesNothingOpen
<1> SUFFICES ASSUME MaxOpens <= MaxFds PROVE Spec => []ReturnedLeavesNothingOpen
  OBVIOUS
<1>1. HandleInv => ReturnedLeavesNothingOpen
  BY DEF HandleInv, ReturnedLeavesNothingOpen, WillClose, Running
<1>2. ProcessInv /\ HandleInv /\ [Next]_vars => ProcessInv' /\ HandleInv'
  BY ProcessStep, HandlesTracked
<1> QED
  BY <1>1, <1>2, ProcessStart, HandleStart, PTL DEF Spec
=============================================================================
