----------------------------- MODULE Scheduler ------------------------------
(***************************************************************************)
(* The thread table of src/kernel/thread.c and the timer-driven scheduler  *)
(* of src/kernel/scheduler.c.                                              *)
(*                                                                         *)
(* A saved stack pointer is modelled by the thread whose stack it points   *)
(* into: cpu is the thread whose stack the processor is on, saved[i] the   *)
(* stack that threads[i].saved_esp leads back to.  thread.c's idea of who  *)
(* runs, current_thread, is a variable of its own, and the two can differ. *)
(* The timer interrupt can fall between any two actions: interrupts are    *)
(* enabled whenever a thread runs.  The run and switch counters, which no  *)
(* decision depends on, are left out.                                      *)
(***************************************************************************)
EXTENDS Naturals, Integers, Least

CONSTANTS
    ThreadMax,      \* THREAD_MAX
    Policies,       \* the policies callers of scheduler_set_policy() choose
    Stoppers,       \* the threads whose code may block or exit
    None            \* saved_esp of a slot never used

ThreadIdx == 0 .. (ThreadMax - 1)

ASSUME SchedulerAssumption ==
    /\ ThreadMax \in Nat \ {0}
    /\ Policies \subseteq {"rr", "fcfs", "priority"}
    /\ Stoppers \subseteq ThreadIdx
    /\ None \notin ThreadIdx

VARIABLES
    state,              \* threads[i].state
    saved,              \* threads[i].saved_esp
    current_thread,
    cpu,                \* the stack the processor is on
    scheduler_policy

threadVars == <<state, saved, current_thread, cpu, scheduler_policy>>

States == {"UNUSED", "READY", "RUNNING", "BLOCKED", "TERMINATED"}

-----------------------------------------------------------------------------
\* thread_init() and scheduler_init(): the boot code becomes thread 0.
thread_init ==
    /\ state = [i \in ThreadIdx |-> IF i = 0 THEN "RUNNING" ELSE "UNUSED"]
    /\ saved = [i \in ThreadIdx |-> None]
    /\ current_thread = 0 /\ cpu = 0
    /\ scheduler_policy = "rr"

\* Threads W have been created since, and have not run yet.
thread_init_with(W) ==
    /\ state = [i \in ThreadIdx |-> IF i = 0 THEN "RUNNING"
                                    ELSE IF i \in W THEN "READY" ELSE "UNUSED"]
    /\ saved = [i \in ThreadIdx |-> IF i \in W THEN i ELSE None]
    /\ current_thread = 0 /\ cpu = 0
    /\ scheduler_policy = "rr"

\* The code of the thread on the processor goes on, unless it sits in the halt
\* loop of thread_exit() or of a blocked semaphore_wait().
Executing(i) == cpu = i /\ state[i] \in {"RUNNING", "READY"}

UnusedSlots == {i \in ThreadIdx \ {0} : state[i] = "UNUSED"}

\* thread_create(), called with a free slot; build_initial_stack() leaves a
\* frame on the new thread's own stack.
thread_create ==
    /\ UnusedSlots # {}
    /\ LET i == Lowest(UnusedSlots) IN
       /\ state' = [state EXCEPT ![i] = "READY"]
       /\ saved' = [saved EXCEPT ![i] = i]
    /\ UNCHANGED <<current_thread, cpu, scheduler_policy>>

thread_exit ==
    /\ state' = [state EXCEPT ![current_thread] = "TERMINATED"]
    /\ UNCHANGED <<saved, current_thread, cpu, scheduler_policy>>

thread_block_current ==
    /\ state' = IF state[current_thread] = "RUNNING"
                THEN [state EXCEPT ![current_thread] = "BLOCKED"] ELSE state
    /\ UNCHANGED <<saved, current_thread, cpu, scheduler_policy>>

\* thread_unblock(); thread_wake() is the same by thread id.
thread_unblock(i) ==
    /\ state' = IF state[i] = "BLOCKED" THEN [state EXCEPT ![i] = "READY"] ELSE state
    /\ UNCHANGED <<saved, current_thread, cpu, scheduler_policy>>

thread_wake_one ==
    LET blocked == {i \in ThreadIdx : state[i] = "BLOCKED"} IN
    blocked # {} /\ thread_unblock(Lowest(blocked))

-----------------------------------------------------------------------------
(* The selection, over the states st after the running thread was put back. *)

ReadyIn(st) == {i \in ThreadIdx : st[i] = "READY"}

\* Takes the first READY thread after the current one, the current one last.
find_round_robin_fromCurrent(st) ==
    LET offsets == {o \in 0 .. (ThreadMax - 1) :
                       st[(current_thread + o) % ThreadMax] = "READY"}
    IN  IF offsets = {} THEN -1 ELSE (current_thread + Lowest(offsets)) % ThreadMax
find_round_robin(st) ==
    LET offsets == {o \in 1 .. ThreadMax :
                       st[(current_thread + o) % ThreadMax] = "READY"}
    IN  IF offsets = {} THEN -1 ELSE (current_thread + Lowest(offsets)) % ThreadMax

find_fcfs(st) == IF ReadyIn(st) = {} THEN -1 ELSE Lowest(ReadyIn(st))

\* The lowest id; ids are indices plus one.
find_priority(st) == IF ReadyIn(st) = {} THEN -1
                     ELSE Lowest({i + 1 : i \in ReadyIn(st)}) - 1

find_next_thread(st) ==
    CASE scheduler_policy = "fcfs" -> find_fcfs(st)
      [] scheduler_policy = "priority" -> find_priority(st)
      [] OTHER -> find_round_robin(st)

\* The states the selection sees: only a RUNNING thread goes back to READY.
PutBack_always == [state EXCEPT ![current_thread] = "READY"]
PutBack == IF state[current_thread] = "RUNNING"
           THEN [state EXCEPT ![current_thread] = "READY"] ELSE state

\* scheduler_tick() and the switch to the stack it returns (irq_common).
scheduler_tick_desynced ==
    LET kept == [saved EXCEPT ![current_thread] = cpu]
        next == find_next_thread(PutBack)
    IN  /\ next >= 0
        /\ saved' = kept /\ cpu' = kept[next]
        /\ state' = [PutBack EXCEPT ![next] = "RUNNING"]
        /\ UNCHANGED <<current_thread, scheduler_policy>>
scheduler_tick ==
    LET kept == [saved EXCEPT ![current_thread] = cpu]
        next == find_next_thread(PutBack)
    IN  /\ saved' = kept
        /\ \/ /\ next < 0
              /\ state' = PutBack
              /\ UNCHANGED <<current_thread, cpu>>
           \/ /\ next >= 0
              /\ current_thread' = next
              /\ state' = [PutBack EXCEPT ![next] = "RUNNING"]
              /\ cpu' = kept[next]
        /\ UNCHANGED scheduler_policy

scheduler_set_policy(p) ==
    /\ scheduler_policy' = p
    /\ UNCHANGED <<state, saved, current_thread, cpu>>

-----------------------------------------------------------------------------
\* Threads are created by shell commands, inside the keyboard interrupt; a
\* thread that stops does so itself; a wake-up may come from a thread or an
\* interrupt handler.
SchedulerNext ==
    \/ scheduler_tick
    \/ thread_create
    \/ cpu \in Stoppers /\ Executing(cpu) /\ thread_exit
    \/ cpu \in Stoppers /\ Executing(cpu) /\ thread_block_current
    \/ \E i \in ThreadIdx : state[i] = "BLOCKED" /\ thread_unblock(i)
    \/ thread_wake_one
    \/ \E p \in Policies : scheduler_set_policy(p)

SchedulerSpec == thread_init /\ [][SchedulerNext]_threadVars

\* The PIT keeps interrupting.
FairSchedulerSpec == SchedulerSpec /\ WF_threadVars(scheduler_tick)

-----------------------------------------------------------------------------
SchedulerTypeOK ==
    /\ state \in [ThreadIdx -> States]
    /\ saved \in [ThreadIdx -> ThreadIdx \cup {None}]
    /\ current_thread \in ThreadIdx /\ cpu \in ThreadIdx
    /\ scheduler_policy \in {"rr", "fcfs", "priority"}

(* thread.c is "the single source of truth for which thread is running"
   (scheduler.c): the processor is on the stack of current_thread, no other
   thread is RUNNING, and every other thread's saved stack pointer leads back
   to its own stack, so whichever thread a tick picks resumes as itself. *)
CurrentRuns ==
    /\ cpu = current_thread
    /\ \A i \in ThreadIdx \ {current_thread} :
          /\ state[i] # "RUNNING"
          /\ state[i] # "UNUSED" => saved[i] = i

(* thread_exit(): a terminated thread stays terminated, and once the processor
   has left it, no tick under any policy brings it back. *)
TerminatedForGood ==
    [][\A i \in ThreadIdx :
          state[i] = "TERMINATED" =>
              state'[i] = "TERMINATED" /\ (cpu # i => cpu' # i)]_threadVars

(* Round robin: a READY thread gets the processor, whatever the others do, as
   long as the policy stays. *)
RoundRobinServes ==
    \A i \in ThreadIdx :
        state[i] = "READY" /\ scheduler_policy = "rr"
            ~> cpu = i \/ scheduler_policy # "rr"
=============================================================================
