----------------------------- MODULE SyncThread -----------------------------
(***************************************************************************)
(* What Mutex and Semaphore share: the threads of Scheduler that use the   *)
(* objects of src/kernel/sync.c, each at one place of one operation.       *)
(***************************************************************************)
EXTENDS Scheduler

CONSTANT Workers            \* the threads that use the objects, created at boot

ASSUME WorkersAssumption == Workers \subseteq ThreadIdx \ {0}

VARIABLE pc                 \* where each thread stands

\* The workers exist and are READY; the boot thread runs.
WorkersInit ==
    /\ thread_init_with(Workers)
    /\ pc = [i \in ThreadIdx |-> "idle"]

\* Thread t executes its next step.  A halted waiter executes too, whenever the
\* processor is on it: it tests its state after every interrupt.
Runs(t, p) == cpu = t /\ pc[t] = p
Goto(t, p) == pc' = [pc EXCEPT ![t] = p]
=============================================================================
