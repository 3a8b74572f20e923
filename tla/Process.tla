------------------------------ MODULE Process -------------------------------
(***************************************************************************)
(* The processes of src/kernel/process.c: a process table over the threads *)
(* of Scheduler, one shared trampoline, and the cleanup of the file        *)
(* handles a process registered.                                           *)
(*                                                                         *)
(* process_create() runs inside a shell command, in the keyboard interrupt *)
(* with interrupts off, and is one step.  The trampoline and the entry     *)
(* function run with interrupts on: the timer can fall between any two of  *)
(* their steps, in particular between fs_open()'s search for a closed      *)
(* handle and its claim of it.  An entry function opens and registers up   *)
(* to MaxOpens files, then returns or calls thread_exit() itself.          *)
(***************************************************************************)
EXTENDS Scheduler, Sequences

CONSTANTS
    ProcessMax,     \* PROCESS_MAX
    MaxFds,         \* PROCESS_MAX_FDS
    NumHandles,     \* FS_MAX_HANDLES
    MaxOpens        \* the most files an entry function opens

ProcIdx == 0 .. (ProcessMax - 1)
HandleIdx == 0 .. (NumHandles - 1)

ASSUME ProcessAssumption ==
    /\ ProcessMax \in Nat \ {0} /\ MaxFds \in Nat
    /\ NumHandles \in Nat \ {0} /\ MaxOpens \in Nat

VARIABLES
    processes,      \* the process table
    next_pid,
    local,          \* where each thread's code stands, and its locals
    handles,        \* fs.c: the open handles
    holder          \* history: the thread that claimed a handle last

procVars == <<processes, next_pid, local, handles, holder>>
vars == <<threadVars, procVars>>

Free == [in_use |-> FALSE, pid |-> 0, thread_index |-> 0, fds |-> <<>>]
NoCode == [pc |-> "none", proc |-> -1, pid |-> 0, fd |-> 0, i |-> 1, opens |-> 0]

process_init ==
    /\ processes = [p \in ProcIdx |-> Free]
    /\ next_pid = 1
    /\ local = [t \in ThreadIdx |-> NoCode]
    /\ handles = {} /\ holder = [h \in HandleIdx |-> None]

-----------------------------------------------------------------------------
InUse == {p \in ProcIdx : processes[p].in_use}

process_find_by_pid(pid) ==
    LET hits == {p \in InUse : processes[p].pid = pid}
    IN  IF hits = {} THEN -1 ELSE Lowest(hits)

process_find_by_thread_index(t) ==
    LET hits == {p \in InUse : processes[p].thread_index = t}
    IN  IF hits = {} THEN -1 ELSE Lowest(hits)

process_get_current_pid ==
    LET p == process_find_by_thread_index(current_thread)
    IN  IF p < 0 THEN 0 ELSE processes[p].pid

process_get_state(pid) ==
    LET p == process_find_by_pid(pid)
    IN  IF p < 0 THEN "UNUSED" ELSE state[processes[p].thread_index]

\* thread_create() returns an id, the index plus one.
process_create_idNotIndex ==
    /\ ProcIdx \ InUse # {}
    /\ thread_create
    /\ processes' = [processes EXCEPT ![Lowest(ProcIdx \ InUse)] =
           [in_use |-> TRUE, pid |-> next_pid,
            thread_index |-> Lowest(UnusedSlots) + 1, fds |-> <<>>]]
    /\ next_pid' = next_pid + 1
    /\ local' = [local EXCEPT ![Lowest(UnusedSlots)].pc = "start"]
    /\ UNCHANGED <<handles, holder>>
process_create ==
    /\ ProcIdx \ InUse # {}
    /\ thread_create
    /\ processes' = [processes EXCEPT ![Lowest(ProcIdx \ InUse)] =
           [in_use |-> TRUE, pid |-> next_pid,
            thread_index |-> Lowest(UnusedSlots), fds |-> <<>>]]
    /\ next_pid' = next_pid + 1
    /\ local' = [local EXCEPT ![Lowest(UnusedSlots)].pc = "start"]
    /\ UNCHANGED <<handles, holder>>

-----------------------------------------------------------------------------
(* process_trampoline() and the entry function, on thread t.                *)

At(t, pc) == Executing(t) /\ local[t].pc = pc
MoveOn(t, place) == local' = [local EXCEPT ![t].pc = place]

\* Looks itself up by its thread index; the entry function asks for its pid.
Start(t) ==
    /\ At(t, "start")
    /\ LET p == process_find_by_thread_index(current_thread) IN
       local' = [local EXCEPT ![t].proc = p, ![t].pid = process_get_current_pid,
                              ![t].pc = IF p < 0 THEN "exit" ELSE "entry"]
    /\ UNCHANGED <<threadVars, processes, next_pid, handles, holder>>

\* fs_open() finds a closed handle ...
OpenScan(t) ==
    /\ At(t, "entry") /\ local[t].opens < MaxOpens
    /\ HandleIdx \ handles # {}
    /\ local' = [local EXCEPT ![t].fd = Lowest(HandleIdx \ handles),
                              ![t].opens = local[t].opens + 1, ![t].pc = "claim"]
    /\ UNCHANGED <<threadVars, processes, next_pid, handles, holder>>

\* ... and claims it.
OpenClaim(t) ==
    /\ At(t, "claim")
    /\ handles' = handles \cup {local[t].fd}
    /\ holder' = [holder EXCEPT ![local[t].fd] = t]
    /\ MoveOn(t, "register")
    /\ UNCHANGED <<threadVars, processes, next_pid>>

\* A full fd list drops the registration without a word.
process_register_fd(t) ==
    /\ At(t, "register")
    /\ LET p == process_find_by_pid(local[t].pid) IN
       processes' = IF p < 0 \/ Len(processes[p].fds) >= MaxFds THEN processes
                    ELSE [processes EXCEPT ![p].fds = Append(@, local[t].fd)]
    /\ MoveOn(t, "entry")
    /\ UNCHANGED <<threadVars, next_pid, handles, holder>>

EntryReturns(t) ==
    /\ At(t, "entry") /\ MoveOn(t, "cleanup")
    /\ UNCHANGED <<threadVars, processes, next_pid, handles, holder>>

\* The entry function ends its thread itself and bypasses the cleanup.
EntryExits(t) ==
    /\ At(t, "entry") /\ thread_exit /\ MoveOn(t, "bypassed")
    /\ UNCHANGED <<processes, next_pid, handles, holder>>

MyFds(t) == processes[local[t].proc].fds

CloseOne_skipsFirst(t) ==
    /\ At(t, "cleanup") /\ local[t].i <= Len(MyFds(t))
    /\ handles' = IF local[t].i = 1 THEN handles ELSE handles \ {MyFds(t)[local[t].i]}
    /\ local' = [local EXCEPT ![t].i = local[t].i + 1]
    /\ UNCHANGED <<threadVars, processes, next_pid, holder>>
CloseOne(t) ==
    /\ At(t, "cleanup") /\ local[t].i <= Len(MyFds(t))
    /\ handles' = handles \ {MyFds(t)[local[t].i]}
    /\ local' = [local EXCEPT ![t].i = local[t].i + 1]
    /\ UNCHANGED <<threadVars, processes, next_pid, holder>>

Forget(t) ==
    /\ At(t, "cleanup") /\ local[t].i > Len(MyFds(t))
    /\ processes' = [processes EXCEPT ![local[t].proc].fds = <<>>]
    /\ MoveOn(t, "exit")
    /\ UNCHANGED <<threadVars, next_pid, handles, holder>>

Exit(t) ==
    /\ At(t, "exit") /\ thread_exit /\ MoveOn(t, "gone")
    /\ UNCHANGED <<processes, next_pid, handles, holder>>

\* Every step of a thread but opening another file, which the code may do.
Progress(t) ==
    \/ Start(t) \/ OpenClaim(t) \/ process_register_fd(t) \/ EntryReturns(t)
    \/ CloseOne(t) \/ Forget(t) \/ Exit(t)

Init == thread_init /\ process_init

Next ==
    \/ scheduler_tick /\ UNCHANGED procVars
    \/ process_create
    \/ \E t \in ThreadIdx : Progress(t) \/ OpenScan(t) \/ EntryExits(t)

Spec == Init /\ [][Next]_vars

\* The PIT keeps interrupting, and a thread that gets the processor again and
\* again executes instructions each time.
FairSpec ==
    /\ Spec
    /\ WF_vars(scheduler_tick /\ UNCHANGED procVars)
    /\ \A t \in ThreadIdx : SF_vars(Progress(t))

-----------------------------------------------------------------------------
ProcessPlaces == {"none", "start", "entry", "claim", "register", "cleanup", "exit", "bypassed", "gone"}
Running == {"entry", "claim", "register", "cleanup"}

Entries == [in_use : BOOLEAN, pid : Nat, thread_index : ThreadIdx, fds : Seq(HandleIdx)]
Locals == [pc : ProcessPlaces, proc : ProcIdx \cup {-1}, pid : Nat, fd : HandleIdx, i : Nat, opens : Nat]

ProcessTypeOK ==
    /\ processes \in [ProcIdx -> Entries] /\ next_pid \in Nat
    /\ local \in [ThreadIdx -> Locals]
    /\ handles \subseteq HandleIdx
    /\ holder \in [HandleIdx -> ThreadIdx \cup {None}]

\* The process table against the thread table and what the threads know.
TableInv ==
    /\ \A p \in InUse : /\ processes[p].pid < next_pid
                        /\ state[processes[p].thread_index] # "UNUSED"
    /\ \A p, q \in InUse :
          processes[p].pid = processes[q].pid
          \/ processes[p].thread_index = processes[q].thread_index => p = q
    /\ \A t \in ThreadIdx :
          /\ local[t].pc # "none" => \E p \in InUse : processes[p].thread_index = t
          /\ local[t].pc \notin {"none", "start"} =>
                /\ local[t].proc \in InUse
                /\ processes[local[t].proc].thread_index = t
                /\ processes[local[t].proc].pid = local[t].pid

\* How far thread t is with its files: it has registered fewer than it opened
\* while it is opening one.
Counted(t) ==
    /\ local[t].opens <= MaxOpens
    /\ local[t].pc \in {"none", "start"} => local[t].opens = 0
    /\ local[t].pc \in {"none", "start", "entry", "claim", "register"} => local[t].i = 1
    /\ local[t].pc = "start" => \A p \in InUse :
          processes[p].thread_index = t => processes[p].fds = <<>>
    /\ local[t].pc = "entry" => Len(MyFds(t)) <= local[t].opens
    /\ local[t].pc \in {"claim", "register"} => Len(MyFds(t)) < local[t].opens

\* Thread t will close handle h: it is about to register it, or has registered it
\* and not yet come to it.
WillClose(t, h) ==
    \/ local[t].pc = "register" /\ local[t].fd = h
    \/ /\ local[t].pc \in Running
       /\ \E k \in 1 .. Len(MyFds(t)) : local[t].i <= k /\ MyFds(t)[k] = h

\* An open handle is one that its thread will close, or one of a thread that ended
\* without cleanup.
HandleInv ==
    /\ \A t \in ThreadIdx : Counted(t)
    /\ \A h \in handles :
          /\ holder[h] \in ThreadIdx
          /\ local[holder[h]].pc = "bypassed" \/ WillClose(holder[h], h)

(* process_trampoline() "looks itself up in the process table by its own thread
   index": processes never share a thread or a pid, and the entry a thread runs
   and the fds it cleans up are those of the process that was given the thread,
   wherever the timer interrupts. *)
FindsItself ==
    /\ \A p, q \in InUse :
          processes[p].pid = processes[q].pid
          \/ processes[p].thread_index = processes[q].thread_index => p = q
    /\ \A t \in ThreadIdx :
          local[t].pc \notin {"none", "start"} =>
              local[t].proc \in InUse /\ processes[local[t].proc].thread_index = t

(* process.h: "fs_close() is called on every fd a process registered, the moment
   its entry function returns normally": a handle left open is not one that a
   process which returned and is gone was the last to claim, even when two
   processes raced for one handle in fs_open(). *)
ReturnedLeavesNothingOpen ==
    \A h \in handles : local[holder[h]].pc # "gone"

(* process.h on process_get_state(): "Returns PROCESS_UNUSED if pid doesn't exist
   (already exited, or never existed)". *)
ExitedIsUnused ==
    \A p \in InUse : state[processes[p].thread_index] = "TERMINATED" =>
                         process_get_state(processes[p].pid) = "UNUSED"

(* Every process that is created runs and ends, its handles cleaned up on the
   way, whatever the others do. *)
ProcessesFinish ==
    \A t \in ThreadIdx : local[t].pc = "start" ~> local[t].pc \in {"gone", "bypassed"}
=============================================================================
