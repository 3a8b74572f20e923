----------------------------- MODULE FileStore ------------------------------
(***************************************************************************)
(* What src/kernel/fs.c promises its callers, with no disk in it: a set of *)
(* named byte strings, and handles that remember a position in one of      *)
(* them.  The callers meant here close a file before they delete it.       *)
(***************************************************************************)
EXTENDS Naturals, Sequences

CONSTANTS Names, Handles, Data, ReadSizes,
          Absent,   \* the contents of a name that does not exist
          Closed    \* a handle that is not in use

VARIABLES files,    \* the contents of each name
          hnd,      \* what each handle refers to
          got       \* what the last read returned

vars == <<files, hnd, got>>

Init == /\ files = [n \in Names |-> Absent]
        /\ hnd = [h \in Handles |-> Closed]
        /\ got = <<>>

Create(n) == /\ files[n] = Absent
             /\ files' = [files EXCEPT ![n] = <<>>]
             /\ UNCHANGED <<hnd, got>>

Delete(n) == /\ files[n] # Absent
             /\ \A h \in Handles : hnd[h] = Closed \/ hnd[h].name # n
             /\ files' = [files EXCEPT ![n] = Absent]
             /\ UNCHANGED <<hnd, got>>

Open(n, h) == /\ files[n] # Absent /\ hnd[h] = Closed
              /\ hnd' = [hnd EXCEPT ![h] = [name |-> n, pos |-> 0]]
              /\ UNCHANGED <<files, got>>

Close(h) == /\ hnd' = [hnd EXCEPT ![h] = Closed]
            /\ UNCHANGED <<files, got>>

\* A read returns the next units of the file, all of them that were asked for
\* and exist.
Read(h, k) ==
    /\ hnd[h] # Closed
    /\ LET text == files[hnd[h].name]
           from == hnd[h].pos
           to == IF from + k < Len(text) THEN from + k ELSE Len(text)
       IN  /\ got' = SubSeq(text, from + 1, to)
           /\ hnd' = [hnd EXCEPT ![h].pos = from + Len(got')]
    /\ UNCHANGED files

\* A write reaches the file in portions: each replaces or appends units from
\* the handle's position on, moves the position past them, and touches nothing
\* else.
WritePortion(h) ==
    /\ hnd[h] # Closed /\ hnd'[h] # Closed
    /\ LET n == hnd[h].name
           from == hnd[h].pos
           to == hnd'[h].pos
       IN  /\ hnd' = [hnd EXCEPT ![h].pos = to] /\ to > from
           /\ \A m \in Names \ {n} : files'[m] = files[m]
           /\ DOMAIN files' = Names
           /\ Len(files'[n]) = IF to > Len(files[n]) THEN to ELSE Len(files[n])
           /\ \A a \in 1 .. Len(files'[n]) :
                 IF a \in (from + 1) .. to THEN files'[n][a] \in Data
                                           ELSE files'[n][a] = files[n][a]
    /\ UNCHANGED got

\* The system stops and starts again: handles are gone, files are not.
Restart == /\ hnd' = [h \in Handles |-> Closed] /\ got' = <<>>
           /\ UNCHANGED files

Next == \/ \E n \in Names : Create(n) \/ Delete(n)
        \/ \E n \in Names, h \in Handles : Open(n, h)
        \/ \E h \in Handles : Close(h) \/ WritePortion(h)
        \/ \E h \in Handles, k \in ReadSizes : Read(h, k)
        \/ Restart

Spec == Init /\ [][Next]_vars
=============================================================================
