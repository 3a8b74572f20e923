---------------------------- MODULE StoreMapping ----------------------------
(***************************************************************************)
(* How the tables, sectors and locals of Fs represent the named byte       *)
(* strings of FileStore.                                                   *)
(***************************************************************************)
EXTENDS Fs

CONSTANTS Absent, Closed    \* as in FileStore

ASSUME StoreAssumption ==
    /\ \A k \in 0 .. MaxFileSize : Absent \notin [1 .. k -> Unit]
    /\ Closed \notin [name : Names, pos : Nat]

\* The inode table that counts: while nothing is mounted, the one on the disk.
Nodes == IF ready THEN inodes ELSE dInodes

\* While fs_write() runs, its progress counts as part of the file and of the
\* handle's position, although the code stores both only at the end.
SizeNow ==
    [i \in InodeIdx |-> IF op.pc \in Writing /\ WNode = i /\ WPos > Nodes[i].size
                        THEN WPos ELSE Nodes[i].size]
PosNow ==
    [h \in HandleIdx |-> IF op.pc \in Writing /\ op.fd = h THEN WPos
                         ELSE handles[h].position]

\* The live files that directory dir names n in inode table tbl.
FilesNamed(dir, tbl, n) ==
    {i \in InodeIdx \ {0} : /\ tbl[i].mode = "FILE"
                            /\ \E s \in Slots : dir[s].name = n /\ dir[s].inode = i}
\* The file of each name, 0 for none.
FileOf(dir, tbl) ==
    [n \in Names |-> IF FilesNamed(dir, tbl, n) = {} THEN 0
                     ELSE CHOOSE i \in FilesNamed(dir, tbl, n) : TRUE]
FileNow == IF dSuper THEN FileOf(dDir, Nodes) ELSE [n \in Names |-> 0]
NameIn(file, i) == CHOOSE n \in Names : file[n] = i

TextNow ==
    [i \in InodeIdx |->
        [a \in 1 .. SizeNow[i] |->
            dData[Nodes[i].direct[(a - 1) \div BlockSize]][(a - 1) % BlockSize]]]

absFiles ==
    [n \in Names |-> IF FileNow[n] = 0 THEN Absent ELSE TextNow[FileNow[n]]]
absHandles ==
    [h \in HandleIdx |->
        IF handles[h].inode < 0 THEN Closed
        ELSE [name |-> NameIn(FileNow, handles[h].inode), pos |-> PosNow[h]]]

Store == INSTANCE FileStore WITH Handles <- HandleIdx, files <- absFiles,
                                 hnd <- absHandles

(* fs.c implements the store of named byte strings: create, delete, open, read,
   write and a restart have the effect FileStore gives them, whatever sectors
   and inodes they go through. *)
ImplementsFileStore == Store!Spec

\* An open handle stands inside a file that has its name already.
HandleInside(h) ==
    handles[h].inode >= 0 =>
        /\ handles[h].inode # 0
        /\ handles[h].position <= inodes[handles[h].inode].size
        /\ op.pc = "c_dir" => handles[h].inode # op.ino

\* A file has a sector wherever it has text.
Covered(i) ==
    /\ SizeNow[i] <= MaxFileSize
    /\ \A a \in 0 .. (SizeNow[i] - 1) : Nodes[i].direct[a \div BlockSize] # 0

\* Behind ImplementsFileStore.
TextInv ==
    /\ op.pc \in Running => ready
    /\ ~ready => \A h \in HandleIdx : handles[h].inode < 0
    /\ op.pc \in Formatting => \A i \in InodeIdx : inodes[i].size = 0
    /\ op.pc = "c_dir" => inodes[op.ino].size = 0
    /\ \A h \in HandleIdx : HandleInside(h)
    /\ dSuper => \A i \in InodeIdx : Covered(i)
=============================================================================
