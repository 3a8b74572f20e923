--------------------------------- MODULE Fs ---------------------------------
(***************************************************************************)
(* The flat filesystem of src/kernel/fs.c on its ATA disk.                 *)
(*                                                                         *)
(* The module keeps both copies of the metadata: the one fs.c holds in     *)
(* memory (bitmap, inodes, handles) and the one on the disk.  An operation *)
(* is the sequence of its sector writes: every action below ends with at   *)
(* most one write, so a power failure can fall between any two of them,    *)
(* and a write can fail (ata_write_sector() returns 0).  What the code     *)
(* computes in memory before a write is part of the action of that write.  *)
(* One caller at a time, as for shell commands, nano and login, which run  *)
(* inside the keyboard interrupt.  (Process A of processtest calls         *)
(* fs_create() with interrupts on: a command in the middle of that call is *)
(* left out.)                                                              *)
(*                                                                         *)
(* Sectors are the data sectors only, numbered from 1 (0 is "no sector",   *)
(* as in fs_inode_t.direct); a sector holds BlockSize units of data.       *)
(***************************************************************************)
EXTENDS Naturals, Integers, Sequences, FiniteSets, Least

CONSTANTS
    Names,          \* file names, all valid
    NumInodes,      \* FS_MAX_FILES; inode 0 is the root directory
    NumSectors,     \* data sectors of the disk
    Blocks,         \* FS_DIRECT_BLOCKS
    BlockSize,      \* units of data in one sector (512 bytes in the code)
    DirPerSector,   \* directory entries in one sector (9 in the code)
    NumHandles,     \* FS_MAX_HANDLES
    Data,           \* values of a unit of data
    Zero,           \* a unit that allocate_sector() zeroed
    Junk,           \* what a sector nobody wrote under this key decrypts to
    NoName,         \* the name field of an unused directory entry
    Buffers,        \* the buffers callers write
    ReadSizes,      \* the sizes callers read
    Faults,         \* which faults this instance admits
    MaxCrashes,     \* bound on the number of power failures
    MaxFailures     \* bound on the number of sector accesses that fail

FaultKinds == {"crash", "poweroff", "write", "read", "mountread", "superread"}

ASSUME FsAssumption ==
    /\ NumInodes \in Nat \ {0} /\ NumSectors \in Nat /\ Blocks \in Nat \ {0}
    /\ BlockSize \in Nat \ {0} /\ DirPerSector \in Nat \ {0}
    /\ NumHandles \in Nat \ {0} /\ MaxCrashes \in Nat /\ MaxFailures \in Nat
    /\ NumSectors > Blocks
    /\ Buffers \subseteq Seq(Data) /\ ReadSizes \subseteq Nat
    /\ NoName \notin Names /\ Zero \notin Data
    /\ \A S \in SUBSET (1 .. NumSectors) : Junk # S
    /\ Faults \subseteq FaultKinds

VARIABLES
    ready,      \* filesystem_ready
    bitmap,     \* in memory: the data sectors marked used
    inodes,     \* in memory: the inode table
    handles,    \* in memory: the open-file table
    dSuper,     \* on disk: sector 0 holds a valid superblock
    dBitmap,    \* on disk: the bitmap sectors
    dInodes,    \* on disk: the inode table
    dDir,       \* on disk: the root directory's entries, by slot
    dData,      \* on disk: the data sectors
    op,         \* the operation under way and its local variables
    got,        \* what the last fs_read() returned
    crashes,    \* power failures so far
    failures,   \* sector accesses that failed so far
    torn        \* a power failure has cut an fs_delete() in two

memory == <<ready, bitmap, inodes, handles>>
disk == <<dSuper, dBitmap, dInodes, dDir, dData>>
vars == <<ready, bitmap, inodes, handles, dSuper, dBitmap, dInodes, dDir,
          dData, op, got, crashes, failures, torn>>

-----------------------------------------------------------------------------
InodeIdx == 0 .. (NumInodes - 1)
BlockIdx == 0 .. (Blocks - 1)
HandleIdx == 0 .. (NumHandles - 1)
Slots == 0 .. (Blocks * DirPerSector - 1)
Sectors == 1 .. NumSectors
Unit == Data \cup {Zero}
Block == [0 .. (BlockSize - 1) -> Unit]
MaxFileSize == Blocks * BlockSize

Inode == [mode : {"FREE", "FILE"}, size : Nat, direct : [BlockIdx -> 0 .. NumSectors]]
Entry == [name : Names \cup {NoName}, inode : InodeIdx]
Handle == [inode : {-1} \cup InodeIdx, position : Nat]

\* Junk is recognised: no structure of fs.c is it.
ASSUME JunkAssumption == Junk \notin Inode /\ Junk \notin Entry /\ Junk \notin Block

ZeroInode == [mode |-> "FREE", size |-> 0, direct |-> [b \in BlockIdx |-> 0]]
FileInode == [ZeroInode EXCEPT !.mode = "FILE"]
ZeroEntry == [name |-> NoName, inode |-> 0]
ZeroBlock == [u \in 0 .. (BlockSize - 1) |-> Zero]
ClosedHandle == [inode |-> -1, position |-> 0]

PCs == {"off", "dead", "idle", "f_alloc", "f_zero", "f_unalloc", "f_inode",
        "f_bitmap", "f_super", "c_dir", "c_undo", "d_inode", "d_dir",
        "w_loop", "w_zero", "w_unalloc", "w_inode", "w_bitmap"}

\* The locals of whichever operation runs: only its own fields matter to it.
OpRec == [pc : PCs, ino : InodeIdx, slot : Slots, name : Names \cup {NoName},
          fd : HandleIdx, buf : Seq(Data), done : Nat,
          sector : 0 .. NumSectors, i : Nat]
NoOp == [pc |-> "idle", ino |-> 0, slot |-> 0, name |-> NoName, fd |-> 0,
         buf |-> <<>>, done |-> 0, sector |-> 0, i |-> 0]
At(p) == [NoOp EXCEPT !.pc = p]

Init ==
    /\ ready = FALSE /\ bitmap = {} /\ got = <<>> /\ crashes = 0 /\ failures = 0
    /\ torn = FALSE
    /\ inodes = [i \in InodeIdx |-> ZeroInode]
    /\ handles = [h \in HandleIdx |-> ClosedHandle]
    /\ dSuper = FALSE /\ dBitmap = Junk
    /\ dInodes = [i \in InodeIdx |-> Junk]
    /\ dDir = [s \in Slots |-> Junk]
    /\ dData = [s \in Sectors |-> Junk]
    /\ op = At("off")

-----------------------------------------------------------------------------
(* Sector writes.  A write that fails may have reached the platter or not; *)
(* a failed save_bitmap() has written its sectors up to some point.        *)

\* One more sector access fails, or none does.
Fails == failures < MaxFailures /\ failures' = failures + 1
Works == failures' = failures
WriteFails == "write" \in Faults /\ Fails
ReadFails == "read" \in Faults /\ Fails
MountReadFails == ("read" \in Faults \/ "mountread" \in Faults) /\ Fails

\* A read of a directory sector that fails hides its entries from the scan.
Unreadable == IF "read" \in Faults THEN SUBSET Slots ELSE {{}}

BitmapUpTo(new, cut) == {s \in new : s <= cut} \cup {s \in dBitmap : s > cut}

\* save_bitmap(): writes the whole bitmap.
SaveBitmapOk(new) == dBitmap' = new /\ Works
SaveBitmapFails(new) ==
    /\ WriteFails
    /\ IF dBitmap = Junk
       THEN dBitmap' \in {Junk, new}
       ELSE \E cut \in 0 .. NumSectors : dBitmap' = BitmapUpTo(new, cut)

\* save_inode(): read-modify-write of the sector with the inode's slot.
InodeSaved_stale(i, node) == dInodes' = [dInodes EXCEPT ![i] = inodes[i]]
InodeSaved(i, node) == dInodes' = [dInodes EXCEPT ![i] = node]
SaveInodeOk(i, node) == InodeSaved(i, node) /\ Works
SaveInodeFails(i, node) ==
    \/ (WriteFails \/ ReadFails) /\ dInodes' = dInodes
    \/ WriteFails /\ InodeSaved(i, node)

\* dir_write_entry(): the same for one directory entry.
EntrySaved(s, e) == dDir' = [dDir EXCEPT ![s] = e]
DirWriteOk(s, e) == EntrySaved(s, e) /\ Works
DirWriteFails(s, e) ==
    \/ (WriteFails \/ ReadFails) /\ dDir' = dDir
    \/ WriteFails /\ EntrySaved(s, e)

\* fs_disk_write_sector() on a data sector.
DataSaved(s, b) == dData' = [dData EXCEPT ![s] = b]
DataWriteOk(s, b) == DataSaved(s, b) /\ Works
DataWriteFails(s, b) ==
    WriteFails /\ (dData' = dData \/ DataSaved(s, b))

\* find_dir_entry(): the inode of the first readable entry of that name, or -1.
find_dir_entry_from1(n, hidden) ==
    LET hits == {s \in Slots \ (hidden \cup {0}) : dDir[s].name = n}
    IN  IF hits = {} THEN -1 ELSE dDir[Lowest(hits)].inode
find_dir_entry(n, hidden) ==
    LET hits == {s \in Slots \ hidden : dDir[s].name = n}
    IN  IF hits = {} THEN -1 ELSE dDir[Lowest(hits)].inode

\* find_free_dir_slot(): the readable unused slots, of which the code takes the first.
FreeSlots(hidden) == {s \in Slots \ hidden : dDir[s].name = NoName}
FreeInodes == {i \in InodeIdx \ {0} : inodes[i].mode = "FREE"}
FreeSectors == Sectors \ bitmap
SectorsOf(node) == {node.direct[b] : b \in BlockIdx} \ {0}

\* allocate_sector(), first half: mark the first free sector, save the bitmap.
AllocBitmap_unsaved(pcOk, pcFail) ==
    /\ FreeSectors # {}
    /\ bitmap' = bitmap \cup {Lowest(FreeSectors)} /\ Works
    /\ op' = [op EXCEPT !.pc = pcOk, !.sector = Lowest(FreeSectors)]
    /\ UNCHANGED <<ready, inodes, handles, disk, got, crashes, torn>>
AllocBitmap(pcOk, pcFail) ==
    /\ FreeSectors # {}
    /\ LET s == Lowest(FreeSectors) IN
       \/ /\ bitmap' = bitmap \cup {s}
          /\ SaveBitmapOk(bitmap \cup {s})
          /\ op' = [op EXCEPT !.pc = pcOk, !.sector = s]
       \/ /\ SaveBitmapFails(bitmap \cup {s})
          /\ op' = [op EXCEPT !.pc = pcFail]
          /\ UNCHANGED bitmap
    /\ UNCHANGED <<ready, inodes, handles, dSuper, dInodes, dDir, dData, got,
                   crashes, torn>>

\* allocate_sector(), the clean-up after the zeroing write failed: the bit is
\* already clear in memory, save_bitmap()'s result is ignored.
AllocUndo(pcNext) ==
    /\ SaveBitmapOk(bitmap) \/ SaveBitmapFails(bitmap)
    /\ op' = [op EXCEPT !.pc = pcNext]
    /\ UNCHANGED <<memory, dSuper, dInodes, dDir, dData, got, crashes, torn>>

-----------------------------------------------------------------------------
(* fs_init() and fs_format().                                              *)

Mount ==
    /\ op.pc = "off" /\ dSuper
    /\ bitmap' = dBitmap /\ inodes' = dInodes
    /\ handles' = [h \in HandleIdx |-> ClosedHandle]
    /\ ready' = TRUE /\ op' = NoOp
    /\ UNCHANGED <<disk, got, crashes, failures, torn>>

\* A bitmap or inode sector cannot be read: fs_init() returns 0.
MountFails ==
    /\ op.pc = "off" /\ dSuper /\ MountReadFails
    /\ op' = At("dead")
    /\ UNCHANGED <<memory, disk, got, crashes, torn>>

\* load_superblock() returned 0: no valid superblock, or sector 0 unreadable.
\* The new key turns everything on the disk but the superblock into junk.
FormatStart_superFirst ==
    /\ op.pc = "off" /\ ~dSuper
    /\ bitmap' = {} /\ dSuper' = TRUE /\ op' = At("f_alloc")
    /\ inodes' = [[i \in InodeIdx |-> ZeroInode] EXCEPT ![0] = FileInode]
    /\ UNCHANGED <<ready, handles, dBitmap, dInodes, dDir, dData, got, crashes,
                   failures, torn>>
FormatStart ==
    /\ op.pc = "off"
    /\ ~dSuper \/ "superread" \in Faults
    /\ bitmap' = {}
    /\ inodes' = [[i \in InodeIdx |-> ZeroInode] EXCEPT ![0] = FileInode]
    /\ dBitmap' = Junk
    /\ dInodes' = [i \in InodeIdx |-> Junk]
    /\ dDir' = [s \in Slots |-> Junk]
    /\ dData' = [s \in Sectors |-> Junk]
    /\ op' = At("f_alloc")
    /\ UNCHANGED <<ready, handles, dSuper, got, crashes, failures, torn>>

FormatAlloc == op.pc = "f_alloc" /\ op.i < Blocks /\ AllocBitmap("f_zero", "dead")

\* The zeroing write of a root-directory block empties its entries.
FormatZero ==
    /\ op.pc = "f_zero"
    /\ LET zeroed == [s \in Slots |-> IF s \div DirPerSector = op.i
                                      THEN ZeroEntry ELSE dDir[s]] IN
       \/ /\ DataWriteOk(op.sector, ZeroBlock)
          /\ dDir' = zeroed
          /\ inodes' = [inodes EXCEPT ![0].direct[op.i] = op.sector]
          /\ op' = [op EXCEPT !.pc = "f_alloc", !.i = op.i + 1]
          /\ UNCHANGED bitmap
       \/ /\ WriteFails
          /\ \/ UNCHANGED <<dData, dDir>>
             \/ DataSaved(op.sector, ZeroBlock) /\ dDir' = zeroed
          /\ bitmap' = bitmap \ {op.sector}
          /\ op' = [op EXCEPT !.pc = "f_unalloc"]
          /\ UNCHANGED inodes
    /\ UNCHANGED <<ready, handles, dSuper, dBitmap, dInodes, got, crashes, torn>>

FormatUnalloc == op.pc = "f_unalloc" /\ AllocUndo("dead")

\* The root inode first, then every other one, in index order.
FormatInode ==
    /\ \/ op.pc = "f_alloc" /\ op.i = Blocks
       \/ op.pc = "f_inode"
    /\ LET i == IF op.pc = "f_alloc" THEN 0 ELSE op.i IN
       \/ /\ SaveInodeOk(i, inodes[i])
          /\ op' = IF i + 1 < NumInodes
                   THEN [op EXCEPT !.pc = "f_inode", !.i = i + 1]
                   ELSE At("f_bitmap")
       \/ SaveInodeFails(i, inodes[i]) /\ op' = At("dead")
    /\ UNCHANGED <<memory, dSuper, dBitmap, dDir, dData, got, crashes, torn>>

FormatBitmap ==
    /\ op.pc = "f_bitmap"
    /\ \/ SaveBitmapOk(bitmap) /\ op' = At("f_super")
       \/ SaveBitmapFails(bitmap) /\ op' = At("dead")
    /\ UNCHANGED <<memory, dSuper, dInodes, dDir, dData, got, crashes, torn>>

\* The superblock goes last; only then is the filesystem ready.
FormatSuper ==
    /\ op.pc = "f_super"
    /\ \/ /\ dSuper' = TRUE /\ Works /\ ready' = TRUE /\ op' = NoOp
          /\ handles' = [h \in HandleIdx |-> ClosedHandle]
       \/ /\ WriteFails /\ dSuper' \in {dSuper, TRUE} /\ op' = At("dead")
          /\ UNCHANGED <<ready, handles>>
    /\ UNCHANGED <<bitmap, inodes, dBitmap, dInodes, dDir, dData, got, crashes, torn>>

\* fs_init() failed: every entry point returns its error, nothing changes.
NotReady == op.pc = "dead" /\ UNCHANGED vars

-----------------------------------------------------------------------------
(* fs_create()                                                             *)

\* Finds no entry of that name, takes the first free slot and the first free
\* inode, and saves the inode.  When that fails the inode stays taken.
CreateStart(n) ==
    /\ op.pc = "idle"
    /\ \E hidden1, hidden2 \in Unreadable :
        /\ find_dir_entry(n, hidden1) < 0
        /\ FreeSlots(hidden2) # {} /\ FreeInodes # {}
        /\ LET i == Lowest(FreeInodes) IN
           /\ inodes' = [inodes EXCEPT ![i] = FileInode]
           /\ \/ /\ SaveInodeOk(i, FileInode)
                 /\ op' = [At("c_dir") EXCEPT !.ino = i, !.name = n,
                                              !.slot = Lowest(FreeSlots(hidden2))]
              \/ SaveInodeFails(i, FileInode) /\ op' = NoOp
    /\ UNCHANGED <<ready, bitmap, handles, dSuper, dBitmap, dDir, dData, got,
                   crashes, torn>>

CreateEntry ==
    /\ op.pc = "c_dir"
    /\ LET e == [name |-> op.name, inode |-> op.ino] IN
       \/ DirWriteOk(op.slot, e) /\ op' = NoOp /\ UNCHANGED inodes
       \/ /\ DirWriteFails(op.slot, e)
          /\ inodes' = [inodes EXCEPT ![op.ino].mode = "FREE"]
          /\ op' = [op EXCEPT !.pc = "c_undo"]
    /\ UNCHANGED <<ready, bitmap, handles, dSuper, dBitmap, dInodes, dData, got,
                   crashes, torn>>

CreateUndo ==
    /\ op.pc = "c_undo"
    /\ \/ SaveInodeOk(op.ino, inodes[op.ino])
       \/ SaveInodeFails(op.ino, inodes[op.ino])
    /\ op' = NoOp
    /\ UNCHANGED <<memory, dSuper, dBitmap, dDir, dData, got, crashes, torn>>

-----------------------------------------------------------------------------
(* fs_delete()                                                             *)

\* Frees the inode's sectors and the inode in memory, then saves the bitmap.
DeleteStart_keepsBits(n) ==
    /\ op.pc = "idle" /\ find_dir_entry(n, {}) > 0
    /\ inodes' = [inodes EXCEPT ![find_dir_entry(n, {})] = ZeroInode]
    /\ SaveBitmapOk(bitmap)
    /\ op' = [At("d_inode") EXCEPT !.ino = find_dir_entry(n, {})]
    /\ UNCHANGED <<ready, bitmap, handles, dSuper, dInodes, dDir, dData, got,
                   crashes, torn>>
DeleteStart(n) ==
    /\ op.pc = "idle"
    /\ \E hidden \in Unreadable :
        LET i == find_dir_entry(n, hidden) IN
        /\ i > 0
        /\ bitmap' = bitmap \ SectorsOf(inodes[i])
        /\ inodes' = [inodes EXCEPT ![i] = ZeroInode]
        /\ \/ /\ SaveBitmapOk(bitmap \ SectorsOf(inodes[i]))
              /\ op' = [At("d_inode") EXCEPT !.ino = i]
           \/ SaveBitmapFails(bitmap \ SectorsOf(inodes[i])) /\ op' = NoOp
    /\ UNCHANGED <<ready, handles, dSuper, dInodes, dDir, dData, got, crashes, torn>>

DeleteInode ==
    /\ op.pc = "d_inode"
    /\ \/ SaveInodeOk(op.ino, inodes[op.ino]) /\ op' = [op EXCEPT !.pc = "d_dir"]
       \/ SaveInodeFails(op.ino, inodes[op.ino]) /\ op' = NoOp
    /\ UNCHANGED <<memory, dSuper, dBitmap, dDir, dData, got, crashes, torn>>

\* Clears the first readable entry of that inode; the write's result is ignored.
DeleteEntry ==
    /\ op.pc = "d_dir" /\ op' = NoOp
    /\ \E hidden \in Unreadable :
        LET hits == {s \in Slots \ hidden :
                        dDir[s].name # NoName /\ dDir[s].inode = op.ino}
        IN  IF hits = {}
            THEN dDir' = dDir /\ Works
            ELSE \/ DirWriteOk(Lowest(hits), ZeroEntry)
                 \/ DirWriteFails(Lowest(hits), ZeroEntry)
    /\ UNCHANGED <<memory, dSuper, dBitmap, dInodes, dData, got, crashes, torn>>

-----------------------------------------------------------------------------
(* fs_open(), fs_close(), fs_read()                                        *)

\* fs_open() looks at the directory only, not at the inode it leads to.
Open(n) ==
    /\ op.pc = "idle"
    /\ \E hidden \in Unreadable :
        LET i == find_dir_entry(n, hidden)
            closed == {h \in HandleIdx : handles[h].inode < 0}
        IN  /\ i >= 0 /\ closed # {}
            /\ handles' = [handles EXCEPT ![Lowest(closed)] =
                              [inode |-> i, position |-> 0]]
    /\ UNCHANGED <<ready, bitmap, inodes, disk, op, got, crashes, failures,
                   torn>>

Close(fd) ==
    /\ op.pc = "idle"
    /\ handles' = [handles EXCEPT ![fd] = ClosedHandle]
    /\ UNCHANGED <<ready, bitmap, inodes, disk, op, got, crashes, failures,
                   torn>>

\* The unit at position a of a file, through the in-memory inode.
UnitAt(node, a) == dData[node.direct[a \div BlockSize]][a % BlockSize]

\* Reads up to the file's size, stopping early at a hole or, between two
\* sectors, at a sector that cannot be read.
Read(fd, size) ==
    /\ op.pc = "idle" /\ handles[fd].inode >= 0
    /\ LET node == inodes[handles[fd].inode]
           pos == handles[fd].position
           end == IF pos + size < node.size THEN pos + size ELSE node.size
           hole(a) == node.direct[a \div BlockSize] = 0
       IN  \/ /\ pos >= node.size
              /\ got' = <<>> /\ Works /\ UNCHANGED handles
           \/ /\ pos < node.size
              /\ \E stop \in pos .. end :
                  /\ \A a \in pos .. (stop - 1) : ~hole(a)
                  /\ stop \in {pos, end} \/ stop % BlockSize = 0
                  /\ \/ (stop < end => hole(stop)) /\ Works
                     \/ stop < end /\ ReadFails
                  /\ got' = [k \in 1 .. (stop - pos) |-> UnitAt(node, pos + k - 1)]
                  /\ handles' = [handles EXCEPT ![fd].position = stop]
    /\ UNCHANGED <<ready, bitmap, inodes, disk, op, crashes, torn>>

-----------------------------------------------------------------------------
(* fs_write()                                                              *)

WriteStart(fd, buf) ==
    /\ op.pc = "idle" /\ handles[fd].inode >= 0
    /\ handles[fd].position < MaxFileSize
    /\ LET room == MaxFileSize - handles[fd].position IN
       op' = [At("w_loop") EXCEPT !.fd = fd,
                 !.buf = IF Len(buf) > room THEN SubSeq(buf, 1, room) ELSE buf]
    /\ UNCHANGED <<memory, disk, got, crashes, failures, torn>>

WNode == handles[op.fd].inode
WPos == handles[op.fd].position + op.done
WBlock == WPos \div BlockSize
WSector == inodes[WNode].direct[WBlock]
WMore == op.pc = "w_loop" /\ op.done < Len(op.buf)

WriteAlloc == WMore /\ WSector = 0 /\ AllocBitmap("w_zero", "w_inode")

WriteZero_keepsPointer ==
    /\ op.pc = "w_zero"
    /\ inodes' = [inodes EXCEPT ![WNode].direct[WBlock] = op.sector]
    /\ \/ /\ DataWriteOk(op.sector, ZeroBlock)
          /\ op' = [op EXCEPT !.pc = "w_loop"]
          /\ UNCHANGED bitmap
       \/ /\ DataWriteFails(op.sector, ZeroBlock)
          /\ bitmap' = bitmap \ {op.sector}
          /\ op' = [op EXCEPT !.pc = "w_unalloc"]
    /\ UNCHANGED <<ready, handles, dSuper, dBitmap, dInodes, dDir, got, crashes, torn>>
WriteZero ==
    /\ op.pc = "w_zero"
    /\ \/ /\ DataWriteOk(op.sector, ZeroBlock)
          /\ inodes' = [inodes EXCEPT ![WNode].direct[WBlock] = op.sector]
          /\ op' = [op EXCEPT !.pc = "w_loop"]
          /\ UNCHANGED bitmap
       \/ /\ DataWriteFails(op.sector, ZeroBlock)
          /\ bitmap' = bitmap \ {op.sector}
          /\ op' = [op EXCEPT !.pc = "w_unalloc"]
          /\ UNCHANGED inodes
    /\ UNCHANGED <<ready, handles, dSuper, dBitmap, dInodes, dDir, got, crashes, torn>>

WriteUnalloc == op.pc = "w_unalloc" /\ AllocUndo("w_inode")

\* How much of the buffer goes into this sector, and the sector with it.
WOffset == WPos % BlockSize
WChunk_wraps ==
    LET left == Len(op.buf) - op.done
        room == (BlockSize - WOffset) % BlockSize
    IN  IF room < left THEN room ELSE left
WChunk ==
    LET left == Len(op.buf) - op.done
        room == BlockSize - WOffset
    IN  IF room < left THEN room ELSE left
WPatched_unread ==
    [u \in 0 .. (BlockSize - 1) |->
        IF u \in WOffset .. (WOffset + WChunk - 1)
        THEN op.buf[op.done + (u - WOffset) + 1] ELSE Zero]
WPatched ==
    [u \in 0 .. (BlockSize - 1) |->
        IF u \in WOffset .. (WOffset + WChunk - 1)
        THEN op.buf[op.done + (u - WOffset) + 1] ELSE dData[WSector][u]]

\* Read-modify-write of one data sector.
WriteBlock ==
    /\ WMore /\ WSector # 0
    /\ \/ /\ DataWriteOk(WSector, WPatched)
          /\ op' = [op EXCEPT !.done = op.done + WChunk]
       \/ /\ (ReadFails /\ dData' = dData) \/ DataWriteFails(WSector, WPatched)
          /\ op' = [op EXCEPT !.pc = "w_inode"]
    /\ UNCHANGED <<memory, dSuper, dBitmap, dInodes, dDir, got, crashes, torn>>

\* After the loop: position and size, then save_inode(), its result ignored.
WriteInode ==
    /\ \/ op.pc = "w_inode"
       \/ op.pc = "w_loop" /\ op.done = Len(op.buf)
       \/ WMore /\ WSector = 0 /\ FreeSectors = {}
    /\ LET node == IF WPos > inodes[WNode].size
                   THEN [inodes[WNode] EXCEPT !.size = WPos] ELSE inodes[WNode]
       IN  /\ inodes' = [inodes EXCEPT ![WNode] = node]
           /\ SaveInodeOk(WNode, node) \/ SaveInodeFails(WNode, node)
    /\ handles' = [handles EXCEPT ![op.fd].position = WPos]
    /\ op' = At("w_bitmap")
    /\ UNCHANGED <<ready, bitmap, dSuper, dBitmap, dDir, dData, got, crashes, torn>>

WriteBitmap ==
    /\ op.pc = "w_bitmap" /\ op' = NoOp
    /\ SaveBitmapOk(bitmap) \/ SaveBitmapFails(bitmap)
    /\ UNCHANGED <<memory, dSuper, dInodes, dDir, dData, got, crashes, torn>>

-----------------------------------------------------------------------------
\* Power goes: memory is lost, the disk keeps what was written.  There is no
\* shutdown command that saves anything, so "poweroff" is a failure at rest.
PowerFailure ==
    /\ crashes < MaxCrashes /\ op.pc # "off"
    /\ \/ "crash" \in Faults
       \/ "poweroff" \in Faults /\ op.pc = "idle"
    /\ crashes' = crashes + 1
    /\ torn' = (torn \/ op.pc \in {"d_inode", "d_dir"})
    /\ ready' = FALSE /\ bitmap' = {} /\ got' = <<>>
    /\ inodes' = [i \in InodeIdx |-> ZeroInode]
    /\ handles' = [h \in HandleIdx |-> ClosedHandle]
    /\ op' = At("off")
    /\ UNCHANGED <<disk, failures>>

fs_format == FormatStart \/ FormatAlloc \/ FormatZero \/ FormatUnalloc
             \/ FormatInode \/ FormatBitmap \/ FormatSuper
fs_init == Mount \/ MountFails \/ NotReady
fs_create == (\E n \in Names : CreateStart(n)) \/ CreateEntry \/ CreateUndo
fs_delete == (\E n \in Names : DeleteStart(n)) \/ DeleteInode \/ DeleteEntry
fs_open == \E n \in Names : Open(n)
fs_close == \E fd \in HandleIdx : Close(fd)
fs_read == \E fd \in HandleIdx, size \in ReadSizes : Read(fd, size)
fs_write == \/ \E fd \in HandleIdx, buf \in Buffers : WriteStart(fd, buf)
            \/ WriteAlloc \/ WriteZero \/ WriteUnalloc \/ WriteBlock
            \/ WriteInode \/ WriteBitmap

Next == fs_format \/ fs_init \/ fs_create \/ fs_delete \/ fs_open \/ fs_close
        \/ fs_read \/ fs_write \/ PowerFailure

Spec == Init /\ [][Next]_vars

\* No handle is left open on a deleted file.
NoStale == \A h \in HandleIdx :
              handles[h].inode >= 0 => inodes[handles[h].inode].mode = "FILE"

\* Callers that close a file before they delete it, as the shell commands,
\* nano, auth.c and identity.c do.
DisciplinedSpec == Init /\ [][Next /\ NoStale']_vars

\* An operation that has started runs to its end: nothing in fs.c waits.
FairSpec == Spec /\ WF_vars(Next /\ op.pc \notin {"idle", "dead"} /\ crashes' = crashes)

-----------------------------------------------------------------------------
(* Properties                                                              *)

MetaTypeOK ==
    /\ ready \in BOOLEAN /\ bitmap \in SUBSET Sectors
    /\ inodes \in [InodeIdx -> Inode] /\ handles \in [HandleIdx -> Handle]
    /\ dSuper \in BOOLEAN /\ dBitmap \in (SUBSET Sectors) \cup {Junk}
    /\ dInodes \in [InodeIdx -> Inode \cup {Junk}]
    /\ dDir \in [Slots -> Entry \cup {Junk}]
    /\ op \in OpRec
    /\ crashes \in Nat /\ failures \in Nat /\ torn \in BOOLEAN

NoSharedSector(tbl) ==
    \A i, j \in InodeIdx : \A b, c \in BlockIdx :
        tbl[i].direct[b] # 0 /\ tbl[i].direct[b] = tbl[j].direct[c]
            => i = j /\ b = c
RefsUsed(tbl, bm) == \A i \in InodeIdx : SectorsOf(tbl[i]) \subseteq bm

(* Sector ownership (allocate_sector(), free_sector()): no sector belongs to
   two files or to two blocks of one file, and none that belongs to a file is
   free in the bitmap, so the allocator cannot hand it out again.  Through
   failing I/O, stale handles and, unless it cut an fs_delete() in two, any
   power failure. *)
SectorsOwned == ~torn => NoSharedSector(inodes) /\ RefsUsed(inodes, bitmap)

(* What fs_init() would load: a disk with a valid superblock holds no junk in
   its metadata, and the zeroing order of fs_format() and allocate_sector()
   means that no inode on it leads to a sector nobody wrote. *)
MountableDisk ==
    dSuper => /\ dBitmap # Junk
              /\ \A i \in InodeIdx : dInodes[i] # Junk
              /\ \A s \in Slots : dDir[s] # Junk
              /\ \A i \in InodeIdx : \A s \in SectorsOf(dInodes[i]) : dData[s] # Junk

\* fs_delete() has freed this inode and not yet cleared its entry.
BeingDeleted(i) == op.pc \in {"d_inode", "d_dir"} /\ op.ino = i
UsedSlots == {s \in Slots : dDir[s].name # NoName}
LeadsToFiles(tbl) ==
    \A s \in UsedSlots :
        /\ dDir[s].inode # 0
        /\ tbl[dDir[s].inode].mode = "FILE" \/ BeingDeleted(dDir[s].inode)
EntriesDiffer ==
    \A s, t \in UsedSlots :
        dDir[s].name = dDir[t].name \/ dDir[s].inode = dDir[t].inode => s = t

(* The directory (fs_create(), fs_delete()): two entries never have the same
   name or lead to the same inode, and an entry leads to a live file.  Holds
   through power failures that do not cut an fs_delete() in two. *)
DirectorySound == ready /\ ~torn => LeadsToFiles(inodes) /\ EntriesDiffer

(* Between operations the metadata on disk is the metadata in memory: what the
   code does not save explicitly at shutdown is already saved. *)
DurableAtRest == op.pc = "idle" => dBitmap = bitmap /\ dInodes = inodes

(* Without faults, and with callers that close before they delete, nothing
   leaks: every used sector belongs to a file and every live inode to a name. *)
UsedBy(tbl) == UNION {SectorsOf(tbl[i]) : i \in InodeIdx}
Named(i) == \E s \in UsedSlots : dDir[s].inode = i
NoLeak ==
    op.pc = "idle" =>
        /\ bitmap = UsedBy(inodes)
        /\ \A i \in InodeIdx \ {0} : inodes[i].mode = "FILE" => Named(i)

Content(i) == [a \in 0 .. (inodes[i].size - 1) |->
                  IF inodes[i].direct[a \div BlockSize] = 0 THEN Zero
                  ELSE UnitAt(inodes[i], a)]

\* This step leaves file i as it was, unless it writes or deletes that very file.
Untouched(i) ==
    ready /\ ready' /\ inodes[i].mode = "FILE" /\ Content(i)' # Content(i)
        => \/ op.pc \in {"w_loop", "w_inode"} /\ i = WNode
           \/ inodes'[i].mode = "FREE"

(* No step of an operation, whether its I/O fails or not, changes what a file
   holds unless the operation writes that very file or deletes it: the bytes of
   the others stay where they are. *)
OtherFilesUntouched == [][\A i \in InodeIdx \ {0} : Untouched(i)]_vars

(* fs_init(): "Blank disk -> create filesystem" (fs.c); a disk that holds a
   valid filesystem is mounted and never formatted. *)
FormatsOnlyBlankDisk == [][op.pc = "off" /\ op'.pc = "f_alloc" => ~dSuper]_vars

(* Every operation, and every start of the system, runs to its end. *)
OperationsEnd == op.pc \notin {"idle", "dead"} ~> op.pc \in {"idle", "dead"}

-----------------------------------------------------------------------------
(* The inductive invariant behind SectorsOwned, DurableAtRest and            *)
(* MountableDisk: where every operation stands between its sector writes.    *)

Formatting == {"f_alloc", "f_zero", "f_unalloc", "f_inode", "f_bitmap", "f_super"}
Running == PCs \ (Formatting \cup {"off", "dead"})
Writing == {"w_loop", "w_zero", "w_unalloc", "w_inode"}

DirClean == \A s \in Slots : dDir[s] \in Entry
TableClean == \A i \in InodeIdx : dInodes[i] \in Inode
BitmapClean == dBitmap \in SUBSET Sectors

\* How far fs_format() has come, and that the superblock is written last.
FormatOrder ==
    /\ dSuper => DirClean /\ TableClean /\ BitmapClean
    /\ op.pc \in Formatting => ~dSuper
    /\ op.pc \in Running => dSuper
    /\ op.pc \in {"f_alloc", "f_zero"} =>
           \A s \in Slots : s \div DirPerSector < op.i => dDir[s] \in Entry
    /\ op.pc \in {"f_inode", "f_bitmap", "f_super"} => DirClean
    /\ op.pc = "f_inode" =>
           op.i < NumInodes /\ \A i \in InodeIdx : i < op.i => dInodes[i] \in Inode
    /\ op.pc \in {"f_bitmap", "f_super"} => TableClean
    /\ op.pc = "f_super" => BitmapClean

\* fs_write()'s locals.
WriteLocals ==
    /\ op.done <= Len(op.buf)
    /\ op.pc \in Writing => handles[op.fd].inode \in InodeIdx

MetaInv == MetaTypeOK /\ FormatOrder /\ WriteLocals

\* The sector allocate_sector() has marked and not yet returned is nobody's.
FreshSector ==
    op.pc \in {"f_zero", "w_zero"} =>
        op.sector \in bitmap /\ \A i \in InodeIdx : op.sector \notin SectorsOf(inodes[i])

\* Without failing I/O the disk lags behind memory by the operation under way.
DiskFollows ==
    /\ op.pc \notin {"c_undo", "w_unalloc", "w_inode", "f_unalloc", "dead"}
    /\ op.pc \in Running \cup {"f_super"} => dBitmap = bitmap
    /\ op.pc \in {"idle", "c_dir", "d_dir", "w_bitmap", "f_bitmap", "f_super"} =>
           dInodes = inodes
    /\ op.pc = "f_inode" => \A i \in InodeIdx : i < op.i => dInodes[i] = inodes[i]
    /\ op.pc = "d_inode" => \A i \in InodeIdx \ {op.ino} : dInodes[i] = inodes[i]
    /\ op.pc \in {"w_loop", "w_zero"} =>
           \A i \in InodeIdx :
               IF i = WNode
               THEN \A b \in BlockIdx :
                       dInodes[i].direct[b] \in {0, inodes[i].direct[b]}
               ELSE dInodes[i] = inodes[i]
    /\ op.pc = "w_zero" => WSector = 0

OwnershipInv ==
    /\ ~torn => NoSharedSector(inodes) /\ RefsUsed(inodes, bitmap) /\ FreshSector
    /\ MaxFailures = 0 => DiskFollows
    /\ MaxFailures = 0 /\ ~torn /\ op.pc = "off" /\ dSuper =>
           NoSharedSector(dInodes) /\ RefsUsed(dInodes, dBitmap)
    /\ MaxCrashes = 0 /\ op.pc = "off" => ~dSuper

\* The step of fs_create() between its two writes, about to name a file.
Naming ==
    op.pc = "c_dir" =>
        /\ op.ino # 0 /\ op.name # NoName /\ op.slot \notin UsedSlots
        /\ inodes[op.ino].mode = "FILE"
        /\ \A s \in UsedSlots : dDir[s].name # op.name /\ dDir[s].inode # op.ino

\* Behind DirectorySound, for disks that fail no access.
DirectoryInv ==
    /\ ready => op.pc \in Running
    /\ op.pc \in {"f_alloc", "f_zero"} =>
           \A s \in Slots : s \div DirPerSector < op.i => dDir[s] = ZeroEntry
    /\ op.pc \in {"f_inode", "f_bitmap", "f_super"} => \A s \in Slots : dDir[s] = ZeroEntry
    /\ op.pc \in {"w_loop", "w_zero"} => \A i \in InodeIdx : dInodes[i].mode = inodes[i].mode
    /\ ~torn /\ op.pc \in Running => LeadsToFiles(inodes) /\ EntriesDiffer /\ Naming
    /\ ~torn /\ op.pc = "off" /\ dSuper => LeadsToFiles(dInodes) /\ EntriesDiffer

\* Behind MountableDisk: a sector is written before an inode leads to it, and
\* what fs_write() was given fits behind the handle's position.
DataInv ==
    /\ op.pc \in Writing => handles[op.fd].position + Len(op.buf) <= MaxFileSize
    /\ dData \in [Sectors -> Block \cup {Junk}]
    /\ \A i \in InodeIdx : \A s \in SectorsOf(inodes[i]) : dData[s] \in Block
    /\ \A i \in InodeIdx :
           dInodes[i] # Junk => \A s \in SectorsOf(dInodes[i]) : dData[s] \in Block

\* Behind OtherFilesUntouched: files end within their blocks, and a block gets a
\* sector only when it has none.
ExtentInv ==
    /\ ~torn /\ (ready => op.pc \in Running)
    /\ \A i \in InodeIdx : inodes[i].size <= MaxFileSize
    /\ op.pc = "w_zero" => WSector = 0

\* The sector allocate_sector() is zeroing.
Pending == IF op.pc \in {"f_zero", "w_zero"} THEN {op.sector} ELSE {}

\* Behind NoLeak: a free inode keeps no sector, a pointer is set only where there
\* was none, and only the file fs_create() is about to name has no name.
LeakInv ==
    /\ ~torn /\ NoStale
    /\ bitmap = UsedBy(inodes) \cup Pending
    /\ \A i \in InodeIdx : inodes[i].mode = "FREE" => SectorsOf(inodes[i]) = {}
    /\ op.pc \in Formatting =>
           inodes[0].mode = "FILE" /\ \A i \in InodeIdx \ {0} : inodes[i].mode = "FREE"
    /\ op.pc \in {"f_alloc", "f_zero"} =>
           \A b \in BlockIdx : b >= op.i => inodes[0].direct[b] = 0
    /\ op.pc = "f_zero" => op.i < Blocks
    /\ op.pc = "w_zero" => op.done < Len(op.buf)
    /\ op.pc \in {"d_inode", "d_dir"} => inodes[op.ino].mode = "FREE"
    /\ op.pc \in Running =>
           \A i \in InodeIdx \ {0} :
               inodes[i].mode = "FILE" => Named(i) \/ (op.pc = "c_dir" /\ op.ino = i)
    /\ op.pc = "off" /\ dSuper =>
           /\ dBitmap = UsedBy(dInodes)
           /\ \A i \in InodeIdx : dInodes[i].mode = "FREE" => SectorsOf(dInodes[i]) = {}
           /\ \A i \in InodeIdx \ {0} : dInodes[i].mode = "FILE" => Named(i)
=============================================================================
