------------------------------ MODULE FsProofs ------------------------------
(***************************************************************************)
(* Proofs about Fs, for every geometry of the disk and every set of names, *)
(* buffers and files.                                                      *)
(*   MetadataSound: the metadata keeps its type and fs_format()'s order.   *)
(*   SectorsAreOwned: SectorsOwned, through MetaInv /\ OwnershipInv.       *)
(*   MetadataDurable: DurableAtRest, through the same invariant.           *)
(*   DiskMountable: MountableDisk, through DataInv.                        *)
(*   DirectoryIsSound: DirectorySound, through DirectoryInv.               *)
(*   NothingLeaks: NoLeak for callers that close before they delete,       *)
(*     through LeakInv and all of the above.                               *)
(*   FilesKeepTheirBytes: OtherFilesUntouched, through ExtentInv.          *)
(*   FsImplementsStore: Fs refines FileStore, through the invariants of    *)
(*     NothingLeaks and TextInv.                                           *)
(* Each invariant is shown to hold initially and to survive every action,  *)
(* in one lemma per group of actions (booting, files, writing).            *)
(***************************************************************************)
EXTENDS StoreMapping, BasicProofs, SequenceTheorems, TLAPS

\* A directory slot lies in one of the root directory's blocks.
LEMMA SlotBlock ==
    \A s \in Slots : s \div DirPerSector \in BlockIdx
<1> SUFFICES ASSUME NEW s \in Nat, NEW B \in Nat, NEW D \in Nat \ {0}, s < B * D
             PROVE s \div D < B /\ s \div D \in Nat
  BY FsAssumption DEF Slots, BlockIdx
<1>1. s \div D >= 0 /\ s \div D \in Int
  OBVIOUS
<1>2. s \div D < B
  OBVIOUS
<1> QED
  BY <1>1, <1>2

\* Directory slots are numbered from 0.
LEMMA SlotsAreNat == Slots \subseteq Nat /\ 0 \in Slots
<1>1. Blocks * DirPerSector \in Nat /\ Blocks * DirPerSector >= 1
  BY FsAssumption
<1> QED
  BY <1>1 DEF Slots

\* The state between two operations is well typed.
LEMMA NoOpType == NoOp \in OpRec /\ NoOp.pc = "idle" /\ NoOp.done = 0 /\ NoOp.buf = <<>>
  BY FsAssumption, SlotsAreNat DEF NoOp, OpRec, InodeIdx, HandleIdx, PCs

\* The state an operation starts in is well typed and is where it says.
LEMMA AtType ==
    ASSUME NEW p \in PCs
    PROVE  /\ At(p) \in OpRec /\ At(p).pc = p
           /\ At(p).done = 0 /\ At(p).buf = <<>> /\ At(p).i = 0
<1>1. At(p) \in OpRec
  BY NoOpType DEF At, OpRec
<1>2. At(p).pc = p /\ At(p).done = 0 /\ At(p).buf = <<>> /\ At(p).i = 0
  BY DEF At, NoOp
<1> QED
  BY <1>1, <1>2

\* A cleared inode and a new file's inode have no sectors.
LEMMA ZeroInodeType == ZeroInode \in Inode /\ FileInode \in Inode
                       /\ SectorsOf(ZeroInode) = {} /\ SectorsOf(FileInode) = {}
  BY FsAssumption DEF ZeroInode, FileInode, Inode, SectorsOf, BlockIdx

\* An inode of the right type leads to data sectors only.
LEMMA SectorsOfType ==
    ASSUME NEW node \in Inode
    PROVE  SectorsOf(node) \subseteq Sectors
  BY FsAssumption DEF Inode, SectorsOf, Sectors

\* find_dir_entry() returns an inode index or -1.
LEMMA FindType ==
    ASSUME DirClean, NEW n, NEW hidden
    PROVE  find_dir_entry(n, hidden) \in InodeIdx \cup {-1}
<1> DEFINE hits == {s \in Slots \ hidden : dDir[s].name = n}
<1>1. CASE hits = {}
  BY <1>1 DEF find_dir_entry
<1>2. CASE hits # {}
  <2>1. Lowest(hits) \in hits
    BY <1>2, LowestOfSet, SlotsAreNat
  <2>2. dDir[Lowest(hits)] \in Entry
    BY <2>1 DEF DirClean
  <2> QED
    BY <1>2, <2>2 DEF find_dir_entry, Entry
<1> QED
  BY <1>1, <1>2

\* find_free_dir_slot() returns a slot.
LEMMA FreeSlotType ==
    ASSUME NEW hidden, FreeSlots(hidden) # {}
    PROVE  Lowest(FreeSlots(hidden)) \in Slots
  BY LowestOfSet, SlotsAreNat DEF FreeSlots

\* The inode that fs_create() takes is a free one.
LEMMA FreeInodeType ==
    ASSUME FreeInodes # {}
    PROVE  Lowest(FreeInodes) \in FreeInodes
<1>1. FreeInodes \in SUBSET Nat
  BY FsAssumption DEF FreeInodes, InodeIdx
<1> QED
  BY <1>1, LowestOfSet

\* The sector that allocate_sector() takes is a free one.
LEMMA FreeSectorType ==
    ASSUME FreeSectors # {}
    PROVE  Lowest(FreeSectors) \in Sectors \ bitmap
<1>1. FreeSectors \in SUBSET Nat
  BY FsAssumption DEF FreeSectors, Sectors
<1> QED
  BY <1>1, LowestOfSet DEF FreeSectors

-----------------------------------------------------------------------------
\* A machine that has never been started satisfies the metadata invariant.
LEMMA MetaInit == Init => MetaInv
<1> SUFFICES ASSUME Init PROVE MetaInv
  OBVIOUS
<1>1. op \in OpRec /\ op.pc = "off" /\ op.done = 0 /\ op.buf = <<>>
  BY AtType DEF Init, PCs
<1>2. MetaTypeOK
  <2>1. ready \in BOOLEAN /\ bitmap \in SUBSET Sectors /\ dSuper \in BOOLEAN
        /\ dBitmap \in (SUBSET Sectors) \cup {Junk} /\ torn \in BOOLEAN
        /\ crashes \in Nat /\ failures \in Nat
    BY DEF Init
  <2>2. inodes \in [InodeIdx -> Inode] /\ dInodes \in [InodeIdx -> Inode \cup {Junk}]
    BY ZeroInodeType DEF Init
  <2>3. handles \in [HandleIdx -> Handle]
    BY DEF Init, ClosedHandle, Handle
  <2>4. dDir \in [Slots -> Entry \cup {Junk}]
    BY DEF Init
  <2> QED
    BY <1>1, <2>1, <2>2, <2>3, <2>4 DEF MetaTypeOK
<1>3. FormatOrder
  BY <1>1 DEF Init, FormatOrder, Formatting, Running
<1>4. WriteLocals
  BY <1>1 DEF WriteLocals, Writing
<1> QED
  BY <1>2, <1>3, <1>4 DEF MetaInv

\* The result of a save_bitmap() that failed is still a bitmap.
LEMMA BitmapFailType ==
    ASSUME NEW new \in SUBSET Sectors, MetaTypeOK, SaveBitmapFails(new)
    PROVE  /\ dBitmap' \in (SUBSET Sectors) \cup {Junk}
           /\ BitmapClean => BitmapClean'
           /\ failures' \in Nat
<1>1. failures' \in Nat
  BY DEF SaveBitmapFails, WriteFails, Fails, MetaTypeOK
<1>2. CASE dBitmap = Junk
  <2>1. dBitmap' \in {Junk, new}
    BY <1>2 DEF SaveBitmapFails
  <2>2. Junk \notin SUBSET Sectors
    BY FsAssumption DEF Sectors
  <2> QED
    BY <1>1, <1>2, <2>1, <2>2 DEF BitmapClean
<1>3. CASE dBitmap # Junk
  <2>1. PICK cut \in 0 .. NumSectors : dBitmap' = BitmapUpTo(new, cut)
    BY <1>3 DEF SaveBitmapFails
  <2>2. dBitmap' \in SUBSET Sectors
    <3>1. dBitmap \subseteq Sectors /\ new \subseteq Sectors
      BY <1>3 DEF MetaTypeOK
    <3>2. BitmapUpTo(new, cut) \subseteq Sectors
      BY <3>1 DEF BitmapUpTo
    <3> QED
      BY <2>1, <3>2
  <2> QED
    BY <1>1, <2>2 DEF BitmapClean
<1> QED
  BY <1>2, <1>3

\* allocate_sector()'s first half, wherever it is called from.
LEMMA AllocMeta ==
    ASSUME MetaTypeOK, NEW p \in PCs, NEW q \in PCs, AllocBitmap(p, q)
    PROVE  /\ MetaTypeOK'
           /\ op'.pc \in {p, q} /\ op'.done = op.done /\ op'.buf = op.buf
           /\ op'.i = op.i /\ op'.fd = op.fd
           /\ BitmapClean => BitmapClean'
<1> DEFINE s == Lowest(FreeSectors)
<1>1. s \in Sectors \ bitmap
  BY FreeSectorType DEF AllocBitmap
<1>2. s \in 0 .. NumSectors /\ bitmap \cup {s} \in SUBSET Sectors
  <2>1. bitmap \subseteq Sectors
    BY DEF MetaTypeOK
  <2>2. s \in 0 .. NumSectors
    BY <1>1 DEF Sectors
  <2> QED
    BY <1>1, <2>1, <2>2
<1>3. op' \in OpRec /\ op'.pc \in {p, q} /\ op'.done = op.done /\ op'.buf = op.buf
      /\ op'.i = op.i /\ op'.fd = op.fd
  BY <1>2 DEF AllocBitmap, MetaTypeOK, OpRec
<1>4. CASE dBitmap' = bitmap \cup {s} /\ Works /\ bitmap' = bitmap \cup {s}
  BY <1>2, <1>3, <1>4 DEF AllocBitmap, MetaTypeOK, Works, BitmapClean
<1>5. CASE SaveBitmapFails(bitmap \cup {s}) /\ bitmap' = bitmap
  <2>1. dBitmap' \in (SUBSET Sectors) \cup {Junk} /\ failures' \in Nat
        /\ (BitmapClean => BitmapClean')
    BY <1>2, <1>5, BitmapFailType
  <2> QED
    BY <1>3, <1>5, <2>1 DEF AllocBitmap, MetaTypeOK
<1> QED
  BY <1>4, <1>5 DEF AllocBitmap, SaveBitmapOk

\* allocate_sector()'s clean-up.
LEMMA UndoMeta ==
    ASSUME MetaTypeOK, NEW p \in PCs, AllocUndo(p)
    PROVE  /\ MetaTypeOK'
           /\ op'.pc = p /\ op'.done = op.done /\ op'.buf = op.buf /\ op'.fd = op.fd
           /\ BitmapClean => BitmapClean'
<1>1. op' \in OpRec /\ op'.pc = p /\ op'.done = op.done /\ op'.buf = op.buf
      /\ op'.fd = op.fd
  BY DEF AllocUndo, MetaTypeOK, OpRec
<1>2. dBitmap' \in (SUBSET Sectors) \cup {Junk} /\ failures' \in Nat
      /\ (BitmapClean => BitmapClean')
  <2>1. bitmap \in SUBSET Sectors
    BY DEF MetaTypeOK
  <2>2. CASE SaveBitmapOk(bitmap)
    BY <2>1, <2>2 DEF SaveBitmapOk, Works, MetaTypeOK, BitmapClean
  <2>3. CASE SaveBitmapFails(bitmap)
    BY <2>1, <2>3, BitmapFailType
  <2> QED
    BY <2>2, <2>3 DEF AllocUndo
<1> QED
  BY <1>1, <1>2 DEF AllocUndo, MetaTypeOK, memory

\* save_inode() of a well-formed inode, successful or not.
LEMMA InodeSaveType ==
    ASSUME MetaTypeOK, NEW i \in InodeIdx, NEW node \in Inode,
           SaveInodeOk(i, node) \/ SaveInodeFails(i, node)
    PROVE  /\ dInodes' \in [InodeIdx -> Inode \cup {Junk}] /\ failures' \in Nat
           /\ \A j \in InodeIdx : dInodes[j] \in Inode => dInodes'[j] \in Inode
  BY DEF SaveInodeOk, SaveInodeFails, InodeSaved, WriteFails, ReadFails, Fails, Works,
         MetaTypeOK

\* dir_write_entry() of a well-formed entry, successful or not.
LEMMA EntrySaveType ==
    ASSUME MetaTypeOK, NEW s \in Slots, NEW e \in Entry,
           DirWriteOk(s, e) \/ DirWriteFails(s, e)
    PROVE  /\ dDir' \in [Slots -> Entry \cup {Junk}] /\ failures' \in Nat
           /\ DirClean => DirClean'
  BY DEF DirWriteOk, DirWriteFails, EntrySaved, WriteFails, ReadFails, Fails, Works,
         MetaTypeOK, DirClean

\* A step that leaves the disk's metadata alone while an operation runs.
LEMMA RunningOrder ==
    ASSUME FormatOrder, dSuper, dSuper', op'.pc \notin Formatting,
           DirClean', TableClean', BitmapClean'
    PROVE  FormatOrder'
  BY DEF FormatOrder, Formatting

\* fs_init() and fs_format() keep the metadata invariant.
LEMMA MetaBoot ==
    ASSUME MetaInv, "superread" \notin Faults, fs_format \/ fs_init
    PROVE  MetaInv'
<1> USE DEF MetaInv
<1>t. MetaTypeOK /\ op \in OpRec /\ op.pc \in PCs /\ op.i \in Nat
  BY DEF MetaTypeOK, OpRec
<1>1. CASE Mount
  <2>1. op' \in OpRec /\ op'.pc = "idle" /\ op'.done = 0 /\ op'.buf = <<>>
    BY <1>1, NoOpType DEF Mount
  <2>2. dSuper /\ DirClean /\ TableClean /\ BitmapClean
    BY <1>1 DEF Mount, FormatOrder
  <2>3. inodes' \in [InodeIdx -> Inode] /\ bitmap' \in SUBSET Sectors
    BY <1>1, <1>t, <2>2 DEF Mount, TableClean, BitmapClean, MetaTypeOK
  <2>4. handles' \in [HandleIdx -> Handle]
    BY <1>1 DEF Mount, ClosedHandle, Handle
  <2>5. MetaTypeOK'
    BY <1>1, <2>1, <2>3, <2>4 DEF Mount, MetaTypeOK, disk
  <2>6. FormatOrder'
    BY <1>1, <2>1, <2>2 DEF Mount, FormatOrder, Formatting, DirClean, TableClean,
                            BitmapClean, disk
  <2> QED
    BY <2>1, <2>5, <2>6 DEF WriteLocals, Writing
<1>2. CASE MountFails
  <2>1. op' \in OpRec /\ op'.pc = "dead" /\ op'.done = 0 /\ op'.buf = <<>>
    BY <1>2, AtType DEF MountFails, PCs
  <2>2. MetaTypeOK'
    BY <1>2, <2>1 DEF MountFails, MetaTypeOK, memory, disk, MountReadFails, Fails
  <2>3. FormatOrder'
    BY <1>2, <2>1 DEF MountFails, FormatOrder, Formatting, Running, DirClean,
                      TableClean, BitmapClean, disk
  <2> QED
    BY <2>1, <2>2, <2>3 DEF WriteLocals, Writing
<1>3. CASE FormatStart
  <2>1. op' \in OpRec /\ op'.pc = "f_alloc" /\ op'.done = 0 /\ op'.buf = <<>> /\ op'.i = 0
    BY <1>3, AtType DEF FormatStart, PCs
  <2>2. inodes' \in [InodeIdx -> Inode] /\ bitmap' \in SUBSET Sectors
    BY <1>3, ZeroInodeType DEF FormatStart
  <2>3. MetaTypeOK'
    BY <1>3, <2>1, <2>2 DEF FormatStart, MetaTypeOK
  <2>4. \A s \in Slots : ~(s \div DirPerSector < 0)
    BY SlotBlock DEF BlockIdx
  <2>5. FormatOrder'
    BY <1>3, <2>1, <2>4 DEF FormatStart, FormatOrder, Running, Formatting
  <2> QED
    BY <2>1, <2>3, <2>5 DEF WriteLocals, Writing
<1>4. CASE FormatAlloc
  <2>1. /\ MetaTypeOK' /\ op'.pc \in {"f_zero", "dead"} /\ op'.done = op.done
        /\ op'.buf = op.buf /\ op'.i = op.i
    BY <1>4, AllocMeta DEF FormatAlloc, PCs
  <2>2. dSuper' = dSuper /\ dDir' = dDir /\ op.pc = "f_alloc"
    BY <1>4 DEF FormatAlloc, AllocBitmap
  <2>3. FormatOrder'
    BY <2>1, <2>2 DEF FormatOrder, Formatting, Running
  <2> QED
    BY <2>1, <2>3 DEF WriteLocals, Writing
<1>5. CASE FormatZero
  <2>1. op.pc = "f_zero" /\ ~dSuper
    BY <1>5 DEF FormatZero, FormatOrder, Formatting
  <2> DEFINE zeroed == [s \in Slots |-> IF s \div DirPerSector = op.i
                                        THEN ZeroEntry ELSE dDir[s]]
  <2>2. ZeroEntry \in Entry
    BY FsAssumption DEF ZeroEntry, Entry, InodeIdx
  <2>3. zeroed \in [Slots -> Entry \cup {Junk}]
    BY <1>t, <2>2 DEF MetaTypeOK
  <2>4. \A s \in Slots : s \div DirPerSector < op.i + 1 => zeroed[s] \in Entry
    <3>1. \A s \in Slots : s \div DirPerSector \in Int
      BY SlotBlock DEF BlockIdx
    <3>2. \A s \in Slots : s \div DirPerSector < op.i => dDir[s] \in Entry
      BY <2>1 DEF FormatOrder
    <3> QED
      BY <1>t, <2>2, <3>1, <3>2
  <2> HIDE DEF zeroed
  <2>5. CASE /\ DataWriteOk(op.sector, ZeroBlock) /\ dDir' = zeroed
             /\ inodes' = [inodes EXCEPT ![0].direct[op.i] = op.sector]
             /\ op' = [op EXCEPT !.pc = "f_alloc", !.i = op.i + 1]
             /\ UNCHANGED bitmap
    <3>1. op' \in OpRec /\ op'.pc = "f_alloc" /\ op'.done = op.done
          /\ op'.buf = op.buf /\ op'.i = op.i + 1
      <4>1. op.i + 1 \in Nat /\ "f_alloc" \in PCs
        BY <1>t DEF PCs
      <4> QED
        BY <1>t, <2>5, <4>1 DEF OpRec
    <3>2. inodes' \in [InodeIdx -> Inode]
      BY <1>t, <2>5 DEF MetaTypeOK, Inode, OpRec
    <3>3. MetaTypeOK'
      BY <1>5, <2>3, <2>5, <3>1, <3>2 DEF FormatZero, MetaTypeOK, DataWriteOk, Works
    <3>4. FormatOrder'
      BY <1>5, <2>1, <2>4, <2>5, <3>1 DEF FormatZero, FormatOrder, Formatting, Running
    <3> QED
      BY <3>1, <3>3, <3>4 DEF WriteLocals, Writing
  <2>6. CASE /\ WriteFails /\ dDir' \in {dDir, zeroed} /\ UNCHANGED inodes
             /\ bitmap' = bitmap \ {op.sector} /\ op' = [op EXCEPT !.pc = "f_unalloc"]
    <3>1. op' \in OpRec /\ op'.pc = "f_unalloc" /\ op'.done = op.done /\ op'.buf = op.buf
      BY <1>t, <2>6 DEF OpRec, PCs
    <3>2. MetaTypeOK'
      BY <1>5, <2>3, <2>6, <3>1 DEF FormatZero, MetaTypeOK, WriteFails, Fails
    <3>3. FormatOrder'
      BY <1>5, <2>1, <3>1 DEF FormatZero, FormatOrder, Formatting, Running
    <3> QED
      BY <3>1, <3>2, <3>3 DEF WriteLocals, Writing
  <2> QED
    BY <1>5, <2>5, <2>6 DEF FormatZero, zeroed
<1>6. CASE FormatUnalloc
  <2>1. MetaTypeOK' /\ op'.pc = "dead" /\ op'.done = op.done /\ op'.buf = op.buf
    BY <1>6, UndoMeta DEF FormatUnalloc, PCs
  <2>2. dSuper' = dSuper /\ op.pc = "f_unalloc"
    BY <1>6 DEF FormatUnalloc, AllocUndo
  <2>3. FormatOrder'
    BY <2>1, <2>2 DEF FormatOrder, Formatting, Running
  <2> QED
    BY <2>1, <2>3 DEF WriteLocals, Writing
<1>7. CASE FormatInode
  <2> DEFINE i == IF op.pc = "f_alloc" THEN 0 ELSE op.i
  <2>1. i \in InodeIdx
    BY <1>7, <1>t, FsAssumption DEF FormatInode, FormatOrder, InodeIdx
  <2>2. inodes[i] \in Inode
    BY <1>t, <2>1 DEF MetaTypeOK
  <2>3. /\ dInodes' \in [InodeIdx -> Inode \cup {Junk}] /\ failures' \in Nat
        /\ \A j \in InodeIdx : dInodes[j] \in Inode => dInodes'[j] \in Inode
    BY <1>7, <1>t, <2>1, <2>2, InodeSaveType DEF FormatInode
  <2>4. DirClean
    <3>1. CASE op.pc = "f_inode"
      BY <3>1 DEF FormatOrder
    <3>2. CASE op.pc = "f_alloc" /\ op.i = Blocks
      <4>1. \A s \in Slots : s \div DirPerSector < op.i
        BY <3>2, SlotBlock, FsAssumption DEF BlockIdx
      <4> QED
        BY <3>2, <4>1 DEF FormatOrder, DirClean
    <3> QED
      BY <1>7, <3>1, <3>2 DEF FormatInode
  <2>5. ~dSuper /\ ~dSuper' /\ DirClean'
    BY <1>7, <2>4 DEF FormatInode, FormatOrder, Formatting, DirClean
  <2>6. \A j \in InodeIdx : j < i => dInodes'[j] \in Inode
    BY <1>7, <1>t, <2>1, <2>3 DEF FormatInode, FormatOrder, InodeIdx
  <2>7. CASE SaveInodeOk(i, inodes[i]) /\ op' = IF i + 1 < NumInodes
                                                THEN [op EXCEPT !.pc = "f_inode", !.i = i + 1]
                                                ELSE At("f_bitmap")
    <3>1. \A j \in InodeIdx : j < i + 1 => dInodes'[j] \in Inode
      <4>1. dInodes'[i] \in Inode
        BY <1>t, <2>1, <2>2, <2>7 DEF SaveInodeOk, InodeSaved, MetaTypeOK
      <4> QED
        BY <2>1, <2>6, <4>1 DEF InodeIdx
    <3>2. CASE i + 1 < NumInodes
      <4>1. op' \in OpRec /\ op'.pc = "f_inode" /\ op'.i = i + 1
            /\ op'.done = op.done /\ op'.buf = op.buf
        <5>1. i + 1 \in Nat /\ "f_inode" \in PCs
          BY <2>1, FsAssumption DEF PCs, InodeIdx
        <5>2. op' = [op EXCEPT !.pc = "f_inode", !.i = i + 1]
          BY <2>7, <3>2
        <5> HIDE DEF i
        <5> QED
          BY <1>t, <5>1, <5>2 DEF OpRec
      <4>2. MetaTypeOK'
        BY <1>7, <2>3, <4>1 DEF FormatInode, MetaTypeOK, memory
      <4>3. FormatOrder'
        BY <2>5, <3>1, <3>2, <4>1 DEF FormatOrder, Formatting, Running
      <4> QED
        BY <4>1, <4>2, <4>3 DEF WriteLocals, Writing
    <3>3. CASE ~(i + 1 < NumInodes)
      <4>1. op' \in OpRec /\ op'.pc = "f_bitmap" /\ op'.done = 0 /\ op'.buf = <<>>
        BY <2>7, <3>3, AtType DEF PCs
      <4>2. MetaTypeOK'
        BY <1>7, <2>3, <4>1 DEF FormatInode, MetaTypeOK, memory
      <4>3. TableClean'
        BY <2>1, <3>1, <3>3, FsAssumption DEF TableClean, InodeIdx
      <4>4. FormatOrder'
        BY <2>5, <4>1, <4>3 DEF FormatOrder, Formatting, Running
      <4> QED
        BY <4>1, <4>2, <4>4 DEF WriteLocals, Writing
    <3> QED
      BY <3>2, <3>3
  <2>8. CASE SaveInodeFails(i, inodes[i]) /\ op' = At("dead")
    <3>1. op' \in OpRec /\ op'.pc = "dead" /\ op'.done = 0 /\ op'.buf = <<>>
      BY <2>8, AtType DEF PCs
    <3>2. MetaTypeOK'
      BY <1>7, <2>3, <3>1 DEF FormatInode, MetaTypeOK, memory
    <3>3. FormatOrder'
      BY <2>5, <3>1 DEF FormatOrder, Formatting, Running
    <3> QED
      BY <3>1, <3>2, <3>3 DEF WriteLocals, Writing
  <2> QED
    BY <1>7, <2>7, <2>8 DEF FormatInode
<1>8. CASE FormatBitmap
  <2>1. bitmap \in SUBSET Sectors /\ ~dSuper /\ ~dSuper' /\ DirClean' /\ TableClean'
    BY <1>8, <1>t DEF FormatBitmap, FormatOrder, Formatting, DirClean, TableClean,
                      MetaTypeOK
  <2>2. CASE SaveBitmapOk(bitmap) /\ op' = At("f_super")
    <3>1. op' \in OpRec /\ op'.pc = "f_super" /\ op'.done = 0 /\ op'.buf = <<>>
      BY <2>2, AtType DEF PCs
    <3>2. MetaTypeOK'
      BY <1>8, <2>1, <2>2, <3>1 DEF FormatBitmap, MetaTypeOK, memory, SaveBitmapOk, Works
    <3>3. FormatOrder'
      BY <2>1, <2>2, <3>1 DEF FormatOrder, Formatting, Running, BitmapClean, SaveBitmapOk
    <3> QED
      BY <3>1, <3>2, <3>3 DEF WriteLocals, Writing
  <2>3. CASE SaveBitmapFails(bitmap) /\ op' = At("dead")
    <3>1. op' \in OpRec /\ op'.pc = "dead" /\ op'.done = 0 /\ op'.buf = <<>>
      BY <2>3, AtType DEF PCs
    <3>2. dBitmap' \in (SUBSET Sectors) \cup {Junk} /\ failures' \in Nat
      BY <1>t, <2>1, <2>3, BitmapFailType
    <3>3. MetaTypeOK'
      BY <1>8, <3>1, <3>2 DEF FormatBitmap, MetaTypeOK, memory
    <3>4. FormatOrder'
      BY <2>1, <3>1 DEF FormatOrder, Formatting, Running
    <3> QED
      BY <3>1, <3>3, <3>4 DEF WriteLocals, Writing
  <2> QED
    BY <1>8, <2>2, <2>3 DEF FormatBitmap
<1>9. CASE FormatSuper
  <2>1. DirClean' /\ TableClean' /\ BitmapClean'
    BY <1>9 DEF FormatSuper, FormatOrder, DirClean, TableClean, BitmapClean
  <2>2. op' \in OpRec /\ op'.pc \in {"idle", "dead"} /\ op'.done = 0 /\ op'.buf = <<>>
        /\ (op'.pc = "idle" => dSuper')
    BY <1>9, AtType, NoOpType DEF FormatSuper, PCs
  <2>3. handles' \in [HandleIdx -> Handle] /\ dSuper' \in BOOLEAN /\ ready' \in BOOLEAN
        /\ failures' \in Nat
    <3>1. failures' \in Nat
      <4>1. Works \/ WriteFails
        BY <1>9, Zenon DEF FormatSuper
      <4> QED
        BY <1>t, <4>1 DEF MetaTypeOK, WriteFails, Fails, Works
    <3>3. dSuper' \in BOOLEAN /\ ready' \in BOOLEAN
      BY <1>9, <1>t, Zenon DEF FormatSuper, MetaTypeOK
    <3>2. [h \in HandleIdx |-> ClosedHandle] \in [HandleIdx -> Handle]
      BY DEF ClosedHandle, Handle
    <3> QED
      BY <1>9, <1>t, <3>1, <3>2, <3>3, Zenon DEF FormatSuper, MetaTypeOK
  <2>4. MetaTypeOK'
    BY <1>9, <2>2, <2>3 DEF FormatSuper, MetaTypeOK
  <2>5. FormatOrder'
    BY <2>1, <2>2 DEF FormatOrder, Formatting, Running
  <2> QED
    BY <2>2, <2>4, <2>5 DEF WriteLocals, Writing
<1>10. CASE NotReady
  BY <1>10 DEF NotReady, vars, MetaTypeOK, FormatOrder, WriteLocals, DirClean, TableClean,
               BitmapClean
<1> QED
  BY <1>1, <1>2, <1>3, <1>4, <1>5, <1>6, <1>7, <1>8, <1>9, <1>10 DEF fs_format, fs_init

\* The operations on files, and a power failure, keep it too.
LEMMA MetaFiles ==
    ASSUME MetaInv,
           fs_create \/ fs_delete \/ fs_open \/ fs_close \/ fs_read \/ PowerFailure
    PROVE  MetaInv'
<1> USE DEF MetaInv
<1>t. MetaTypeOK /\ op \in OpRec /\ op.pc \in PCs /\ op.ino \in InodeIdx
      /\ op.slot \in Slots /\ inodes[op.ino] \in Inode
  BY DEF MetaTypeOK, OpRec
<1>1. CASE \E n \in Names : CreateStart(n)
  <2>1. PICK n \in Names : CreateStart(n)
    BY <1>1
  <2>2. PICK hidden1 \in Unreadable, hidden2 \in Unreadable :
        /\ FreeSlots(hidden2) # {} /\ FreeInodes # {}
        /\ inodes' = [inodes EXCEPT ![Lowest(FreeInodes)] = FileInode]
        /\ \/ /\ SaveInodeOk(Lowest(FreeInodes), FileInode)
              /\ op' = [At("c_dir") EXCEPT !.ino = Lowest(FreeInodes), !.name = n,
                                           !.slot = Lowest(FreeSlots(hidden2))]
           \/ SaveInodeFails(Lowest(FreeInodes), FileInode) /\ op' = NoOp
    BY <2>1, Zenon DEF CreateStart
  <2>3. Lowest(FreeInodes) \in InodeIdx /\ Lowest(FreeSlots(hidden2)) \in Slots
    BY <2>2, FreeInodeType, FreeSlotType DEF FreeInodes
  <2>4. op' \in OpRec /\ op'.pc \in {"idle", "c_dir"} /\ op'.done = 0 /\ op'.buf = <<>>
    <3>1. At("c_dir") \in OpRec /\ At("c_dir").pc = "c_dir" /\ At("c_dir").done = 0
          /\ At("c_dir").buf = <<>>
      BY AtType DEF PCs
    <3> QED
      BY <2>2, <2>3, <3>1, NoOpType DEF OpRec
  <2>5. /\ dInodes' \in [InodeIdx -> Inode \cup {Junk}] /\ failures' \in Nat
        /\ \A j \in InodeIdx : dInodes[j] \in Inode => dInodes'[j] \in Inode
    BY <1>t, <2>2, <2>3, ZeroInodeType, InodeSaveType
  <2>6. inodes' \in [InodeIdx -> Inode]
    BY <1>t, <2>2, ZeroInodeType DEF MetaTypeOK
  <2>7. MetaTypeOK'
    BY <2>1, <2>4, <2>5, <2>6 DEF CreateStart, MetaTypeOK
  <2>8. dSuper /\ op.pc = "idle" /\ dSuper' = dSuper /\ dDir' = dDir /\ dBitmap' = dBitmap
    BY <2>1 DEF CreateStart, FormatOrder, Running, Formatting, PCs
  <2>9. FormatOrder'
    BY <2>4, <2>5, <2>8, RunningOrder DEF FormatOrder, DirClean, TableClean, BitmapClean,
                                          Formatting
  <2> QED
    BY <2>4, <2>7, <2>9 DEF WriteLocals, Writing
<1>2. CASE CreateEntry
  <2>1. op' \in OpRec /\ op'.pc \in {"idle", "c_undo"} /\ op'.done <= Len(op'.buf)
    <3>1. CASE op' = NoOp
      BY <3>1, NoOpType
    <3>2. CASE op' = [op EXCEPT !.pc = "c_undo"]
      BY <1>t, <3>2 DEF WriteLocals, OpRec, PCs
    <3> QED
      BY <1>2, <3>1, <3>2 DEF CreateEntry
  <2>2. dSuper /\ dSuper' = dSuper /\ dInodes' = dInodes /\ dBitmap' = dBitmap
    BY <1>2 DEF CreateEntry, FormatOrder, Running, Formatting, PCs
  <2>3. dDir' \in [Slots -> Entry \cup {Junk}] /\ failures' \in Nat /\ (DirClean => DirClean')
    <3>1. [name |-> op.name, inode |-> op.ino] \in Entry
      BY <1>t DEF OpRec, Entry
    <3> QED
      BY <1>2, <1>t, <3>1, EntrySaveType DEF CreateEntry
  <2>4. inodes' \in [InodeIdx -> Inode]
    BY <1>2, <1>t DEF CreateEntry, MetaTypeOK, Inode
  <2>5. MetaTypeOK'
    BY <1>2, <2>1, <2>3, <2>4 DEF CreateEntry, MetaTypeOK
  <2>6. FormatOrder'
    BY <2>1, <2>2, <2>3, RunningOrder DEF FormatOrder, TableClean, BitmapClean, Formatting
  <2> QED
    BY <2>1, <2>5, <2>6 DEF WriteLocals, Writing
<1>3. CASE CreateUndo \/ DeleteInode
  <2>1. op' \in OpRec /\ op'.pc \in {"idle", "d_dir"} /\ op'.done <= Len(op'.buf)
    <3>1. CASE op' = NoOp
      BY <3>1, NoOpType
    <3>2. CASE op' = [op EXCEPT !.pc = "d_dir"]
      BY <1>t, <3>2 DEF WriteLocals, OpRec, PCs
    <3> QED
      BY <1>3, <3>1, <3>2 DEF CreateUndo, DeleteInode
  <2>2. /\ dInodes' \in [InodeIdx -> Inode \cup {Junk}] /\ failures' \in Nat
        /\ \A j \in InodeIdx : dInodes[j] \in Inode => dInodes'[j] \in Inode
    BY <1>3, <1>t, InodeSaveType DEF CreateUndo, DeleteInode
  <2>3. dSuper /\ dSuper' = dSuper /\ dDir' = dDir /\ dBitmap' = dBitmap
    BY <1>3 DEF CreateUndo, DeleteInode, FormatOrder, Running, Formatting, PCs
  <2>4. MetaTypeOK'
    BY <1>3, <2>1, <2>2 DEF CreateUndo, DeleteInode, MetaTypeOK, memory
  <2>5. FormatOrder'
    BY <2>1, <2>2, <2>3, RunningOrder DEF FormatOrder, DirClean, TableClean, BitmapClean,
                                          Formatting
  <2> QED
    BY <2>1, <2>4, <2>5 DEF WriteLocals, Writing
<1>4. CASE \E n \in Names : DeleteStart(n)
  <2>1. PICK n \in Names : DeleteStart(n)
    BY <1>4
  <2>2. op.pc = "idle" /\ dSuper /\ DirClean /\ TableClean /\ BitmapClean
    BY <2>1 DEF DeleteStart, FormatOrder, Running, Formatting, PCs
  <2>3. PICK hidden \in Unreadable :
        LET i == find_dir_entry(n, hidden)
            new == bitmap \ SectorsOf(inodes[i]) IN
        /\ i > 0 /\ bitmap' = new /\ inodes' = [inodes EXCEPT ![i] = ZeroInode]
        /\ \/ SaveBitmapOk(new) /\ op' = [At("d_inode") EXCEPT !.ino = i]
           \/ SaveBitmapFails(new) /\ op' = NoOp
    BY <2>1, Zenon DEF DeleteStart
  <2> DEFINE i == find_dir_entry(n, hidden)
             new == bitmap \ SectorsOf(inodes[i])
  <2>4. i \in InodeIdx
    BY <2>2, <2>3, FindType
  <2> HIDE DEF i
  <2>5. new \in SUBSET Sectors
    BY <1>t DEF MetaTypeOK
  <2>6. op' \in OpRec /\ op'.pc \in {"idle", "d_inode"} /\ op'.done = 0 /\ op'.buf = <<>>
    <3>1. At("d_inode") \in OpRec /\ At("d_inode").pc = "d_inode"
          /\ At("d_inode").done = 0 /\ At("d_inode").buf = <<>>
      BY AtType DEF PCs
    <3>2. op' = NoOp \/ op' = [At("d_inode") EXCEPT !.ino = i]
      BY <2>3, Zenon DEF i
    <3> QED
      BY <2>4, <3>1, <3>2, NoOpType DEF OpRec
  <2>7. dBitmap' \in (SUBSET Sectors) \cup {Junk} /\ failures' \in Nat /\ BitmapClean'
    <3>1. SaveBitmapOk(new) \/ SaveBitmapFails(new)
      BY <2>3, Zenon DEF i
    <3> HIDE DEF new
    <3>2. CASE SaveBitmapOk(new)
      BY <1>t, <2>5, <3>2 DEF SaveBitmapOk, Works, MetaTypeOK, BitmapClean
    <3>3. CASE SaveBitmapFails(new)
      BY <1>t, <2>2, <2>5, <3>3, BitmapFailType
    <3> QED
      BY <3>1, <3>2, <3>3
  <2>8. inodes' \in [InodeIdx -> Inode] /\ bitmap' \in SUBSET Sectors
    <3>1. inodes' = [inodes EXCEPT ![i] = ZeroInode] /\ bitmap' = new
      BY <2>3, Zenon DEF i
    <3> QED
      BY <1>t, <2>5, <3>1, ZeroInodeType DEF MetaTypeOK
  <2>9. MetaTypeOK'
    BY <2>1, <2>6, <2>7, <2>8 DEF DeleteStart, MetaTypeOK
  <2>10. dSuper' = dSuper /\ dDir' = dDir /\ dInodes' = dInodes
    BY <2>1 DEF DeleteStart
  <2>11. FormatOrder'
    BY <2>2, <2>6, <2>7, <2>10, RunningOrder DEF DirClean, TableClean, Formatting
  <2> QED
    BY <2>6, <2>9, <2>11 DEF WriteLocals, Writing
<1>5. CASE DeleteEntry
  <2>1. op' \in OpRec /\ op'.pc = "idle" /\ op'.done = 0 /\ op'.buf = <<>>
    BY <1>5, NoOpType DEF DeleteEntry
  <2>2. dSuper /\ dSuper' = dSuper /\ dInodes' = dInodes /\ dBitmap' = dBitmap
    BY <1>5 DEF DeleteEntry, FormatOrder, Running, Formatting, PCs
  <2>3. dDir' \in [Slots -> Entry \cup {Junk}] /\ failures' \in Nat /\ (DirClean => DirClean')
    <3>1. PICK hidden \in Unreadable :
            LET hits == {s \in Slots \ hidden :
                            dDir[s].name # NoName /\ dDir[s].inode = op.ino}
            IN  IF hits = {}
                THEN dDir' = dDir /\ Works
                ELSE \/ DirWriteOk(Lowest(hits), ZeroEntry)
                     \/ DirWriteFails(Lowest(hits), ZeroEntry)
      BY <1>5, Zenon DEF DeleteEntry
    <3> DEFINE hits == {s \in Slots \ hidden :
                            dDir[s].name # NoName /\ dDir[s].inode = op.ino}
    <3>2. CASE hits = {}
      BY <1>t, <3>1, <3>2 DEF MetaTypeOK, Works, DirClean
    <3>3. CASE hits # {}
      <4>1. Lowest(hits) \in Slots
        BY <3>3, LowestOfSet, SlotsAreNat
      <4>2. ZeroEntry \in Entry
        BY FsAssumption DEF ZeroEntry, Entry, InodeIdx
      <4>3. DirWriteOk(Lowest(hits), ZeroEntry) \/ DirWriteFails(Lowest(hits), ZeroEntry)
        BY <3>1, <3>3
      <4> HIDE DEF hits
      <4> QED
        BY <1>t, <4>1, <4>2, <4>3, EntrySaveType
    <3> QED
      BY <3>2, <3>3
  <2>4. MetaTypeOK'
    BY <1>5, <2>1, <2>3 DEF DeleteEntry, MetaTypeOK, memory
  <2>5. FormatOrder'
    BY <2>1, <2>2, <2>3, RunningOrder DEF FormatOrder, TableClean, BitmapClean, Formatting
  <2> QED
    BY <2>1, <2>4, <2>5 DEF WriteLocals, Writing
<1>6. CASE fs_open \/ fs_close \/ fs_read
  <2>1. op' = op /\ op.pc = "idle" /\ UNCHANGED <<disk, ready, bitmap, inodes, crashes, torn>>
    BY <1>6, Zenon DEF fs_open, fs_close, fs_read, Open, Close, Read
  <2>2. handles' \in [HandleIdx -> Handle] /\ failures' \in Nat
    <3>1. CASE fs_open
      <4>1. PICK n \in Names : Open(n)
        BY <3>1 DEF fs_open
      <4>2. DirClean
        BY <2>1 DEF FormatOrder, Running, Formatting, PCs
      <4>3. PICK hidden \in Unreadable :
              /\ find_dir_entry(n, hidden) >= 0
              /\ handles' = [handles EXCEPT ![Lowest({h \in HandleIdx : handles[h].inode < 0})] =
                                [inode |-> find_dir_entry(n, hidden), position |-> 0]]
        BY <4>1, Zenon DEF Open
      <4>4. find_dir_entry(n, hidden) \in InodeIdx
        BY <4>2, <4>3, FindType
      <4>5. [inode |-> find_dir_entry(n, hidden), position |-> 0] \in Handle
        BY <4>4 DEF Handle
      <4> QED
        BY <1>t, <4>1, <4>3, <4>5 DEF MetaTypeOK, Open
    <3>2. CASE fs_close
      BY <1>t, <3>2 DEF fs_close, Close, MetaTypeOK, ClosedHandle, Handle
    <3>3. CASE fs_read
      <4>1. PICK fd \in HandleIdx, size \in ReadSizes : Read(fd, size)
        BY <3>3 DEF fs_read
      <4>2. handles[fd] \in Handle /\ handles[fd].inode \in InodeIdx
        BY <1>t, <4>1 DEF Read, MetaTypeOK, Handle, InodeIdx
      <4>3. inodes[handles[fd].inode] \in Inode /\ size \in Nat
        BY <1>t, <4>2, FsAssumption DEF MetaTypeOK
      <4>4. failures' \in Nat
        BY <1>t, <4>1 DEF Read, MetaTypeOK, Works, ReadFails, Fails
      <4>5. handles' = handles
            \/ \E stop \in Nat : handles' = [handles EXCEPT ![fd].position = stop]
        BY <4>1, <4>2, <4>3 DEF Read, Handle, Inode
      <4> QED
        BY <1>t, <4>2, <4>4, <4>5 DEF MetaTypeOK, Handle
    <3> QED
      BY <1>6, <3>1, <3>2, <3>3
  <2>3. MetaTypeOK'
    BY <1>t, <2>1, <2>2 DEF MetaTypeOK, disk
  <2>4. FormatOrder'
    BY <2>1 DEF FormatOrder, DirClean, TableClean, BitmapClean, disk
  <2> QED
    BY <2>1, <2>3, <2>4 DEF WriteLocals, Writing
<1>7. CASE PowerFailure
  <2>1. op' \in OpRec /\ op'.pc = "off" /\ op'.done = 0 /\ op'.buf = <<>>
    BY <1>7, AtType DEF PowerFailure, PCs
  <2>2. inodes' \in [InodeIdx -> Inode] /\ bitmap' \in SUBSET Sectors
    BY <1>7, ZeroInodeType DEF PowerFailure
  <2>3. handles' \in [HandleIdx -> Handle]
    BY <1>7 DEF PowerFailure, ClosedHandle, Handle
  <2>4. torn' \in BOOLEAN /\ ready' \in BOOLEAN /\ crashes' \in Nat /\ failures' \in Nat
    <3>1. torn' \in BOOLEAN /\ ready' \in BOOLEAN
      BY <1>7, Zenon DEF PowerFailure
    <3>2. crashes' \in Nat /\ failures' \in Nat
      BY <1>7, <1>t DEF PowerFailure, MetaTypeOK
    <3> QED
      BY <3>1, <3>2
  <2>5. MetaTypeOK'
    BY <1>7, <1>t, <2>1, <2>2, <2>3, <2>4 DEF PowerFailure, MetaTypeOK, disk
  <2>6. FormatOrder'
    BY <1>7, <2>1 DEF PowerFailure, FormatOrder, Formatting, Running, DirClean,
                      TableClean, BitmapClean, disk
  <2> QED
    BY <2>1, <2>5, <2>6 DEF WriteLocals, Writing
<1> QED
  BY <1>1, <1>2, <1>3, <1>4, <1>5, <1>6, <1>7 DEF fs_create, fs_delete

\* What fs_write() takes from the buffer for one sector.
LEMMA ChunkType ==
    ASSUME MetaInv, op.pc \in Writing
    PROVE  /\ WPos \in Nat /\ WNode \in InodeIdx
           /\ WChunk \in Nat /\ op.done + WChunk <= Len(op.buf)
<1>1. op \in OpRec /\ op.done \in Nat /\ Len(op.buf) \in Nat /\ op.fd \in HandleIdx
  BY DEF MetaInv, MetaTypeOK, OpRec
<1>2. handles[op.fd] \in Handle /\ handles[op.fd].position \in Nat
      /\ handles[op.fd].inode \in InodeIdx
  BY <1>1 DEF MetaInv, MetaTypeOK, Handle, WriteLocals
<1>3. WPos \in Nat /\ WNode \in InodeIdx
  BY <1>1, <1>2 DEF WPos, WNode
<1>4. WOffset \in 0 .. (BlockSize - 1)
  BY <1>3, FsAssumption DEF WOffset
<1>5. op.done <= Len(op.buf)
  BY DEF MetaInv, WriteLocals
<1> QED
  BY <1>1, <1>3, <1>4, <1>5, FsAssumption DEF WChunk

\* fs_write() keeps the metadata invariant.
LEMMA MetaWrite ==
    ASSUME MetaInv, fs_write
    PROVE  MetaInv'
<1> USE DEF MetaInv
<1>t. MetaTypeOK /\ op \in OpRec /\ op.pc \in PCs /\ op.done \in Nat
      /\ op.buf \in Seq(Data) /\ op.fd \in HandleIdx
  BY DEF MetaTypeOK, OpRec
<1>1. CASE \E fd \in HandleIdx, buf \in Buffers : WriteStart(fd, buf)
  <2>1. PICK fd \in HandleIdx, buf \in Buffers : WriteStart(fd, buf)
    BY <1>1
  <2> DEFINE room == MaxFileSize - handles[fd].position
             cut == IF Len(buf) > room THEN SubSeq(buf, 1, room) ELSE buf
  <2>2. buf \in Seq(Data) /\ handles[fd] \in Handle
    BY <1>t, FsAssumption DEF MetaTypeOK
  <2>3. room \in Nat /\ handles[fd].inode \in InodeIdx
    BY <2>1, <2>2, FsAssumption DEF WriteStart, MaxFileSize, Handle, InodeIdx
  <2>4. cut \in Seq(Data)
    BY <2>2, <2>3
  <2>5. op' = [At("w_loop") EXCEPT !.fd = fd, !.buf = cut]
    BY <2>1 DEF WriteStart
  <2> HIDE DEF cut
  <2>6. op' \in OpRec /\ op'.pc = "w_loop" /\ op'.done = 0 /\ op'.fd = fd /\ op'.buf = cut
    <3>1. At("w_loop") \in OpRec /\ At("w_loop").pc = "w_loop" /\ At("w_loop").done = 0
      BY AtType DEF PCs
    <3> QED
      BY <2>4, <2>5, <3>1 DEF OpRec
  <2>7. MetaTypeOK'
    BY <2>1, <2>6 DEF WriteStart, MetaTypeOK, memory, disk
  <2>8. FormatOrder'
    BY <2>1, <2>6 DEF WriteStart, FormatOrder, Formatting, Running, PCs, disk, DirClean,
                      TableClean, BitmapClean
  <2>9. op'.done <= Len(op'.buf)
    BY <2>4, <2>6
  <2>10. handles'[op'.fd].inode \in InodeIdx
    BY <2>1, <2>3, <2>6 DEF WriteStart, memory
  <2> QED
    BY <2>7, <2>8, <2>9, <2>10 DEF WriteLocals
<1>2. CASE WriteAlloc
  <2>1. op.pc = "w_loop" /\ AllocBitmap("w_zero", "w_inode")
    BY <1>2 DEF WriteAlloc, WMore
  <2>2. /\ MetaTypeOK' /\ op'.pc \in {"w_zero", "w_inode"} /\ op'.done = op.done
        /\ op'.buf = op.buf /\ op'.fd = op.fd /\ (BitmapClean => BitmapClean')
    BY <1>t, <2>1, AllocMeta DEF PCs
  <2>3. dSuper /\ dSuper' = dSuper /\ dDir' = dDir /\ dInodes' = dInodes /\ handles' = handles
    BY <2>1 DEF AllocBitmap, FormatOrder, Running, Formatting, PCs
  <2>4. FormatOrder'
    BY <2>2, <2>3, RunningOrder DEF FormatOrder, DirClean, TableClean, Formatting
  <2> QED
    BY <2>1, <2>2, <2>3, <2>4 DEF WriteLocals, Writing
<1>3. CASE WriteZero
  <2>1. op' \in OpRec /\ op'.pc \in {"w_loop", "w_unalloc"} /\ op'.done = op.done
        /\ op'.buf = op.buf /\ op'.fd = op.fd
    BY <1>3, <1>t DEF WriteZero, OpRec, PCs
  <2>2. inodes' \in [InodeIdx -> Inode] /\ bitmap' \in SUBSET Sectors /\ failures' \in Nat
    <3>1. op.sector \in 0 .. NumSectors
      BY <1>t DEF OpRec
    <3>2. CASE /\ DataWriteOk(op.sector, ZeroBlock) /\ UNCHANGED bitmap
               /\ inodes' = [inodes EXCEPT ![WNode].direct[WBlock] = op.sector]
      BY <1>t, <3>1, <3>2 DEF MetaTypeOK, Inode, DataWriteOk, Works
    <3>3. CASE DataWriteFails(op.sector, ZeroBlock) /\ bitmap' = bitmap \ {op.sector}
               /\ UNCHANGED inodes
      BY <1>t, <3>3 DEF MetaTypeOK, DataWriteFails, WriteFails, Fails
    <3> QED
      BY <1>3, <3>2, <3>3 DEF WriteZero
  <2>3. MetaTypeOK'
    BY <1>3, <2>1, <2>2 DEF WriteZero, MetaTypeOK
  <2>4. FormatOrder'
    BY <1>3, <2>1, RunningOrder DEF WriteZero, FormatOrder, DirClean, TableClean,
                                    BitmapClean, Formatting, Running, PCs
  <2> QED
    BY <1>3, <2>1, <2>3, <2>4 DEF WriteZero, WriteLocals, Writing
<1>4. CASE WriteUnalloc
  <2>1. op.pc = "w_unalloc" /\ AllocUndo("w_inode")
    BY <1>4 DEF WriteUnalloc
  <2>2. /\ MetaTypeOK' /\ op'.pc = "w_inode" /\ op'.done = op.done
        /\ op'.buf = op.buf /\ op'.fd = op.fd /\ (BitmapClean => BitmapClean')
    BY <1>t, <2>1, UndoMeta DEF PCs
  <2>3. dSuper /\ dSuper' = dSuper /\ dDir' = dDir /\ dInodes' = dInodes /\ handles' = handles
    BY <2>1 DEF AllocUndo, FormatOrder, Running, Formatting, PCs, memory
  <2>4. FormatOrder'
    BY <2>2, <2>3, RunningOrder DEF FormatOrder, DirClean, TableClean, Formatting
  <2> QED
    BY <2>1, <2>2, <2>3, <2>4 DEF WriteLocals, Writing
<1>5. CASE WriteBlock
  <2>1. op.pc = "w_loop"
    BY <1>5 DEF WriteBlock, WMore
  <2>2. WChunk \in Nat /\ op.done + WChunk <= Len(op.buf)
    BY <2>1, ChunkType DEF Writing
  <2>3. op' \in OpRec /\ op'.pc \in {"w_loop", "w_inode"} /\ op'.done <= Len(op'.buf)
        /\ op'.fd = op.fd
    <3>1. CASE op' = [op EXCEPT !.done = op.done + WChunk]
      BY <1>t, <2>1, <2>2, <3>1 DEF OpRec
    <3>2. CASE op' = [op EXCEPT !.pc = "w_inode"]
      BY <1>t, <3>2 DEF OpRec, PCs, WriteLocals
    <3> QED
      BY <1>5, <3>1, <3>2 DEF WriteBlock
  <2>4. failures' \in Nat
    <3>1. Works \/ Fails
      BY <1>5, Zenon DEF WriteBlock, DataWriteOk, DataWriteFails, WriteFails, ReadFails
    <3> QED
      BY <1>t, <3>1 DEF MetaTypeOK, Fails, Works
  <2>5. MetaTypeOK'
    BY <1>5, <2>3, <2>4 DEF WriteBlock, MetaTypeOK, memory
  <2>6. FormatOrder'
    BY <1>5, <2>1, <2>3, RunningOrder DEF WriteBlock, FormatOrder, DirClean, TableClean,
                                    BitmapClean, Formatting, Running, PCs
  <2> QED
    BY <1>5, <2>1, <2>3, <2>5, <2>6 DEF WriteBlock, WriteLocals, Writing, memory
<1>6. CASE WriteInode
  <2>1. op.pc \in {"w_inode", "w_loop"}
    BY <1>6 DEF WriteInode, WMore
  <2>2. WPos \in Nat /\ WNode \in InodeIdx
    BY <2>1, ChunkType DEF Writing
  <2>3. op' \in OpRec /\ op'.pc = "w_bitmap" /\ op'.done = 0 /\ op'.buf = <<>>
    BY <1>6, AtType DEF WriteInode, PCs
  <2> DEFINE node == IF WPos > inodes[WNode].size
                     THEN [inodes[WNode] EXCEPT !.size = WPos] ELSE inodes[WNode]
  <2>4. node \in Inode
    <3>1. inodes[WNode] \in Inode
      BY <1>t, <2>2 DEF MetaTypeOK
    <3> QED
      BY <2>2, <3>1 DEF Inode
  <2>5. /\ dInodes' \in [InodeIdx -> Inode \cup {Junk}] /\ failures' \in Nat
        /\ \A j \in InodeIdx : dInodes[j] \in Inode => dInodes'[j] \in Inode
    <3>1. SaveInodeOk(WNode, node) \/ SaveInodeFails(WNode, node)
      BY <1>6 DEF WriteInode
    <3> HIDE DEF node
    <3> QED
      BY <1>t, <2>2, <2>4, <3>1, InodeSaveType
  <2>6. inodes' \in [InodeIdx -> Inode]
    <3>1. inodes' = [inodes EXCEPT ![WNode] = node]
      BY <1>6 DEF WriteInode
    <3> HIDE DEF node
    <3> QED
      BY <1>t, <2>4, <3>1 DEF MetaTypeOK
  <2>7. handles' \in [HandleIdx -> Handle]
    BY <1>6, <1>t, <2>2 DEF WriteInode, MetaTypeOK, Handle
  <2>8. MetaTypeOK'
    BY <1>6, <2>3, <2>5, <2>6, <2>7 DEF WriteInode, MetaTypeOK
  <2>9. dSuper /\ dSuper' = dSuper /\ dDir' = dDir /\ dBitmap' = dBitmap
    BY <1>6, <2>1 DEF WriteInode, FormatOrder, Running, Formatting, PCs
  <2>10. FormatOrder'
    BY <2>3, <2>5, <2>9, RunningOrder DEF FormatOrder, DirClean, TableClean, BitmapClean,
                                          Formatting
  <2> QED
    BY <2>3, <2>8, <2>10 DEF WriteLocals, Writing
<1>7. CASE WriteBitmap
  <2>1. op' \in OpRec /\ op'.pc = "idle" /\ op'.done = 0 /\ op'.buf = <<>>
    BY <1>7, NoOpType DEF WriteBitmap
  <2>2. bitmap \in SUBSET Sectors
    BY <1>t DEF MetaTypeOK
  <2>3. dBitmap' \in (SUBSET Sectors) \cup {Junk} /\ failures' \in Nat
        /\ (BitmapClean => BitmapClean')
    <3>1. CASE SaveBitmapOk(bitmap)
      BY <1>t, <2>2, <3>1 DEF SaveBitmapOk, Works, MetaTypeOK, BitmapClean
    <3>2. CASE SaveBitmapFails(bitmap)
      BY <1>t, <2>2, <3>2, BitmapFailType
    <3> QED
      BY <1>7, <3>1, <3>2 DEF WriteBitmap
  <2>4. MetaTypeOK'
    BY <1>7, <2>1, <2>3 DEF WriteBitmap, MetaTypeOK, memory
  <2>5. dSuper /\ dSuper' = dSuper /\ dDir' = dDir /\ dInodes' = dInodes
    BY <1>7 DEF WriteBitmap, FormatOrder, Running, Formatting, PCs
  <2>6. FormatOrder'
    BY <2>1, <2>3, <2>5, RunningOrder DEF FormatOrder, DirClean, TableClean, Formatting
  <2> QED
    BY <2>1, <2>4, <2>6 DEF WriteLocals, Writing
<1> QED
  BY <1>1, <1>2, <1>3, <1>4, <1>5, <1>6, <1>7 DEF fs_write

\* Every step keeps the metadata invariant.
LEMMA MetaStep ==
    ASSUME MetaInv, "superread" \notin Faults, [Next]_vars
    PROVE  MetaInv'
<1>1. CASE UNCHANGED vars
  BY <1>1 DEF vars, MetaInv, MetaTypeOK, FormatOrder, WriteLocals, DirClean, TableClean,
              BitmapClean
<1> QED
  BY <1>1, MetaBoot, MetaFiles, MetaWrite DEF Next

(* Under every geometry of the disk, with any failing I/O and any power failure,
   the metadata keeps its type and a valid superblock is never on the disk
   before the bitmap, the inode table and the directory it vouches for. *)
THEOREM MetadataSound ==
    ASSUME "superread" \notin Faults
    PROVE  Spec => []MetaInv
<1>1. Init => MetaInv
  BY MetaInit
<1>2. MetaInv /\ [Next]_vars => MetaInv'
  BY MetaStep
<1> QED
  BY <1>1, <1>2, PTL DEF Spec

-----------------------------------------------------------------------------
Owned(tbl, bm) == NoSharedSector(tbl) /\ RefsUsed(tbl, bm)
Table == [InodeIdx -> Inode]

\* That every referenced sector is used, block by block.
LEMMA RefsForm ==
    ASSUME NEW tbl \in Table, NEW bm
    PROVE  RefsUsed(tbl, bm) <=>
             \A i \in InodeIdx : \A b \in BlockIdx :
                 tbl[i].direct[b] # 0 => tbl[i].direct[b] \in bm
  BY DEF RefsUsed, SectorsOf

\* A table whose inodes have no sectors.
LEMMA OwnedEmpty ==
    ASSUME NEW tbl \in Table, NEW bm,
           \A i \in InodeIdx : tbl[i] \in {ZeroInode, FileInode}
    PROVE  Owned(tbl, bm)
<1>1. \A i \in InodeIdx : \A b \in BlockIdx : tbl[i].direct[b] = 0
  BY DEF ZeroInode, FileInode
<1> QED
  BY <1>1, RefsForm DEF Owned, NoSharedSector

\* fs_create() and fs_delete(): one inode loses its sectors.
LEMMA OwnedClear ==
    ASSUME NEW tbl \in Table, NEW bm, Owned(tbl, bm), NEW i \in InodeIdx,
           NEW node \in {ZeroInode, FileInode}
    PROVE  /\ Owned([tbl EXCEPT ![i] = node], bm \ SectorsOf(tbl[i]))
           /\ Owned([tbl EXCEPT ![i] = node], bm)
<1> DEFINE new == [tbl EXCEPT ![i] = node]
<1>1. new \in Table
  BY ZeroInodeType DEF Table
<1>2. \A j \in InodeIdx : \A b \in BlockIdx :
          new[j].direct[b] = IF j = i THEN 0 ELSE tbl[j].direct[b]
  BY DEF Table, ZeroInode, FileInode
<1>3. NoSharedSector(new)
  BY <1>2 DEF Owned, NoSharedSector
<1>4. \A j \in InodeIdx : \A b \in BlockIdx :
          new[j].direct[b] # 0 => new[j].direct[b] \in bm \ SectorsOf(tbl[i])
  <2> SUFFICES ASSUME NEW j \in InodeIdx, NEW b \in BlockIdx, new[j].direct[b] # 0
               PROVE  new[j].direct[b] \in bm \ SectorsOf(tbl[i])
    OBVIOUS
  <2>1. j # i /\ new[j].direct[b] = tbl[j].direct[b]
    BY <1>2
  <2>2. tbl[j].direct[b] \in bm
    BY <2>1, RefsForm DEF Owned
  <2>3. tbl[j].direct[b] \notin SectorsOf(tbl[i])
    BY <2>1 DEF Owned, NoSharedSector, SectorsOf
  <2> QED
    BY <2>1, <2>2, <2>3
<1> HIDE DEF new
<1>5. RefsUsed(new, bm \ SectorsOf(tbl[i])) /\ RefsUsed(new, bm)
  BY <1>1, <1>4, RefsForm
<1> QED
  BY <1>3, <1>5 DEF Owned, new

\* fs_write() and fs_format(): a block gets a sector that is used and nobody's.
LEMMA OwnedAdd ==
    ASSUME NEW tbl \in Table, NEW bm, Owned(tbl, bm), NEW i \in InodeIdx, NEW b,
           NEW s \in bm, s \in 0 .. NumSectors,
           \A j \in InodeIdx : s \notin SectorsOf(tbl[j])
    PROVE  Owned([tbl EXCEPT ![i].direct[b] = s], bm)
<1> DEFINE new == [tbl EXCEPT ![i].direct[b] = s]
<1>1. new \in Table
  BY DEF Table, Inode
<1>2. \A j \in InodeIdx : \A c \in BlockIdx :
          new[j].direct[c] = IF j = i /\ c = b THEN s ELSE tbl[j].direct[c]
  BY DEF Table, Inode
<1>3. \A j \in InodeIdx : \A c \in BlockIdx : tbl[j].direct[c] # 0 => tbl[j].direct[c] # s
  BY DEF SectorsOf
<1> HIDE DEF new
<1>4. NoSharedSector(new)
  BY <1>2, <1>3 DEF Owned, NoSharedSector
<1>5. RefsUsed(new, bm)
  BY <1>1, <1>2, RefsForm DEF Owned
<1> QED
  BY <1>4, <1>5 DEF Owned, new

\* A table with at most the sectors of another one.
LEMMA OwnedPart ==
    ASSUME NEW tbl \in Table, NEW bm, Owned(tbl, bm), NEW new \in Table,
           \A i \in InodeIdx : \A b \in BlockIdx : new[i].direct[b] \in {0, tbl[i].direct[b]}
    PROVE  Owned(new, bm)
<1>1. NoSharedSector(new)
  BY DEF Owned, NoSharedSector
<1>2. RefsUsed(new, bm)
  BY RefsForm DEF Owned
<1> QED
  BY <1>1, <1>2 DEF Owned

\* With MaxFailures = 0 no sector access fails.
LEMMA NoFails == ASSUME MetaTypeOK, MaxFailures = 0 PROVE ~Fails
  BY DEF MetaTypeOK, Fails

\* The clauses of OwnershipInv about a system that is off concern power failures
\* only: elsewhere it is enough to show the other two.
LEMMA NotOff ==
    ASSUME op'.pc # "off",
           ~torn' => NoSharedSector(inodes') /\ RefsUsed(inodes', bitmap') /\ FreshSector',
           MaxFailures = 0 => DiskFollows'
    PROVE  OwnershipInv'
  BY DEF OwnershipInv

\* allocate_sector()'s first half marks a sector that is nobody's.
LEMMA AllocOwn ==
    ASSUME MetaInv, OwnershipInv, NEW p \in PCs,
           NEW q \in PCs \ {"f_zero", "w_zero"}, AllocBitmap(p, q)
    PROVE  /\ ~torn' => Owned(inodes', bitmap') /\ FreshSector'
           /\ MaxFailures = 0 => dBitmap' = bitmap' /\ op'.pc = p
           /\ op'.i = op.i /\ op'.fd = op.fd
<1>t. MetaTypeOK /\ op \in OpRec /\ bitmap \in SUBSET Sectors /\ inodes \in Table
  BY DEF MetaInv, MetaTypeOK, Table
<1> DEFINE s == Lowest(FreeSectors)
<1>1. s \in Sectors \ bitmap
  BY FreeSectorType DEF AllocBitmap
<1>2. op'.i = op.i /\ op'.fd = op.fd
  BY <1>t DEF AllocBitmap, OpRec
<1>3. torn' = torn /\ inodes' = inodes
  BY DEF AllocBitmap
<1>4. CASE /\ bitmap' = bitmap \cup {s} /\ SaveBitmapOk(bitmap \cup {s})
           /\ op' = [op EXCEPT !.pc = p, !.sector = s]
  <2>1. op'.pc = p /\ op'.sector = s
    BY <1>t, <1>4 DEF OpRec
  <2>2. ASSUME ~torn PROVE Owned(inodes', bitmap') /\ FreshSector'
    <3>1. NoSharedSector(inodes) /\ RefsUsed(inodes, bitmap)
      BY <2>2 DEF OwnershipInv
    <3>2. Owned(inodes', bitmap')
      BY <1>3, <1>4, <3>1 DEF Owned, RefsUsed
    <3>3. \A i \in InodeIdx : s \notin SectorsOf(inodes'[i])
      BY <1>1, <1>3, <3>1 DEF RefsUsed
    <3> QED
      BY <1>4, <2>1, <3>2, <3>3 DEF FreshSector
  <2> QED
    BY <1>2, <1>3, <1>4, <2>1, <2>2 DEF SaveBitmapOk
<1>5. CASE /\ SaveBitmapFails(bitmap \cup {s}) /\ bitmap' = bitmap
           /\ op' = [op EXCEPT !.pc = q]
  <2>1. op'.pc = q
    BY <1>t, <1>5 DEF OpRec
  <2>2. MaxFailures # 0
    BY <1>5, <1>t, NoFails DEF SaveBitmapFails, WriteFails
  <2>3. FreshSector'
    BY <2>1 DEF FreshSector
  <2> QED
    BY <1>2, <1>3, <1>5, <2>2, <2>3 DEF OwnershipInv, Owned
<1> QED
  BY <1>4, <1>5 DEF AllocBitmap

\* fs_init() and fs_format() keep the ownership invariant.
LEMMA OwnBoot ==
    ASSUME MetaInv, MetaInv', OwnershipInv, MaxFailures = 0 \/ MaxCrashes = 0,
           "superread" \notin Faults, fs_format \/ fs_init
    PROVE  OwnershipInv'
<1>t. MetaTypeOK /\ MetaTypeOK' /\ op \in OpRec /\ op' \in OpRec
      /\ inodes \in Table /\ inodes' \in Table /\ bitmap \in SUBSET Sectors
  BY DEF MetaInv, MetaTypeOK, Table
<1>1. CASE Mount
  <2>1. op' = NoOp /\ op.pc = "off" /\ dSuper
    BY <1>1 DEF Mount
  <2>2. MaxFailures = 0
    BY <2>1 DEF OwnershipInv
  <2>3. ~torn' => Owned(inodes', bitmap')
    BY <1>1, <2>1, <2>2 DEF Mount, OwnershipInv, Owned
  <2>4. FreshSector'
    BY <2>1, NoOpType DEF FreshSector
  <2>5. DiskFollows'
    BY <1>1, <2>1, NoOpType DEF Mount, DiskFollows, disk
  <2> QED
    BY <2>1, <2>3, <2>4, <2>5, NoOpType, NotOff DEF Owned
<1>2. CASE MountFails
  <2>1. MaxFailures # 0
    BY <1>2, <1>t, NoFails DEF MountFails, MountReadFails
  <2>2. op'.pc = "dead"
    BY <1>2, AtType DEF MountFails, PCs
  <2>3. FreshSector'
    BY <2>2 DEF FreshSector
  <2> QED
    BY <1>2, <2>1, <2>2, <2>3, NotOff DEF MountFails, OwnershipInv, memory
<1>3. CASE FormatStart
  <2>1. op'.pc = "f_alloc"
    BY <1>3, AtType DEF FormatStart, PCs
  <2>2. Owned(inodes', bitmap')
    BY <1>3, <1>t, OwnedEmpty DEF FormatStart
  <2>3. FreshSector' /\ DiskFollows'
    BY <2>1 DEF FreshSector, DiskFollows, Running, Formatting
  <2> QED
    BY <2>1, <2>2, <2>3, NotOff DEF Owned
<1>4. CASE FormatAlloc
  <2>1. AllocBitmap("f_zero", "dead") /\ op.pc = "f_alloc"
    BY <1>4 DEF FormatAlloc
  <2>2. /\ ~torn' => Owned(inodes', bitmap') /\ FreshSector'
        /\ MaxFailures = 0 => op'.pc = "f_zero"
    BY <2>1, AllocOwn DEF PCs
  <2>3. op'.pc \in {"f_zero", "dead"}
    BY <1>t, <2>1, AllocMeta DEF PCs
  <2>4. MaxFailures = 0 => DiskFollows'
    BY <2>2 DEF DiskFollows, Running, Formatting
  <2> QED
    BY <2>2, <2>3, <2>4, NotOff DEF Owned
<1>5. CASE FormatZero
  <2>1. CASE /\ inodes' = [inodes EXCEPT ![0].direct[op.i] = op.sector]
             /\ op' = [op EXCEPT !.pc = "f_alloc", !.i = op.i + 1] /\ bitmap' = bitmap
    <3>1. op'.pc = "f_alloc"
      BY <1>t, <2>1 DEF OpRec
    <3>2. ASSUME ~torn PROVE Owned(inodes', bitmap')
      <4>1. Owned(inodes, bitmap) /\ op.sector \in bitmap
            /\ \A i \in InodeIdx : op.sector \notin SectorsOf(inodes[i])
        BY <1>5, <3>2 DEF OwnershipInv, FreshSector, FormatZero, Owned
      <4>2. 0 \in InodeIdx /\ op.sector \in 0 .. NumSectors
        BY <1>t, FsAssumption DEF InodeIdx, OpRec
      <4> QED
        BY <1>t, <2>1, <4>1, <4>2, OwnedAdd
    <3>3. FreshSector' /\ DiskFollows'
      BY <3>1 DEF FreshSector, DiskFollows, Running, Formatting
    <3> QED
      BY <1>5, <3>1, <3>2, <3>3, NotOff DEF FormatZero, Owned
  <2>2. CASE /\ WriteFails /\ inodes' = inodes /\ bitmap' = bitmap \ {op.sector}
             /\ op' = [op EXCEPT !.pc = "f_unalloc"]
    <3>1. op'.pc = "f_unalloc"
      BY <1>t, <2>2 DEF OpRec
    <3>2. ASSUME ~torn PROVE Owned(inodes', bitmap')
      <4>1. Owned(inodes, bitmap) /\ \A i \in InodeIdx : op.sector \notin SectorsOf(inodes[i])
        BY <1>5, <3>2 DEF OwnershipInv, FreshSector, FormatZero, Owned
      <4> QED
        BY <2>2, <4>1 DEF Owned, RefsUsed
    <3>3. FreshSector' /\ MaxFailures # 0
      BY <1>t, <2>2, <3>1, NoFails DEF FreshSector, WriteFails
    <3> QED
      BY <1>5, <3>1, <3>2, <3>3, NotOff DEF FormatZero, Owned
  <2> QED
    BY <1>5, <2>1, <2>2 DEF FormatZero
<1>6. CASE FormatUnalloc
  <2>1. op.pc = "f_unalloc" /\ op'.pc = "dead" /\ inodes' = inodes /\ bitmap' = bitmap
        /\ torn' = torn
    BY <1>6, <1>t DEF FormatUnalloc, AllocUndo, memory, OpRec
  <2>2. MaxFailures # 0
    BY <2>1 DEF OwnershipInv, DiskFollows
  <2> QED
    BY <2>1, <2>2, NotOff DEF OwnershipInv, FreshSector
<1>7. CASE FormatInode
  <2> DEFINE i == IF op.pc = "f_alloc" THEN 0 ELSE op.i
  <2>1. inodes' = inodes /\ bitmap' = bitmap /\ torn' = torn
    BY <1>7 DEF FormatInode, memory
  <2>3. i \in InodeIdx
    <3>1. CASE op.pc = "f_alloc"
      BY <3>1, FsAssumption DEF InodeIdx
    <3>2. CASE op.pc = "f_inode"
      <4>1. op.i < NumInodes /\ op.i \in Nat
        BY <1>t, <3>2 DEF MetaInv, FormatOrder, OpRec
      <4> QED
        BY <3>2, <4>1, FsAssumption DEF InodeIdx
    <3> QED
      BY <1>7, <3>1, <3>2 DEF FormatInode
  <2>2. op'.pc \in {"f_inode", "f_bitmap", "dead"}
    <3>1. i + 1 \in Nat /\ At("f_bitmap").pc = "f_bitmap" /\ At("dead").pc = "dead"
      BY <2>3, FsAssumption, AtType DEF InodeIdx, PCs
    <3>2. \/ op' = [op EXCEPT !.pc = "f_inode", !.i = i + 1]
          \/ op' = At("f_bitmap") \/ op' = At("dead")
      BY <1>7 DEF FormatInode
    <3> HIDE DEF i
    <3> QED
      BY <1>t, <3>1, <3>2 DEF OpRec
  <2>4. ASSUME MaxFailures = 0 PROVE DiskFollows'
    <3>1. SaveInodeOk(i, inodes[i])
      BY <1>7, <1>t, <2>4, NoFails DEF FormatInode, SaveInodeFails, WriteFails, ReadFails
    <3>2. \A j \in InodeIdx : j < i => dInodes[j] = inodes[j]
      BY <1>7, <2>4 DEF OwnershipInv, DiskFollows, FormatInode, InodeIdx
    <3>3. dInodes' = [dInodes EXCEPT ![i] = inodes[i]] /\ DOMAIN dInodes = InodeIdx
      BY <1>t, <3>1 DEF SaveInodeOk, InodeSaved, MetaTypeOK
    <3>4. \A j \in InodeIdx : j < i + 1 => dInodes'[j] = inodes'[j]
      BY <2>1, <2>3, <3>2, <3>3 DEF InodeIdx
    <3>5. op' = IF i + 1 < NumInodes THEN [op EXCEPT !.pc = "f_inode", !.i = i + 1]
                                     ELSE At("f_bitmap")
      BY <1>7, <1>t, <2>4, NoFails DEF FormatInode, SaveInodeFails, WriteFails, ReadFails
    <3> HIDE DEF i
    <3>6. CASE i + 1 < NumInodes
      <4>1. op'.pc = "f_inode" /\ op'.i = i + 1
        BY <1>t, <3>5, <3>6 DEF OpRec
      <4> QED
        BY <3>4, <4>1 DEF DiskFollows, Running, Formatting
    <3>7. CASE ~(i + 1 < NumInodes)
      <4>1. op'.pc = "f_bitmap"
        BY <3>5, <3>7, AtType DEF PCs
      <4>2. dInodes' = inodes'
        <5>1. \A j \in InodeIdx : dInodes'[j] = inodes'[j]
          BY <2>3, <3>4, <3>7, FsAssumption DEF InodeIdx
        <5>2. dInodes' \in [InodeIdx -> Inode \cup {Junk}] /\ inodes' \in [InodeIdx -> Inode]
          BY <1>t DEF MetaTypeOK
        <5> QED
          BY <5>1, <5>2
      <4> QED
        BY <4>1, <4>2 DEF DiskFollows, Running, Formatting
    <3> QED
      BY <3>6, <3>7
  <2>5. ~torn' => Owned(inodes', bitmap') /\ FreshSector'
    BY <2>1, <2>2 DEF OwnershipInv, FreshSector, Owned
  <2> QED
    BY <2>2, <2>4, <2>5, NotOff DEF Owned
<1>8. CASE FormatBitmap
  <2>1. inodes' = inodes /\ bitmap' = bitmap /\ torn' = torn /\ op.pc = "f_bitmap"
        /\ dInodes' = dInodes
    BY <1>8 DEF FormatBitmap, memory
  <2>2. op'.pc \in {"f_super", "dead"}
    BY <1>8, AtType DEF FormatBitmap, PCs
  <2>3. ASSUME MaxFailures = 0 PROVE DiskFollows'
    <3>1. SaveBitmapOk(bitmap) /\ op' = At("f_super")
      BY <1>8, <1>t, <2>3, NoFails DEF FormatBitmap, SaveBitmapFails, WriteFails
    <3>2. op'.pc = "f_super" /\ dBitmap' = bitmap'
      BY <2>1, <3>1, AtType DEF SaveBitmapOk, PCs
    <3> QED
      BY <2>1, <2>3, <3>2 DEF OwnershipInv, DiskFollows, Running, Formatting
  <2>4. ~torn' => Owned(inodes', bitmap') /\ FreshSector'
    BY <2>1, <2>2 DEF OwnershipInv, FreshSector, Owned
  <2> QED
    BY <2>2, <2>3, <2>4, NotOff DEF Owned
<1>9. CASE FormatSuper
  <2>1. inodes' = inodes /\ bitmap' = bitmap /\ torn' = torn /\ op.pc = "f_super"
        /\ dInodes' = dInodes /\ dBitmap' = dBitmap
    BY <1>9 DEF FormatSuper
  <2>2. op'.pc \in {"idle", "dead"}
    BY <1>9, AtType, NoOpType DEF FormatSuper, PCs
  <2>3. ASSUME MaxFailures = 0 PROVE DiskFollows'
    <3>1. op' = NoOp
      BY <1>9, <1>t, <2>3, NoFails, Zenon DEF FormatSuper, WriteFails
    <3> QED
      BY <2>1, <2>3, <3>1, NoOpType DEF OwnershipInv, DiskFollows
  <2>4. ~torn' => Owned(inodes', bitmap') /\ FreshSector'
    BY <2>1, <2>2 DEF OwnershipInv, FreshSector, Owned
  <2> QED
    BY <2>2, <2>3, <2>4, NotOff DEF Owned
<1>10. CASE NotReady
  <2>1. op' = op /\ op.pc = "dead" /\ inodes' = inodes /\ bitmap' = bitmap /\ torn' = torn
    BY <1>10 DEF NotReady, vars
  <2> QED
    BY <2>1, NotOff DEF OwnershipInv, DiskFollows, FreshSector
<1> QED
  BY <1>1, <1>2, <1>3, <1>4, <1>5, <1>6, <1>7, <1>8, <1>9, <1>10 DEF fs_format, fs_init

(* fs_create(), fs_delete(), fs_open(), fs_close(), fs_read() and a power failure
   keep the ownership invariant. *)
LEMMA OwnFiles ==
    ASSUME MetaInv, MetaInv', OwnershipInv,
           fs_create \/ fs_delete \/ fs_open \/ fs_close \/ fs_read \/ PowerFailure
    PROVE  OwnershipInv'
<1>t. MetaTypeOK /\ MetaTypeOK' /\ op \in OpRec /\ op' \in OpRec
      /\ inodes \in Table /\ inodes' \in Table /\ bitmap \in SUBSET Sectors
      /\ op.ino \in InodeIdx
  BY DEF MetaInv, MetaTypeOK, Table, OpRec
<1>1. CASE \E n \in Names : CreateStart(n)
  <2>1. PICK n \in Names : CreateStart(n)
    BY <1>1
  <2>2. PICK hidden1 \in Unreadable, hidden2 \in Unreadable :
        /\ FreeSlots(hidden2) # {} /\ FreeInodes # {}
        /\ inodes' = [inodes EXCEPT ![Lowest(FreeInodes)] = FileInode]
        /\ \/ /\ SaveInodeOk(Lowest(FreeInodes), FileInode)
              /\ op' = [At("c_dir") EXCEPT !.ino = Lowest(FreeInodes), !.name = n,
                                           !.slot = Lowest(FreeSlots(hidden2))]
           \/ SaveInodeFails(Lowest(FreeInodes), FileInode) /\ op' = NoOp
    BY <2>1, Zenon DEF CreateStart
  <2>3. Lowest(FreeInodes) \in InodeIdx
    BY <2>2, FreeInodeType DEF FreeInodes
  <2>4. op'.pc \in {"idle", "c_dir"}
    <3>1. At("c_dir") \in OpRec /\ At("c_dir").pc = "c_dir"
      BY AtType DEF PCs
    <3> QED
      BY <2>2, <3>1, NoOpType DEF OpRec
  <2>5. bitmap' = bitmap /\ torn' = torn /\ op.pc = "idle" /\ dBitmap' = dBitmap
    BY <2>1 DEF CreateStart
  <2>6. ~torn => Owned(inodes', bitmap')
    BY <1>t, <2>2, <2>3, <2>5, OwnedClear DEF OwnershipInv, Owned
  <2>7. FreshSector'
    BY <2>4 DEF FreshSector
  <2>8. ASSUME MaxFailures = 0 PROVE DiskFollows'
    <3>1. dBitmap = bitmap /\ dInodes = inodes
      BY <2>5, <2>8 DEF OwnershipInv, DiskFollows, Running, Formatting, PCs
    <3>2. dInodes' = [dInodes EXCEPT ![Lowest(FreeInodes)] = FileInode]
      BY <1>t, <2>2, <2>8, NoFails DEF SaveInodeFails, WriteFails, ReadFails,
                                       SaveInodeOk, InodeSaved
    <3> QED
      BY <2>2, <2>4, <2>5, <3>1, <3>2 DEF DiskFollows
  <2> QED
    BY <2>4, <2>5, <2>6, <2>7, <2>8, NotOff DEF Owned
<1>2. CASE CreateEntry
  <2>1. op'.pc \in {"idle", "c_undo"}
    BY <1>2, <1>t, NoOpType DEF CreateEntry, OpRec
  <2>2. bitmap' = bitmap /\ torn' = torn /\ op.pc = "c_dir" /\ dBitmap' = dBitmap
        /\ dInodes' = dInodes
    BY <1>2 DEF CreateEntry
  <2>3. \A i \in InodeIdx : \A b \in BlockIdx : inodes'[i].direct[b] = inodes[i].direct[b]
    BY <1>2, <1>t DEF CreateEntry, Table, Inode
  <2>4. ~torn => Owned(inodes', bitmap')
    BY <1>t, <2>2, <2>3, OwnedPart DEF OwnershipInv, Owned
  <2>5. FreshSector'
    BY <2>1 DEF FreshSector
  <2>6. ASSUME MaxFailures = 0 PROVE DiskFollows'
    <3>1. inodes' = inodes /\ op' = NoOp
      BY <1>2, <1>t, <2>6, NoFails DEF CreateEntry, DirWriteFails, WriteFails, ReadFails
    <3>2. dBitmap = bitmap /\ dInodes = inodes
      BY <2>2, <2>6 DEF OwnershipInv, DiskFollows, Running, Formatting, PCs
    <3> QED
      BY <2>2, <3>1, <3>2, NoOpType DEF DiskFollows
  <2> QED
    BY <2>1, <2>2, <2>4, <2>5, <2>6, NotOff DEF Owned
<1>3. CASE CreateUndo \/ DeleteInode
  <2>1. op'.pc \in {"idle", "d_dir"} /\ op.pc \in {"c_undo", "d_inode"}
    BY <1>3, <1>t, NoOpType DEF CreateUndo, DeleteInode, OpRec
  <2>2. bitmap' = bitmap /\ torn' = torn /\ dBitmap' = dBitmap /\ inodes' = inodes
    BY <1>3 DEF CreateUndo, DeleteInode, memory
  <2>3. FreshSector'
    BY <2>1 DEF FreshSector
  <2>4. ASSUME MaxFailures = 0 PROVE DiskFollows'
    <3>1. op.pc = "d_inode" /\ dBitmap = bitmap
          /\ \A i \in InodeIdx \ {op.ino} : dInodes[i] = inodes[i]
      BY <2>1, <2>4 DEF OwnershipInv, DiskFollows, Running, Formatting, PCs
    <3>2. SaveInodeOk(op.ino, inodes[op.ino])
      BY <1>3, <1>t, <2>4, <3>1, NoFails DEF DeleteInode, CreateUndo, SaveInodeFails,
                                             WriteFails, ReadFails
    <3>3. dInodes' = [dInodes EXCEPT ![op.ino] = inodes[op.ino]] /\ DOMAIN dInodes = InodeIdx
      BY <1>t, <3>2 DEF SaveInodeOk, InodeSaved, MetaTypeOK
    <3>4. \A i \in InodeIdx : dInodes'[i] = inodes[i]
      BY <3>1, <3>3
    <3>5. dInodes' = inodes'
      BY <1>t, <2>2, <3>4 DEF MetaTypeOK, Table
    <3> QED
      BY <2>1, <2>2, <3>1, <3>5 DEF DiskFollows
  <2> QED
    BY <2>1, <2>2, <2>3, <2>4, NotOff DEF OwnershipInv
<1>4. CASE \E n \in Names : DeleteStart(n)
  <2>1. PICK n \in Names : DeleteStart(n)
    BY <1>4
  <2>2. PICK hidden \in Unreadable :
        LET i == find_dir_entry(n, hidden) IN
        /\ i > 0
        /\ bitmap' = bitmap \ SectorsOf(inodes[i])
        /\ inodes' = [inodes EXCEPT ![i] = ZeroInode]
        /\ \/ /\ SaveBitmapOk(bitmap \ SectorsOf(inodes[i]))
              /\ op' = [At("d_inode") EXCEPT !.ino = i]
           \/ SaveBitmapFails(bitmap \ SectorsOf(inodes[i])) /\ op' = NoOp
    BY <2>1, Zenon DEF DeleteStart
  <2> DEFINE i == find_dir_entry(n, hidden)
  <2>3. op.pc = "idle" /\ torn' = torn /\ dInodes' = dInodes
    BY <2>1 DEF DeleteStart
  <2>4. DirClean
    BY <2>3 DEF MetaInv, FormatOrder, Running, Formatting, PCs
  <2>5. i \in InodeIdx
    BY <2>2, <2>4, FindType DEF InodeIdx
  <2>6. \/ op' = NoOp
        \/ op' = [At("d_inode") EXCEPT !.ino = i]
    BY <2>2
  <2> HIDE DEF i
  <2>7. /\ op'.pc \in {"idle", "d_inode"}
        /\ op'.pc = "d_inode" => op'.ino = i
    <3>1. At("d_inode") \in OpRec /\ At("d_inode").pc = "d_inode"
      BY AtType DEF PCs
    <3> QED
      BY <2>6, <3>1, NoOpType DEF OpRec
  <2>8. /\ bitmap' = bitmap \ SectorsOf(inodes[i])
        /\ inodes' = [inodes EXCEPT ![i] = ZeroInode]
    BY <2>2 DEF i
  <2>9. ~torn => Owned(inodes', bitmap')
    BY <1>t, <2>3, <2>5, <2>8, OwnedClear DEF OwnershipInv, Owned
  <2>10. FreshSector'
    BY <2>7 DEF FreshSector
  <2>11. ASSUME MaxFailures = 0 PROVE DiskFollows'
    <3>1. dInodes = inodes
      BY <2>3, <2>11 DEF OwnershipInv, DiskFollows
    <3>2. dBitmap' = bitmap' /\ op' = [At("d_inode") EXCEPT !.ino = i]
      BY <1>t, <2>2, <2>11, NoFails DEF SaveBitmapFails, SaveBitmapOk, WriteFails, i
    <3>3. op'.pc = "d_inode"
      <4>1. At("d_inode") \in OpRec /\ At("d_inode").pc = "d_inode"
        BY AtType DEF PCs
      <4> QED
        BY <3>2, <4>1 DEF OpRec
    <3>4. \A j \in InodeIdx \ {op'.ino} : dInodes'[j] = inodes'[j]
      BY <1>t, <2>3, <2>7, <2>8, <3>1, <3>3 DEF Table
    <3> QED
      BY <3>2, <3>3, <3>4 DEF DiskFollows
  <2> QED
    BY <2>3, <2>7, <2>9, <2>10, <2>11, NotOff DEF Owned
<1>5. CASE DeleteEntry
  <2>1. op.pc = "d_dir" /\ op'.pc = "idle" /\ inodes' = inodes /\ bitmap' = bitmap
        /\ torn' = torn /\ dInodes' = dInodes /\ dBitmap' = dBitmap
    BY <1>5, NoOpType DEF DeleteEntry, memory
  <2>2. FreshSector'
    BY <2>1 DEF FreshSector
  <2>3. MaxFailures = 0 => DiskFollows'
    BY <2>1 DEF OwnershipInv, DiskFollows, Running, Formatting, PCs
  <2> QED
    BY <2>1, <2>2, <2>3, NotOff DEF OwnershipInv
<1>6. CASE fs_open \/ fs_close \/ fs_read
  <2>1. op.pc = "idle" /\ op' = op /\ inodes' = inodes /\ bitmap' = bitmap
        /\ torn' = torn /\ dInodes' = dInodes /\ dBitmap' = dBitmap
    BY <1>6 DEF fs_open, fs_close, fs_read, Open, Close, Read, disk
  <2>2. FreshSector'
    BY <2>1 DEF FreshSector
  <2>3. MaxFailures = 0 => DiskFollows'
    BY <2>1 DEF OwnershipInv, DiskFollows
  <2> QED
    BY <2>1, <2>2, <2>3, NotOff DEF OwnershipInv
<1>7. CASE PowerFailure
  <2>1. op'.pc = "off" /\ crashes < MaxCrashes /\ crashes \in Nat
    BY <1>7, <1>t, AtType DEF PowerFailure, PCs, MetaTypeOK
  <2>2. MaxCrashes # 0
    BY <2>1
  <2>3. dInodes' = dInodes /\ dBitmap' = dBitmap /\ dSuper' = dSuper /\ op.pc # "off"
    BY <1>7 DEF PowerFailure, disk
  <2>4. ~torn' => ~torn /\ op.pc \notin {"d_inode", "d_dir"}
    BY <1>7, Zenon DEF PowerFailure
  <2>5. Owned(inodes', bitmap')
    BY <1>7, <1>t, OwnedEmpty DEF PowerFailure
  <2>6. FreshSector' /\ (MaxFailures = 0 => DiskFollows')
    BY <2>1 DEF FreshSector, DiskFollows, Running
  <2>7. ASSUME MaxFailures = 0, ~torn', dSuper
        PROVE  Owned(dInodes, dBitmap)
    <3>1. DiskFollows /\ Owned(inodes, bitmap) /\ FreshSector
      BY <2>4, <2>7 DEF OwnershipInv, Owned
    <3>2. op.pc \in PCs /\ op.pc \notin Formatting /\ dInodes \in Table
      BY <1>t, <2>7 DEF MetaInv, FormatOrder, OpRec, TableClean, MetaTypeOK, Table
    <3>3. op.pc \in {"idle", "c_dir", "w_bitmap", "w_loop", "w_zero"}
      BY <2>3, <2>4, <2>7, <3>1, <3>2 DEF DiskFollows, PCs, Formatting
    <3>4. dBitmap = bitmap
      BY <3>1, <3>3 DEF DiskFollows, Running, Formatting, PCs
    <3>5. CASE op.pc \in {"idle", "c_dir", "w_bitmap"}
      BY <3>1, <3>4, <3>5 DEF DiskFollows
    <3>6. CASE op.pc \in {"w_loop", "w_zero"}
      <4>1. \A i \in InodeIdx : \A b \in BlockIdx :
                dInodes[i].direct[b] \in {0, inodes[i].direct[b]}
        BY <3>1, <3>6 DEF DiskFollows
      <4> QED
        BY <1>t, <3>1, <3>2, <3>4, <4>1, OwnedPart
    <3> QED
      BY <3>3, <3>5, <3>6
  <2> QED
    BY <2>1, <2>2, <2>3, <2>5, <2>6, <2>7 DEF OwnershipInv, Owned
<1> QED
  BY <1>1, <1>2, <1>3, <1>4, <1>5, <1>6, <1>7 DEF fs_create, fs_delete

(* fs_write() keeps the ownership invariant: the sector it gives a block is the
   one allocate_sector() has just marked. *)
LEMMA OwnWrite ==
    ASSUME MetaInv, MetaInv', OwnershipInv, fs_write
    PROVE  OwnershipInv'
<1>t. MetaTypeOK /\ MetaTypeOK' /\ op \in OpRec /\ op' \in OpRec
      /\ inodes \in Table /\ inodes' \in Table /\ bitmap \in SUBSET Sectors
      /\ op.sector \in 0 .. NumSectors /\ op.pc \in PCs
  BY DEF MetaInv, MetaTypeOK, Table, OpRec
<1>n. op.pc \in Writing => WNode \in InodeIdx
  BY ChunkType
<1>1. CASE \E fd \in HandleIdx, buf \in Buffers : WriteStart(fd, buf)
  <2>1. PICK fd \in HandleIdx, buf \in Buffers : WriteStart(fd, buf)
    BY <1>1
  <2>2. op.pc = "idle" /\ inodes' = inodes /\ bitmap' = bitmap /\ torn' = torn
        /\ dInodes' = dInodes /\ dBitmap' = dBitmap
    BY <2>1 DEF WriteStart, memory, disk
  <2>3. op'.pc = "w_loop"
    <3>1. At("w_loop") \in OpRec /\ At("w_loop").pc = "w_loop"
      BY AtType DEF PCs
    <3>2. \E cut : op' = [At("w_loop") EXCEPT !.fd = fd, !.buf = cut]
      BY <2>1, Zenon DEF WriteStart
    <3> QED
      BY <3>1, <3>2 DEF OpRec
  <2>4. FreshSector'
    BY <2>3 DEF FreshSector
  <2>5. ASSUME MaxFailures = 0 PROVE DiskFollows'
    <3>1. dBitmap = bitmap /\ dInodes = inodes
      BY <2>2, <2>5 DEF OwnershipInv, DiskFollows, Running, Formatting, PCs
    <3> QED
      BY <2>2, <2>3, <3>1 DEF DiskFollows
  <2> QED
    BY <2>2, <2>3, <2>4, <2>5, NotOff DEF OwnershipInv
<1>2. CASE WriteAlloc
  <2>1. op.pc = "w_loop" /\ WSector = 0 /\ AllocBitmap("w_zero", "w_inode")
    BY <1>2 DEF WriteAlloc, WMore
  <2>2. /\ ~torn' => Owned(inodes', bitmap') /\ FreshSector'
        /\ MaxFailures = 0 => dBitmap' = bitmap' /\ op'.pc = "w_zero"
        /\ op'.fd = op.fd
    BY <2>1, AllocOwn DEF PCs
  <2>3. op'.pc \in {"w_zero", "w_inode"} /\ op'.done = op.done
    BY <1>t, <2>1 DEF AllocBitmap, OpRec
  <2>4. inodes' = inodes /\ handles' = handles /\ dInodes' = dInodes
    BY <2>1 DEF AllocBitmap
  <2>5. WNode' = WNode /\ WSector' = WSector
    BY <2>2, <2>3, <2>4 DEF WNode, WSector, WBlock, WPos
  <2>6. ASSUME MaxFailures = 0 PROVE DiskFollows'
    BY <2>1, <2>2, <2>4, <2>5, <2>6 DEF OwnershipInv, DiskFollows
  <2> QED
    BY <2>2, <2>3, <2>6, NotOff DEF Owned
<1>3. CASE WriteZero
  <2>1. op.pc = "w_zero" /\ torn' = torn /\ handles' = handles /\ dInodes' = dInodes
        /\ dBitmap' = dBitmap
    BY <1>3 DEF WriteZero
  <2>2. WNode \in InodeIdx
    BY <1>n, <2>1 DEF Writing
  <2>3. CASE /\ inodes' = [inodes EXCEPT ![WNode].direct[WBlock] = op.sector]
             /\ op' = [op EXCEPT !.pc = "w_loop"] /\ bitmap' = bitmap
    <3>1. op'.pc = "w_loop" /\ op'.fd = op.fd
      BY <1>t, <2>3 DEF OpRec
    <3>2. ASSUME ~torn PROVE Owned(inodes', bitmap')
      <4>1. Owned(inodes, bitmap) /\ op.sector \in bitmap
            /\ \A i \in InodeIdx : op.sector \notin SectorsOf(inodes[i])
        BY <2>1, <3>2 DEF OwnershipInv, FreshSector, Owned
      <4> QED
        BY <1>t, <2>2, <2>3, <4>1, OwnedAdd
    <3>3. ASSUME MaxFailures = 0 PROVE DiskFollows'
      <4>1. WNode' = WNode
        BY <2>1, <3>1 DEF WNode
      <4>2. DiskFollows
        BY <3>3 DEF OwnershipInv
      <4>3. \A b \in BlockIdx : dInodes[WNode].direct[b] \in {0, inodes[WNode].direct[b]}
        BY <2>1, <2>2, <4>2 DEF DiskFollows
      <4>4. inodes[WNode].direct[WBlock] = 0
        BY <2>1, <4>2 DEF DiskFollows, WSector
      <4>5. \A b \in BlockIdx : inodes'[WNode].direct[b] =
                IF b = WBlock THEN op.sector ELSE inodes[WNode].direct[b]
        BY <1>t, <2>2, <2>3 DEF Table, Inode
      <4>6. \A b \in BlockIdx : dInodes'[WNode].direct[b] \in {0, inodes'[WNode].direct[b]}
        BY <2>1, <4>3, <4>4, <4>5
      <4>7. \A i \in InodeIdx : i # WNode => dInodes'[i] = inodes'[i]
        BY <1>t, <2>1, <2>2, <2>3, <4>2 DEF Table, DiskFollows
      <4>8. dBitmap' = bitmap'
        BY <2>1, <2>3, <4>2 DEF DiskFollows, Running, Formatting, PCs
      <4> QED
        BY <3>1, <4>1, <4>6, <4>7, <4>8 DEF DiskFollows
    <3>4. FreshSector'
      BY <3>1 DEF FreshSector
    <3> QED
      BY <2>1, <3>1, <3>2, <3>3, <3>4, NotOff DEF Owned
  <2>4. CASE /\ WriteFails /\ inodes' = inodes /\ bitmap' = bitmap \ {op.sector}
             /\ op' = [op EXCEPT !.pc = "w_unalloc"]
    <3>1. op'.pc = "w_unalloc"
      BY <1>t, <2>4 DEF OpRec
    <3>2. ASSUME ~torn PROVE Owned(inodes', bitmap')
      <4>1. Owned(inodes, bitmap) /\ \A i \in InodeIdx : op.sector \notin SectorsOf(inodes[i])
        BY <2>1, <3>2 DEF OwnershipInv, FreshSector, Owned
      <4> QED
        BY <2>4, <4>1 DEF Owned, RefsUsed
    <3>3. FreshSector' /\ MaxFailures # 0
      BY <1>t, <2>4, <3>1, NoFails DEF FreshSector, WriteFails
    <3> QED
      BY <2>1, <3>1, <3>2, <3>3, NotOff DEF Owned
  <2> QED
    BY <1>3, <2>3, <2>4 DEF WriteZero, DataWriteFails
<1>4. CASE WriteUnalloc
  <2>1. op.pc = "w_unalloc" /\ op'.pc = "w_inode" /\ inodes' = inodes /\ bitmap' = bitmap
        /\ torn' = torn
    BY <1>4, <1>t DEF WriteUnalloc, AllocUndo, memory, OpRec
  <2>2. MaxFailures # 0
    BY <2>1 DEF OwnershipInv, DiskFollows
  <2> QED
    BY <2>1, <2>2, NotOff DEF OwnershipInv, FreshSector
<1>5. CASE WriteBlock
  <2>1. op.pc = "w_loop" /\ inodes' = inodes /\ bitmap' = bitmap /\ handles' = handles
        /\ torn' = torn /\ dInodes' = dInodes /\ dBitmap' = dBitmap
    BY <1>5 DEF WriteBlock, WMore, memory
  <2>2. op'.pc \in {"w_loop", "w_inode"} /\ op'.fd = op.fd
    BY <1>5, <1>t, <2>1 DEF WriteBlock, OpRec
  <2>3. WNode' = WNode
    BY <2>1, <2>2 DEF WNode
  <2>4. FreshSector'
    BY <2>2 DEF FreshSector
  <2>5. ASSUME MaxFailures = 0 PROVE DiskFollows'
    <3>1. op' = [op EXCEPT !.done = op.done + WChunk]
      BY <1>5, <1>t, <2>5, NoFails DEF WriteBlock, DataWriteFails, WriteFails, ReadFails
    <3>2. op'.pc = "w_loop"
      BY <1>t, <2>1, <3>1 DEF OpRec
    <3> QED
      BY <2>1, <2>3, <2>5, <3>2 DEF OwnershipInv, DiskFollows, Running, Formatting, PCs
  <2> QED
    BY <2>1, <2>2, <2>4, <2>5, NotOff DEF OwnershipInv
<1>6. CASE WriteInode
  <2> DEFINE node == IF WPos > inodes[WNode].size
                     THEN [inodes[WNode] EXCEPT !.size = WPos] ELSE inodes[WNode]
  <2>1. op.pc \in {"w_loop", "w_inode"} /\ WNode \in InodeIdx
    BY <1>6, <1>n DEF WriteInode, WMore, Writing
  <2>2. op'.pc = "w_bitmap" /\ bitmap' = bitmap /\ torn' = torn /\ dBitmap' = dBitmap
    BY <1>6, AtType DEF WriteInode, PCs
  <2>3. node.direct = inodes[WNode].direct
    BY <1>t, <2>1 DEF Table, Inode
  <2>4. inodes' = [inodes EXCEPT ![WNode] = node]
        /\ (SaveInodeOk(WNode, node) \/ SaveInodeFails(WNode, node))
    BY <1>6 DEF WriteInode
  <2> HIDE DEF node
  <2>5. \A i \in InodeIdx : \A b \in BlockIdx : inodes'[i].direct[b] = inodes[i].direct[b]
    BY <1>t, <2>1, <2>3, <2>4 DEF Table
  <2>6. ~torn => Owned(inodes', bitmap')
    BY <1>t, <2>2, <2>5, OwnedPart DEF OwnershipInv, Owned
  <2>7. FreshSector'
    BY <2>2 DEF FreshSector
  <2>8. ASSUME MaxFailures = 0 PROVE DiskFollows'
    <3>1. DiskFollows /\ op.pc = "w_loop"
      BY <2>1, <2>8 DEF OwnershipInv, DiskFollows
    <3>2. SaveInodeOk(WNode, node)
      BY <1>t, <2>4, <2>8, NoFails DEF SaveInodeFails, WriteFails, ReadFails
    <3>3. dInodes' = [dInodes EXCEPT ![WNode] = node] /\ DOMAIN dInodes = InodeIdx
      BY <1>t, <3>2 DEF SaveInodeOk, InodeSaved, MetaTypeOK
    <3>4. \A i \in InodeIdx : i # WNode => dInodes[i] = inodes[i]
      BY <3>1 DEF DiskFollows
    <3>5. \A i \in InodeIdx : dInodes'[i] = inodes'[i]
      BY <1>t, <2>1, <2>4, <3>3, <3>4 DEF Table
    <3>6. dInodes' = inodes'
      BY <1>t, <3>5 DEF MetaTypeOK, Table
    <3>7. dBitmap = bitmap
      BY <3>1 DEF DiskFollows, Running, Formatting, PCs
    <3> QED
      BY <2>2, <3>6, <3>7 DEF DiskFollows
  <2> QED
    BY <2>2, <2>6, <2>7, <2>8, NotOff DEF Owned
<1>7. CASE WriteBitmap
  <2>1. op.pc = "w_bitmap" /\ op'.pc = "idle" /\ inodes' = inodes /\ bitmap' = bitmap
        /\ torn' = torn /\ dInodes' = dInodes
    BY <1>7, NoOpType DEF WriteBitmap, memory
  <2>2. FreshSector'
    BY <2>1 DEF FreshSector
  <2>3. ASSUME MaxFailures = 0 PROVE DiskFollows'
    <3>1. dBitmap' = bitmap
      BY <1>7, <1>t, <2>3, NoFails DEF WriteBitmap, SaveBitmapFails, SaveBitmapOk, WriteFails
    <3>2. dInodes = inodes
      BY <2>1, <2>3 DEF OwnershipInv, DiskFollows
    <3> QED
      BY <2>1, <3>1, <3>2 DEF DiskFollows
  <2> QED
    BY <2>1, <2>2, <2>3, NotOff DEF OwnershipInv
<1> QED
  BY <1>1, <1>2, <1>3, <1>4, <1>5, <1>6, <1>7 DEF fs_write

(* Every step keeps the ownership invariant. *)
LEMMA OwnStep ==
    ASSUME MetaInv, MetaInv', OwnershipInv, MaxFailures = 0 \/ MaxCrashes = 0,
           "superread" \notin Faults, [Next]_vars
    PROVE  OwnershipInv'
<1>1. CASE UNCHANGED vars
  BY <1>1 DEF vars, OwnershipInv, FreshSector, DiskFollows, WNode, WSector, WBlock, WPos
<1> QED
  BY <1>1, OwnBoot, OwnFiles, OwnWrite DEF Next

(* A machine that has never been started owns nothing. *)
LEMMA OwnInit == Init => OwnershipInv
<1> SUFFICES ASSUME Init PROVE OwnershipInv
  OBVIOUS
<1>1. inodes \in Table /\ \A i \in InodeIdx : inodes[i] = ZeroInode
  BY ZeroInodeType DEF Init, Table
<1>2. op.pc = "off" /\ ~dSuper
  BY AtType DEF Init, PCs
<1>3. Owned(inodes, bitmap)
  BY <1>1, OwnedEmpty
<1> QED
  BY <1>2, <1>3 DEF OwnershipInv, Owned, FreshSector, DiskFollows, Running

(* Whatever the geometry of the disk: if no sector access fails, or if the power
   never does, no sector ever belongs to two files and no file's sector is free
   in the bitmap, unless a power failure has cut an fs_delete() in two. *)
THEOREM SectorsAreOwned ==
    ASSUME "superread" \notin Faults, MaxFailures = 0 \/ MaxCrashes = 0
    PROVE  Spec => []SectorsOwned
<1>1. Init => MetaInv /\ OwnershipInv
  BY MetaInit, OwnInit
<1>2. MetaInv /\ OwnershipInv /\ [Next]_vars => MetaInv' /\ OwnershipInv'
  BY MetaStep, OwnStep
<1>3. OwnershipInv => SectorsOwned
  BY DEF OwnershipInv, SectorsOwned
<1> QED
  BY <1>1, <1>2, <1>3, PTL DEF Spec

(* Without failing I/O, what fs.c holds in memory between two operations is what
   is on the disk, for every geometry and any power failures. *)
THEOREM MetadataDurable ==
    ASSUME "superread" \notin Faults, MaxFailures = 0
    PROVE  Spec => []DurableAtRest
<1>1. Init => MetaInv /\ OwnershipInv
  BY MetaInit, OwnInit
<1>2. MetaInv /\ OwnershipInv /\ [Next]_vars => MetaInv' /\ OwnershipInv'
  BY MetaStep, OwnStep
<1>3. OwnershipInv => DurableAtRest
  BY DEF OwnershipInv, DurableAtRest, DiskFollows, Running, Formatting, PCs
<1> QED
  BY <1>1, <1>2, <1>3, PTL DEF Spec

-----------------------------------------------------------------------------
(* Data sectors *)

Written(node) == \A s \in SectorsOf(node) : dData[s] \in Block

\* What is written stays written.
Grows ==
    /\ dData' \in [Sectors -> Block \cup {Junk}]
    /\ \A s \in Sectors : dData[s] \in Block => dData'[s] \in Block

\* A sector that gets a block of data has one, and the others keep theirs.
LEMMA DataSavedGrows ==
    ASSUME DataInv, NEW s \in 0 .. NumSectors, NEW b \in Block, DataSaved(s, b)
    PROVE  Grows /\ (s # 0 => dData'[s] \in Block)
<1>1. dData \in [Sectors -> Block \cup {Junk}]
  BY DEF DataInv
<1>2. dData' = [dData EXCEPT ![s] = b]
  BY DEF DataSaved
<1>3. s # 0 => s \in Sectors
  BY FsAssumption DEF Sectors
<1> QED
  BY <1>1, <1>2, <1>3 DEF Grows

\* A disk that is not written to keeps what it holds.
LEMMA SameGrows == DataInv /\ dData' = dData => Grows
  BY DEF DataInv, Grows

\* An inode that leads to written sectors still does.
LEMMA WrittenGrows ==
    ASSUME Grows, NEW node \in Inode, Written(node)
    PROVE  \A s \in SectorsOf(node) : dData'[s] \in Block
<1>1. SectorsOf(node) \subseteq Sectors
  BY SectorsOfType
<1> QED
  BY <1>1 DEF Grows, Written

\* save_inode() of an inode that leads to written sectors, successful or not.
LEMMA SaveWritten ==
    ASSUME MetaTypeOK, DataInv, Grows, NEW i \in InodeIdx, NEW node \in Inode, Written(node),
           SaveInodeOk(i, node) \/ SaveInodeFails(i, node) \/ dInodes' = dInodes
    PROVE  \A j \in InodeIdx :
               dInodes'[j] # Junk => \A s \in SectorsOf(dInodes'[j]) : dData'[s] \in Block
<1> SUFFICES ASSUME NEW j \in InodeIdx, dInodes'[j] # Junk
             PROVE  \A s \in SectorsOf(dInodes'[j]) : dData'[s] \in Block
  OBVIOUS
<1>1. dInodes'[j] = dInodes[j] \/ dInodes'[j] = node
  BY DEF SaveInodeOk, SaveInodeFails, InodeSaved, MetaTypeOK
<1>2. CASE dInodes'[j] = dInodes[j]
  <2>1. dInodes[j] \in Inode /\ Written(dInodes[j])
    BY <1>2 DEF MetaTypeOK, DataInv, Written
  <2> QED
    BY <1>2, <2>1, WrittenGrows
<1>3. CASE dInodes'[j] = node
  BY <1>3, WrittenGrows
<1> QED
  BY <1>1, <1>2, <1>3

\* Nothing an inode leads to changes.
LEMMA DataIdle ==
    ASSUME MetaInv, DataInv, Grows, dInodes' = dInodes,
           \A i \in InodeIdx : SectorsOf(inodes'[i]) \subseteq SectorsOf(inodes[i]),
           op'.pc \in Writing => handles'[op'.fd].position + Len(op'.buf) <= MaxFileSize
    PROVE  DataInv'
<1>1. inodes \in Table
  BY DEF MetaInv, MetaTypeOK, Table
<1>2. \A i \in InodeIdx : \A s \in SectorsOf(inodes'[i]) : dData'[s] \in Block
  <2> SUFFICES ASSUME NEW i \in InodeIdx PROVE \A s \in SectorsOf(inodes'[i]) : dData'[s] \in Block
    OBVIOUS
  <2>1. inodes[i] \in Inode /\ Written(inodes[i])
    BY <1>1 DEF Table, DataInv, Written
  <2> QED
    BY <2>1, WrittenGrows
<1>3. \A i \in InodeIdx : dInodes'[i] # Junk => \A s \in SectorsOf(dInodes'[i]) : dData'[s] \in Block
  <2> SUFFICES ASSUME NEW i \in InodeIdx, dInodes[i] # Junk
               PROVE  \A s \in SectorsOf(dInodes[i]) : dData'[s] \in Block
    OBVIOUS
  <2>1. dInodes[i] \in Inode /\ Written(dInodes[i])
    BY DEF MetaInv, MetaTypeOK, DataInv, Written
  <2> QED
    BY <2>1, WrittenGrows
<1> QED
  BY <1>2, <1>3 DEF DataInv, Grows

\* While there is more to write, the position lies in one of the inode's blocks.
LEMMA BlockInside ==
    ASSUME MetaInv, DataInv, op.pc \in Writing, op.done < Len(op.buf)
    PROVE  WBlock \in BlockIdx
<1>1. op.done \in Nat /\ Len(op.buf) \in Nat /\ handles[op.fd].position \in Nat
  BY DEF MetaInv, MetaTypeOK, OpRec, Handle
<1>2. WPos \in Nat
  BY ChunkType
<1>3. WPos < Blocks * BlockSize
  <2>1. handles[op.fd].position + Len(op.buf) <= Blocks * BlockSize /\ Blocks * BlockSize \in Nat
    BY FsAssumption DEF DataInv, MaxFileSize
  <2> QED
    BY <1>1, <2>1 DEF WPos
<1> SUFFICES ASSUME NEW a \in Nat, NEW B \in Nat, NEW D \in Nat \ {0}, a < B * D
             PROVE a \div D < B /\ a \div D \in Nat
  BY <1>2, <1>3, FsAssumption DEF WBlock, BlockIdx
<1>4. a \div D >= 0 /\ a \div D \in Int
  OBVIOUS
<1>5. a \div D < B
  OBVIOUS
<1> QED
  BY <1>4, <1>5

\* The block fs_write() puts into a sector is a block of data.
LEMMA PatchedType ==
    ASSUME MetaInv, DataInv, WMore, WSector # 0
    PROVE  /\ WBlock \in BlockIdx /\ WSector \in SectorsOf(inodes[WNode])
           /\ WSector \in Sectors /\ WPatched \in Block
<1>1. /\ op.pc \in Writing /\ op.done < Len(op.buf) /\ op.buf \in Seq(Data)
      /\ op.done \in Nat /\ Len(op.buf) \in Nat
  BY DEF WMore, Writing, MetaInv, MetaTypeOK, OpRec
<1>2. /\ WPos \in Nat /\ WNode \in InodeIdx /\ WChunk \in Nat
      /\ op.done + WChunk <= Len(op.buf)
  BY <1>1, ChunkType
<1>5. WBlock \in BlockIdx
  BY <1>1, BlockInside
<1>6. inodes[WNode] \in Inode
  BY <1>2 DEF MetaInv, MetaTypeOK
<1>7. WSector \in SectorsOf(inodes[WNode])
  BY <1>5 DEF WSector, SectorsOf
<1>8. WSector \in Sectors /\ dData[WSector] \in Block
  BY <1>2, <1>6, <1>7, SectorsOfType DEF DataInv
<1>9. WOffset \in 0 .. (BlockSize - 1)
  BY <1>2, FsAssumption DEF WOffset
<1>10. ASSUME NEW u \in 0 .. (BlockSize - 1), u \in WOffset .. (WOffset + WChunk - 1)
       PROVE  op.buf[op.done + (u - WOffset) + 1] \in Unit
  <2>1. op.done + (u - WOffset) + 1 \in 1 .. Len(op.buf)
    BY <1>1, <1>2, <1>9, <1>10, FsAssumption
  <2> QED
    BY <1>1, <2>1 DEF Unit
<1>11. ASSUME NEW u \in 0 .. (BlockSize - 1) PROVE dData[WSector][u] \in Unit
  BY <1>8 DEF Block
<1>12. WPatched \in Block
  BY <1>10, <1>11 DEF WPatched, Block
<1> QED
  BY <1>5, <1>7, <1>8, <1>12

\* A block that gets a sector: the inode leads to that sector as well.
LEMMA PointerAdds ==
    ASSUME NEW tbl \in Table, NEW i, NEW b, NEW s \in 0 .. NumSectors, NEW j \in InodeIdx
    PROVE  SectorsOf([tbl EXCEPT ![i].direct[b] = s][j]) \subseteq SectorsOf(tbl[j]) \cup ({s} \ {0})
<1> DEFINE new == [tbl EXCEPT ![i].direct[b] = s]
<1>1. \A c \in BlockIdx : new[j].direct[c] \in {tbl[j].direct[c], s}
  BY DEF Table, Inode
<1> HIDE DEF new
<1>2. SectorsOf(new[j]) \subseteq SectorsOf(tbl[j]) \cup ({s} \ {0})
  BY <1>1 DEF SectorsOf
<1> QED
  BY <1>2 DEF new

\* fs_init() and fs_format() write a sector before an inode leads to it.
LEMMA DataBoot ==
    ASSUME MetaInv, MetaInv', DataInv, fs_format \/ fs_init
    PROVE  DataInv'
<1>t. MetaTypeOK /\ op \in OpRec /\ op' \in OpRec /\ inodes \in Table /\ inodes' \in Table
      /\ op.sector \in 0 .. NumSectors
  BY DEF MetaInv, MetaTypeOK, Table, OpRec
<1>z. ZeroBlock \in Block
  BY DEF ZeroBlock, Block, Unit
<1>1. CASE Mount
  <2>1. /\ inodes' = dInodes /\ op'.pc = "idle" /\ dData' = dData /\ dInodes' = dInodes
        /\ \A i \in InodeIdx : dInodes[i] \in Inode
    BY <1>1, NoOpType DEF Mount, disk, MetaInv, FormatOrder, TableClean
  <2>2. \A i \in InodeIdx : dInodes[i] # Junk
    BY <2>1, JunkAssumption
  <2> QED
    BY <2>1, <2>2 DEF DataInv, Writing
<1>2. CASE FormatStart
  <2>1. /\ \A i \in InodeIdx : inodes'[i] \in {ZeroInode, FileInode}
        /\ \A i \in InodeIdx : dInodes'[i] = Junk
        /\ dData' = [s \in Sectors |-> Junk] /\ op'.pc = "f_alloc"
    BY <1>2, AtType DEF FormatStart, PCs
  <2>2. \A i \in InodeIdx : SectorsOf(inodes'[i]) = {}
    BY <2>1, ZeroInodeType
  <2> QED
    BY <2>1, <2>2 DEF DataInv, Writing
<1>3. CASE MountFails \/ NotReady \/ FormatAlloc \/ FormatUnalloc \/ FormatBitmap \/ FormatSuper
  <2>1. UNCHANGED <<inodes, dInodes, dData>>
    BY <1>3 DEF MountFails, NotReady, vars, FormatAlloc, AllocBitmap, FormatUnalloc, AllocUndo,
       FormatBitmap, FormatSuper, memory, disk
  <2>2. \/ op'.pc \notin Writing
        \/ op' = op /\ handles' = handles
    <3>1. CASE NotReady
      BY <3>1 DEF NotReady, vars
    <3>2. CASE MountFails \/ FormatBitmap \/ FormatSuper
      <4>1. op' = At("dead") \/ op' = At("f_super") \/ op' = NoOp
        BY <3>2 DEF MountFails, FormatBitmap, FormatSuper
      <4>2. "dead" \in PCs /\ "f_super" \in PCs
        BY DEF PCs
      <4>3. op'.pc = "dead" \/ op'.pc = "f_super" \/ op'.pc = "idle"
        BY <4>1, <4>2, AtType, NoOpType
      <4> QED
        BY <4>3 DEF Writing
    <3>3. CASE FormatAlloc \/ FormatUnalloc
      <4>1. \/ \E s : op' = [op EXCEPT !.pc = "f_zero", !.sector = s]
            \/ op' = [op EXCEPT !.pc = "dead"]
        BY <3>3, Zenon DEF FormatAlloc, FormatUnalloc, AllocBitmap, AllocUndo
      <4>2. op'.pc = "f_zero" \/ op'.pc = "dead"
        BY <1>t, <4>1 DEF OpRec
      <4> QED
        BY <4>2 DEF Writing
    <3> QED
      BY <1>3, <3>1, <3>2, <3>3
  <2>3. op'.pc \in Writing => handles'[op'.fd].position + Len(op'.buf) <= MaxFileSize
    BY <2>2 DEF DataInv
  <2> QED
    BY <2>1, <2>3, SameGrows, DataIdle
<1>4. CASE FormatZero
  <2>1. op'.pc \notin Writing /\ dInodes' = dInodes
    BY <1>4, <1>t DEF FormatZero, OpRec, Writing
  <2>2. CASE /\ DataSaved(op.sector, ZeroBlock)
             /\ inodes' = [inodes EXCEPT ![0].direct[op.i] = op.sector]
    <3>1. Grows /\ (op.sector # 0 => dData'[op.sector] \in Block)
      BY <1>t, <1>z, <2>2, DataSavedGrows
    <3>2. ASSUME NEW j \in InodeIdx PROVE \A s \in SectorsOf(inodes'[j]) : dData'[s] \in Block
      <4>1. inodes[j] \in Inode /\ Written(inodes[j])
        BY <1>t DEF Table, DataInv, Written
      <4>2. SectorsOf(inodes'[j]) \subseteq SectorsOf(inodes[j]) \cup ({op.sector} \ {0})
        BY <1>t, <2>2, PointerAdds
      <4>3. \A s \in SectorsOf(inodes[j]) : dData'[s] \in Block
        BY <3>1, <4>1, WrittenGrows
      <4> QED
        BY <3>1, <4>2, <4>3
    <3>3. \A j \in InodeIdx :
              dInodes'[j] # Junk => \A s \in SectorsOf(dInodes'[j]) : dData'[s] \in Block
      <4> SUFFICES ASSUME NEW j \in InodeIdx, dInodes[j] # Junk
                   PROVE  \A s \in SectorsOf(dInodes[j]) : dData'[s] \in Block
        BY <2>1
      <4>1. dInodes[j] \in Inode /\ Written(dInodes[j])
        BY <1>t DEF MetaTypeOK, DataInv, Written
      <4> QED
        BY <3>1, <4>1, WrittenGrows
    <3> QED
      BY <2>1, <3>1, <3>2, <3>3 DEF DataInv, Grows
  <2>3. CASE (dData' = dData \/ DataSaved(op.sector, ZeroBlock)) /\ inodes' = inodes
    <3>1. Grows
      BY <1>t, <1>z, <2>3, DataSavedGrows, SameGrows
    <3> QED
      BY <2>1, <2>3, <3>1, DataIdle
  <2> QED
    BY <1>4, <2>2, <2>3 DEF FormatZero, DataWriteOk
<1>5. CASE FormatInode
  <2>1. inodes' = inodes /\ dData' = dData /\ op'.pc \notin Writing
    <3>1. inodes' = inodes /\ dData' = dData
      BY <1>5 DEF FormatInode, memory
    <3>2. \/ op' = At("f_bitmap") \/ op' = At("dead")
          \/ \E i : op' = [op EXCEPT !.pc = "f_inode", !.i = i]
      BY <1>5, Zenon DEF FormatInode
    <3>3. CASE op' = At("f_bitmap") \/ op' = At("dead")
      <4>1. "dead" \in PCs /\ "f_bitmap" \in PCs
        BY DEF PCs
      <4>2. op'.pc = "dead" \/ op'.pc = "f_bitmap"
        BY <3>3, <4>1, AtType
      <4> QED
        BY <4>2, <3>1 DEF Writing
    <3>4. CASE \E i : op' = [op EXCEPT !.pc = "f_inode", !.i = i]
      <4>1. op'.pc = "f_inode"
        BY <1>t, <3>4 DEF OpRec
      <4> QED
        BY <4>1, <3>1 DEF Writing
    <3> QED
      BY <3>2, <3>3, <3>4
  <2>2. PICK i \in InodeIdx : SaveInodeOk(i, inodes[i]) \/ SaveInodeFails(i, inodes[i])
    <3>1. op.pc = "f_inode" => op.i \in InodeIdx
      BY <1>t, FsAssumption DEF MetaInv, FormatOrder, InodeIdx, OpRec
    <3>2. 0 \in InodeIdx
      BY FsAssumption DEF InodeIdx
    <3> QED
      BY <1>5, <3>1, <3>2 DEF FormatInode
  <2>3. inodes[i] \in Inode /\ Written(inodes[i])
    BY <1>t DEF Table, DataInv, Written
  <2>4. Grows
    BY <2>1, SameGrows
  <2>5. \A j \in InodeIdx :
            dInodes'[j] # Junk => \A s \in SectorsOf(dInodes'[j]) : dData'[s] \in Block
    BY <1>t, <2>2, <2>3, <2>4, SaveWritten
  <2> QED
    BY <2>1, <2>5 DEF DataInv
<1> QED
  BY <1>1, <1>2, <1>3, <1>4, <1>5 DEF fs_format, fs_init

\* fs_create(), fs_delete(), the handles and a power failure write no data.
LEMMA DataFiles ==
    ASSUME MetaInv, MetaInv', DataInv,
           fs_create \/ fs_delete \/ fs_open \/ fs_close \/ fs_read \/ PowerFailure
    PROVE  DataInv'
<1>t. MetaTypeOK /\ op \in OpRec /\ op' \in OpRec /\ inodes \in Table /\ inodes' \in Table
      /\ op.ino \in InodeIdx
  BY DEF MetaInv, MetaTypeOK, Table, OpRec
<1>z. Written(ZeroInode) /\ Written(FileInode) /\ ZeroInode \in Inode /\ FileInode \in Inode
  BY ZeroInodeType DEF Written
<1>w. \A i \in InodeIdx : inodes[i] \in Inode /\ Written(inodes[i])
  BY <1>t DEF Table, DataInv, Written
<1>1. CASE \E n \in Names : CreateStart(n)
  <2> DEFINE i == Lowest(FreeInodes)
  <2>1. i \in InodeIdx
    BY <1>1, FreeInodeType DEF CreateStart, FreeInodes
  <2>2. /\ inodes' = [inodes EXCEPT ![i] = FileInode] /\ dData' = dData
        /\ SaveInodeOk(i, FileInode) \/ SaveInodeFails(i, FileInode)
    BY <1>1 DEF CreateStart
  <2>3. op'.pc \notin Writing
    <3>1. At("c_dir").pc = "c_dir" /\ At("c_dir") \in OpRec
      BY AtType DEF PCs
    <3>2. op' = NoOp \/ \E ino, name, slot :
              op' = [At("c_dir") EXCEPT !.ino = ino, !.name = name, !.slot = slot]
      BY <1>1, Zenon DEF CreateStart
    <3>3. op'.pc \in {"c_dir", "idle"}
      BY <3>1, <3>2, NoOpType DEF OpRec
    <3> QED
      BY <3>3 DEF Writing
  <2> HIDE DEF i
  <2>4. Grows
    BY <2>2, SameGrows
  <2>5. \A j \in InodeIdx :
            dInodes'[j] # Junk => \A s \in SectorsOf(dInodes'[j]) : dData'[s] \in Block
    BY <1>t, <1>z, <2>1, <2>2, <2>4, SaveWritten
  <2>6. \A j \in InodeIdx : inodes'[j] = FileInode \/ inodes'[j] = inodes[j]
    BY <1>t, <2>2 DEF Table
  <2>7. \A j \in InodeIdx : \A s \in SectorsOf(inodes'[j]) : dData'[s] \in Block
    BY <1>w, <1>z, <2>2, <2>6 DEF Written
  <2> QED
    BY <2>2, <2>3, <2>5, <2>7 DEF DataInv
<1>2. CASE CreateEntry
  <2>1. dInodes' = dInodes /\ dData' = dData /\ op'.pc \notin Writing
    BY <1>2, <1>t, NoOpType DEF CreateEntry, OpRec, Writing
  <2>2. inodes' = inodes \/ inodes' = [inodes EXCEPT ![op.ino].mode = "FREE"]
    BY <1>2 DEF CreateEntry
  <2>3. \A j \in InodeIdx : inodes'[j].direct = inodes[j].direct
    BY <1>t, <2>2 DEF Table, Inode
  <2>4. \A j \in InodeIdx : SectorsOf(inodes'[j]) \subseteq SectorsOf(inodes[j])
    BY <2>3 DEF SectorsOf
  <2> QED
    BY <2>1, <2>4, SameGrows, DataIdle
<1>3. CASE CreateUndo \/ DeleteInode
  <2>1. inodes' = inodes /\ dData' = dData /\ op'.pc \notin Writing
    BY <1>3, <1>t, NoOpType DEF CreateUndo, DeleteInode, memory, OpRec, Writing
  <2>2. SaveInodeOk(op.ino, inodes[op.ino]) \/ SaveInodeFails(op.ino, inodes[op.ino])
    BY <1>3 DEF CreateUndo, DeleteInode
  <2>3. Grows
    BY <2>1, SameGrows
  <2>4. \A j \in InodeIdx :
            dInodes'[j] # Junk => \A s \in SectorsOf(dInodes'[j]) : dData'[s] \in Block
    BY <1>t, <1>w, <2>2, <2>3, SaveWritten
  <2> QED
    BY <2>1, <2>4 DEF DataInv
<1>4. CASE \E n \in Names : DeleteStart(n)
  <2>1. dInodes' = dInodes /\ dData' = dData /\ \E i : inodes' = [inodes EXCEPT ![i] = ZeroInode]
    BY <1>4 DEF DeleteStart
  <2>2. op'.pc \notin Writing
    <3>1. At("d_inode").pc = "d_inode" /\ At("d_inode") \in OpRec
      BY AtType DEF PCs
    <3>2. op' = NoOp \/ \E ino : op' = [At("d_inode") EXCEPT !.ino = ino]
      BY <1>4, Zenon DEF DeleteStart
    <3> QED
      BY <3>1, <3>2, NoOpType DEF OpRec, Writing
  <2>3. \A j \in InodeIdx : SectorsOf(inodes'[j]) \subseteq SectorsOf(inodes[j])
    BY <1>t, <2>1, ZeroInodeType DEF Table
  <2> QED
    BY <2>1, <2>2, <2>3, SameGrows, DataIdle
<1>5. CASE DeleteEntry
  <2>1. inodes' = inodes /\ dInodes' = dInodes /\ dData' = dData /\ op'.pc \notin Writing
    BY <1>5, NoOpType DEF DeleteEntry, memory, Writing
  <2> QED
    BY <2>1, SameGrows, DataIdle
<1>6. CASE fs_open \/ fs_close \/ fs_read
  <2>1. inodes' = inodes /\ dInodes' = dInodes /\ dData' = dData /\ op'.pc \notin Writing
    <3>1. op.pc = "idle" /\ op' = op /\ UNCHANGED <<inodes, dInodes, dData>>
      BY <1>6 DEF fs_open, fs_close, fs_read, Open, Close, Read, disk
    <3> QED
      BY <3>1 DEF Writing
  <2> QED
    BY <2>1, SameGrows, DataIdle
<1>7. CASE PowerFailure
  <2>1. dInodes' = dInodes /\ dData' = dData /\ op'.pc = "off"
        /\ \A i \in InodeIdx : inodes'[i] = ZeroInode
    BY <1>7, AtType DEF PowerFailure, disk, PCs
  <2>2. \A i \in InodeIdx : SectorsOf(inodes'[i]) = {}
    BY <2>1, ZeroInodeType
  <2> QED
    BY <2>1, <2>2, SameGrows, DataIdle DEF Writing
<1> QED
  BY <1>1, <1>2, <1>3, <1>4, <1>5, <1>6, <1>7 DEF fs_create, fs_delete

\* fs_write() zeroes a new sector before the inode leads to it.
LEMMA DataWrite ==
    ASSUME MetaInv, MetaInv', DataInv, fs_write
    PROVE  DataInv'
<1>t. MetaTypeOK /\ op \in OpRec /\ op' \in OpRec /\ inodes \in Table /\ inodes' \in Table
      /\ op.sector \in 0 .. NumSectors
  BY DEF MetaInv, MetaTypeOK, Table, OpRec
<1>z. ZeroBlock \in Block
  BY DEF ZeroBlock, Block, Unit
<1>1. CASE \E fd \in HandleIdx, buf \in Buffers : WriteStart(fd, buf)
  <2>1. PICK fd \in HandleIdx, buf \in Buffers : WriteStart(fd, buf)
    BY <1>1
  <2>2. inodes' = inodes /\ dInodes' = dInodes /\ dData' = dData /\ handles' = handles
    BY <2>1 DEF WriteStart, memory, disk
  <2> DEFINE room == MaxFileSize - handles[fd].position
             cut == IF Len(buf) > room THEN SubSeq(buf, 1, room) ELSE buf
  <2>3. op' = [At("w_loop") EXCEPT !.fd = fd, !.buf = cut] /\ handles[fd].position < MaxFileSize
    BY <2>1 DEF WriteStart
  <2>4. handles[fd].position \in Nat /\ MaxFileSize \in Nat /\ buf \in Seq(Data)
    BY FsAssumption DEF MetaInv, MetaTypeOK, Handle, MaxFileSize
  <2>r. room \in Nat /\ handles[fd].position + room = MaxFileSize
    BY <2>3, <2>4
  <2> HIDE DEF room
  <2>5. Len(cut) <= room
    <3>1. CASE Len(buf) > room
      <4>1. Len(buf) \in Nat /\ \A k \in 1 .. room : buf[k] \in Data
        BY <2>r, <2>4, <3>1
      <4>2. Len(SubSeq(buf, 1, room)) = room
        BY <2>r, <4>1
      <4> QED
        BY <2>r, <3>1, <4>2
    <3>2. CASE ~(Len(buf) > room)
      BY <2>r, <2>4, <3>2
    <3> QED
      BY <3>1, <3>2
  <2> HIDE DEF cut
  <2>6. op'.fd = fd /\ op'.buf = cut
    BY <2>3, AtType DEF PCs, OpRec
  <2>7. Len(cut) \in Nat
    BY <1>t, <2>6 DEF OpRec
  <2>8. handles'[op'.fd].position + Len(op'.buf) <= MaxFileSize
    BY <2>2, <2>4, <2>5, <2>6, <2>7, <2>r
  <2> QED
    BY <2>2, <2>8, SameGrows, DataIdle
<1>2. CASE WriteAlloc \/ WriteUnalloc
  <2>1. UNCHANGED <<inodes, dInodes, dData, handles>> /\ op.pc \in Writing
    BY <1>2 DEF WriteAlloc, WriteUnalloc, AllocBitmap, AllocUndo, memory, WMore, Writing
  <2>2. op'.fd = op.fd /\ op'.buf = op.buf
    BY <1>2, <1>t DEF WriteAlloc, WriteUnalloc, AllocBitmap, AllocUndo, OpRec
  <2> QED
    BY <2>1, <2>2, SameGrows, DataIdle DEF DataInv
<1>3. CASE WriteZero
  <2>1. op.pc \in Writing /\ handles' = handles /\ dInodes' = dInodes
        /\ op'.fd = op.fd /\ op'.buf = op.buf
    BY <1>3, <1>t DEF WriteZero, OpRec, Writing
  <2>2. handles'[op'.fd].position + Len(op'.buf) <= MaxFileSize
    BY <2>1 DEF DataInv
  <2>3. CASE /\ DataSaved(op.sector, ZeroBlock)
             /\ inodes' = [inodes EXCEPT ![WNode].direct[WBlock] = op.sector]
    <3>1. Grows /\ (op.sector # 0 => dData'[op.sector] \in Block)
      BY <1>t, <1>z, <2>3, DataSavedGrows
    <3>2. ASSUME NEW j \in InodeIdx PROVE \A s \in SectorsOf(inodes'[j]) : dData'[s] \in Block
      <4>1. inodes[j] \in Inode /\ Written(inodes[j])
        BY <1>t DEF Table, DataInv, Written
      <4>2. SectorsOf(inodes'[j]) \subseteq SectorsOf(inodes[j]) \cup ({op.sector} \ {0})
        BY <1>t, <2>3, PointerAdds
      <4>3. \A s \in SectorsOf(inodes[j]) : dData'[s] \in Block
        BY <3>1, <4>1, WrittenGrows
      <4> QED
        BY <3>1, <4>2, <4>3
    <3>3. \A j \in InodeIdx :
              dInodes'[j] # Junk => \A s \in SectorsOf(dInodes'[j]) : dData'[s] \in Block
      <4> SUFFICES ASSUME NEW j \in InodeIdx, dInodes[j] # Junk
                   PROVE  \A s \in SectorsOf(dInodes[j]) : dData'[s] \in Block
        BY <2>1
      <4>1. dInodes[j] \in Inode /\ Written(dInodes[j])
        BY <1>t DEF MetaTypeOK, DataInv, Written
      <4> QED
        BY <3>1, <4>1, WrittenGrows
    <3> QED
      BY <2>2, <3>1, <3>2, <3>3 DEF DataInv, Grows
  <2>4. CASE (dData' = dData \/ DataSaved(op.sector, ZeroBlock)) /\ inodes' = inodes
    <3>1. Grows
      BY <1>t, <1>z, <2>4, DataSavedGrows, SameGrows
    <3> QED
      BY <2>1, <2>2, <2>4, <3>1, DataIdle
  <2> QED
    BY <1>3, <2>3, <2>4 DEF WriteZero, DataWriteOk, DataWriteFails
<1>4. CASE WriteBlock
  <2>1. UNCHANGED <<inodes, dInodes, handles>> /\ op.pc \in Writing
        /\ op'.fd = op.fd /\ op'.buf = op.buf
    BY <1>4, <1>t DEF WriteBlock, memory, WMore, Writing, OpRec
  <2>2. WSector \in 0 .. NumSectors /\ WPatched \in Block
    BY <1>4, PatchedType DEF WriteBlock, Sectors
  <2>3. dData' = dData \/ DataSaved(WSector, WPatched)
    BY <1>4 DEF WriteBlock, DataWriteOk, DataWriteFails
  <2>4. Grows
    BY <2>2, <2>3, DataSavedGrows, SameGrows
  <2> QED
    BY <2>1, <2>4, DataIdle DEF DataInv
<1>5. CASE WriteInode
  <2> DEFINE node == IF WPos > inodes[WNode].size
                     THEN [inodes[WNode] EXCEPT !.size = WPos] ELSE inodes[WNode]
  <2>1. op.pc \in Writing
    BY <1>5 DEF WriteInode, WMore, Writing
  <2>2. WNode \in InodeIdx /\ WPos \in Nat
    BY <2>1, ChunkType
  <2>3. node \in Inode /\ node.direct = inodes[WNode].direct
    BY <1>t, <2>2 DEF Table, Inode
  <2>4. /\ inodes' = [inodes EXCEPT ![WNode] = node] /\ dData' = dData
        /\ SaveInodeOk(WNode, node) \/ SaveInodeFails(WNode, node)
        /\ op'.pc = "w_bitmap"
    BY <1>5, AtType DEF WriteInode, PCs
  <2> HIDE DEF node
  <2>5. SectorsOf(node) = SectorsOf(inodes[WNode]) /\ Written(node)
    BY <2>2, <2>3 DEF SectorsOf, Written, DataInv
  <2>6. \A j \in InodeIdx : SectorsOf(inodes'[j]) = SectorsOf(inodes[j])
    BY <1>t, <2>2, <2>4, <2>5 DEF Table
  <2>7. Grows
    BY <2>4, SameGrows
  <2>8. \A j \in InodeIdx :
            dInodes'[j] # Junk => \A s \in SectorsOf(dInodes'[j]) : dData'[s] \in Block
    BY <1>t, <2>2, <2>3, <2>4, <2>5, <2>7, SaveWritten
  <2> QED
    BY <2>4, <2>6, <2>8 DEF DataInv, Writing
<1>6. CASE WriteBitmap
  <2>1. UNCHANGED <<inodes, dInodes, dData>> /\ op'.pc = "idle"
    BY <1>6, NoOpType DEF WriteBitmap, memory
  <2> QED
    BY <2>1, SameGrows, DataIdle DEF Writing
<1> QED
  BY <1>1, <1>2, <1>3, <1>4, <1>5, <1>6 DEF fs_write

\* A blank machine has written nothing yet.
LEMMA DataInit == Init => DataInv
<1> SUFFICES ASSUME Init PROVE DataInv
  OBVIOUS
<1>1. op.pc = "off"
  BY AtType DEF Init, PCs
<1>2. \A i \in InodeIdx : SectorsOf(inodes[i]) = {} /\ dInodes[i] = Junk
  BY ZeroInodeType DEF Init
<1>3. dData = [s \in Sectors |-> Junk]
  BY DEF Init
<1> QED
  BY <1>1, <1>2, <1>3 DEF DataInv, Writing

\* Every step keeps the data invariant.
LEMMA DataStep ==
    ASSUME MetaInv, MetaInv', DataInv, [Next]_vars
    PROVE  DataInv'
<1>1. CASE UNCHANGED vars
  BY <1>1 DEF vars, DataInv
<1> QED
  BY <1>1, DataBoot, DataFiles, DataWrite DEF Next

(* fs_init() finds no junk: whatever fails, a disk with a valid superblock holds
   a bitmap, inodes and entries, and every sector they lead to has been written. *)
THEOREM DiskMountable ==
    ASSUME "superread" \notin Faults
    PROVE  Spec => []MountableDisk
<1>1. Init => MetaInv /\ DataInv
  BY MetaInit, DataInit
<1>2. MetaInv /\ DataInv /\ [Next]_vars => MetaInv' /\ DataInv'
  BY MetaStep, DataStep
<1>3. MetaInv /\ DataInv => MountableDisk
  <2> SUFFICES ASSUME MetaInv, DataInv, dSuper PROVE MountableDisk
    BY DEF MountableDisk
  <2>1. DirClean /\ TableClean /\ BitmapClean
    BY DEF MetaInv, FormatOrder
  <2>2. dBitmap # Junk
    BY <2>1, FsAssumption DEF BitmapClean, Sectors
  <2>3. \A i \in InodeIdx : dInodes[i] # Junk
    BY <2>1, JunkAssumption DEF TableClean
  <2>4. \A s \in Slots : dDir[s] # Junk
    BY <2>1, JunkAssumption DEF DirClean
  <2>5. \A i \in InodeIdx : \A s \in SectorsOf(dInodes[i]) : dData[s] # Junk
    BY <2>3, JunkAssumption DEF DataInv
  <2> QED
    BY <2>2, <2>3, <2>4, <2>5 DEF MountableDisk
<1> QED
  BY <1>1, <1>2, <1>3, PTL DEF Spec

-----------------------------------------------------------------------------
(* The directory *)

\* No access fails, and a scan of the directory sees every entry.
Dependable == MaxFailures = 0 /\ "read" \notin Faults

\* What the steps of a running system know of the directory and the disk.
LEMMA RunningFacts ==
    ASSUME MetaInv, OwnershipInv, MaxFailures = 0, op.pc \in Running
    PROVE  /\ DirClean /\ dSuper
           /\ op.pc \notin {"c_undo", "w_unalloc", "w_inode"}
           /\ op.pc \in {"idle", "c_dir", "d_dir", "w_bitmap"} => dInodes = inodes
<1>1. DirClean /\ dSuper
  BY DEF MetaInv, FormatOrder
<1>2. DiskFollows
  BY DEF OwnershipInv
<1> QED
  BY <1>1, <1>2 DEF DiskFollows

\* While the system runs only two of DirectoryInv's clauses concern it.
LEMMA DirRunning ==
    ASSUME op'.pc \in Running,
           op'.pc \in {"w_loop", "w_zero"} =>
               \A i \in InodeIdx : dInodes'[i].mode = inodes'[i].mode,
           ~torn' => (LeadsToFiles(inodes) /\ EntriesDiffer /\ Naming)'
    PROVE  DirectoryInv'
  BY DEF DirectoryInv, Running, Formatting

\* A step that leaves the directory and the inodes' modes alone, outside of
\* fs_create() and fs_delete().
LEMMA DirFrame ==
    ASSUME MetaInv, DirectoryInv,
           op.pc \in Running \ {"d_inode", "d_dir"}, op'.pc \in Running \ {"c_dir"},
           torn' = torn, dDir' = dDir,
           \A i \in InodeIdx : inodes'[i].mode = inodes[i].mode,
           op'.pc \in {"w_loop", "w_zero"} =>
               \A i \in InodeIdx : dInodes'[i].mode = inodes'[i].mode
    PROVE  DirectoryInv'
<1> SUFFICES ASSUME ~torn PROVE (LeadsToFiles(inodes) /\ EntriesDiffer /\ Naming)'
  BY DirRunning
<1>1. DirClean /\ LeadsToFiles(inodes) /\ EntriesDiffer
  BY DEF MetaInv, FormatOrder, DirectoryInv
<1>2. UsedSlots' = UsedSlots /\ UsedSlots \subseteq Slots
  BY DEF UsedSlots
<1>3. \A s \in UsedSlots : dDir[s].inode \in InodeIdx
  BY <1>1, <1>2 DEF DirClean, Entry
<1>4. LeadsToFiles(inodes)'
  BY <1>1, <1>2, <1>3 DEF LeadsToFiles, BeingDeleted
<1>5. EntriesDiffer'
  BY <1>1, <1>2 DEF EntriesDiffer
<1> QED
  BY <1>4, <1>5 DEF Naming

\* fs_init() and fs_format() keep the directory's invariant.
LEMMA DirBoot ==
    ASSUME MetaInv, MetaInv', OwnershipInv, DirectoryInv, Dependable,
           "superread" \notin Faults, fs_format \/ fs_init
    PROVE  DirectoryInv'
<1>t. MetaTypeOK /\ op \in OpRec /\ op' \in OpRec /\ op.i \in Nat
  BY DEF MetaInv, MetaTypeOK, OpRec
<1>f. ~Fails /\ op.pc # "dead" /\ op.pc # "f_unalloc"
  BY <1>t, NoFails DEF Dependable, OwnershipInv, DiskFollows
<1>w. ~WriteFails /\ ~ReadFails /\ ~MountReadFails
  BY <1>f DEF WriteFails, ReadFails, MountReadFails
<1>1. CASE Mount
  <2>1. /\ op.pc = "off" /\ dSuper /\ inodes' = dInodes /\ op'.pc = "idle"
        /\ dDir' = dDir /\ torn' = torn
    BY <1>1, NoOpType DEF Mount, disk
  <2>2. ASSUME ~torn' PROVE (LeadsToFiles(inodes) /\ EntriesDiffer /\ Naming)'
    <3>1. LeadsToFiles(dInodes) /\ EntriesDiffer
      BY <2>1, <2>2 DEF DirectoryInv
    <3>2. UsedSlots' = UsedSlots
      BY <2>1 DEF UsedSlots
    <3> QED
      BY <2>1, <3>1, <3>2 DEF LeadsToFiles, EntriesDiffer, BeingDeleted, Naming
  <2> QED
    BY <2>1, <2>2, DirRunning DEF Running, PCs, Formatting
<1>2. CASE FormatStart
  <2>1. op'.pc = "f_alloc" /\ op'.i = 0 /\ ready' = ready /\ op.pc = "off"
    BY <1>2, AtType DEF FormatStart, PCs
  <2>2. ~ready
    BY <2>1 DEF DirectoryInv, Running
  <2>3. \A s \in Slots : ~(s \div DirPerSector < 0)
    BY SlotBlock, FsAssumption DEF BlockIdx
  <2> QED
    BY <2>1, <2>2, <2>3 DEF DirectoryInv, Running, Formatting
<1>3. CASE FormatAlloc
  <2>1. /\ op.pc = "f_alloc" /\ dDir' = dDir /\ ready' = ready
        /\ \E s : op' = [op EXCEPT !.pc = "f_zero", !.sector = s]
    BY <1>3, <1>w, Zenon DEF FormatAlloc, AllocBitmap, SaveBitmapFails
  <2>2. op'.pc = "f_zero" /\ op'.i = op.i
    BY <1>t, <2>1 DEF OpRec
  <2> QED
    BY <2>1, <2>2 DEF DirectoryInv, Running, Formatting
<1>4. CASE FormatZero
  <2>1. /\ op.pc = "f_zero" /\ ready' = ready
        /\ dDir' = [s \in Slots |-> IF s \div DirPerSector = op.i THEN ZeroEntry ELSE dDir[s]]
        /\ op' = [op EXCEPT !.pc = "f_alloc", !.i = op.i + 1]
    BY <1>4, <1>w DEF FormatZero
  <2>2. op'.pc = "f_alloc" /\ op'.i = op.i + 1
    BY <1>t, <2>1 DEF OpRec
  <2>3. ASSUME NEW s \in Slots, s \div DirPerSector < op.i + 1 PROVE dDir'[s] = ZeroEntry
    <3>1. s \div DirPerSector \in Nat
      BY SlotBlock, FsAssumption DEF BlockIdx
    <3>2. s \div DirPerSector = op.i \/ s \div DirPerSector < op.i
      BY <1>t, <2>3, <3>1
    <3> QED
      BY <2>1, <3>2 DEF DirectoryInv
  <2> QED
    BY <2>1, <2>2, <2>3 DEF DirectoryInv, Running, Formatting
<1>5. CASE FormatInode \/ FormatBitmap
  <2>1. /\ op.pc \in {"f_alloc", "f_inode", "f_bitmap"} /\ dDir' = dDir /\ ready' = ready
        /\ op.pc = "f_alloc" => op.i = Blocks
    BY <1>5, Zenon DEF FormatInode, FormatBitmap, memory
  <2>2. \/ op' = At("f_bitmap") \/ op' = At("f_super")
        \/ \E i : op' = [op EXCEPT !.pc = "f_inode", !.i = i]
    BY <1>5, <1>w, Zenon DEF FormatInode, FormatBitmap, SaveInodeFails, SaveBitmapFails
  <2>3. op'.pc \in {"f_bitmap", "f_super", "f_inode"}
    <3>1. CASE op' = At("f_bitmap") \/ op' = At("f_super")
      <4>1. "f_bitmap" \in PCs /\ "f_super" \in PCs
        BY DEF PCs
      <4> QED
        BY <3>1, <4>1, AtType
    <3>2. CASE \E i : op' = [op EXCEPT !.pc = "f_inode", !.i = i]
      BY <1>t, <3>2 DEF OpRec
    <3> QED
      BY <2>2, <3>1, <3>2
  <2>4. \A s \in Slots : dDir[s] = ZeroEntry
    <3>1. CASE op.pc = "f_alloc"
      <4>1. \A s \in Slots : s \div DirPerSector < op.i
        BY <2>1, <3>1, SlotBlock, FsAssumption DEF BlockIdx
      <4> QED
        BY <3>1, <4>1 DEF DirectoryInv
    <3> QED
      BY <2>1, <3>1 DEF DirectoryInv
  <2> QED
    BY <2>1, <2>3, <2>4 DEF DirectoryInv, Running, Formatting
<1>6. CASE FormatSuper
  <2>1. op.pc = "f_super" /\ dDir' = dDir /\ op'.pc = "idle"
    BY <1>6, <1>w, NoOpType DEF FormatSuper
  <2>2. \A s \in Slots : dDir'[s] = ZeroEntry
    BY <2>1 DEF DirectoryInv
  <2>3. UsedSlots' = {}
    BY <2>2 DEF UsedSlots, ZeroEntry
  <2>4. (LeadsToFiles(inodes) /\ EntriesDiffer /\ Naming)'
    BY <2>1, <2>3 DEF LeadsToFiles, EntriesDiffer, Naming
  <2> QED
    BY <2>1, <2>4, DirRunning DEF Running, PCs, Formatting
<1> QED
  BY <1>1, <1>2, <1>3, <1>4, <1>5, <1>6, <1>f, <1>w
     DEF fs_format, fs_init, MountFails, NotReady, FormatUnalloc

\* With every entry readable, a name that is not found is no entry's name, and
\* one that is found is that of a used slot.
LEMMA FindWhole ==
    ASSUME DirClean, NEW n \in Names
    PROVE  /\ find_dir_entry(n, {}) < 0 => \A s \in UsedSlots : dDir[s].name # n
           /\ find_dir_entry(n, {}) >= 0 =>
                  \E s \in UsedSlots : dDir[s].inode = find_dir_entry(n, {})
<1> DEFINE hits == {s \in Slots \ {} : dDir[s].name = n}
<1>1. CASE hits = {}
  <2>1. find_dir_entry(n, {}) = -1
    BY <1>1 DEF find_dir_entry
  <2> QED
    BY <1>1, <2>1 DEF UsedSlots
<1>2. CASE hits # {}
  <2>1. Lowest(hits) \in hits
    BY <1>2, LowestOfSet, SlotsAreNat
  <2>2. find_dir_entry(n, {}) = dDir[Lowest(hits)].inode
    BY <1>2 DEF find_dir_entry
  <2>3. Lowest(hits) \in UsedSlots
    BY <2>1, FsAssumption DEF UsedSlots
  <2>4. dDir[Lowest(hits)].inode \in Nat
    BY <2>1, FsAssumption DEF DirClean, Entry, InodeIdx
  <2> QED
    BY <2>2, <2>3, <2>4
<1> QED
  BY <1>1, <1>2

\* fs_create() keeps the directory's invariant.
LEMMA DirCreate ==
    ASSUME MetaInv, MetaInv', OwnershipInv, DirectoryInv, Dependable, fs_create
    PROVE  DirectoryInv'
<1>t. MetaTypeOK /\ op \in OpRec /\ op' \in OpRec /\ inodes \in Table
      /\ op.ino \in InodeIdx /\ op.slot \in Slots
  BY DEF MetaInv, MetaTypeOK, Table, OpRec
<1>w. ~WriteFails /\ ~ReadFails /\ op.pc # "c_undo"
  BY <1>t, NoFails DEF WriteFails, ReadFails, Dependable, OwnershipInv, DiskFollows
<1>h. \A hidden \in Unreadable : hidden = {}
  BY DEF Unreadable, Dependable
<1>r. "idle" \in Running /\ "c_dir" \in Running
  BY DEF Running, PCs, Formatting
<1>1. CASE \E n \in Names : CreateStart(n)
  <2>1. PICK n \in Names : CreateStart(n)
    BY <1>1
  <2> DEFINE i == Lowest(FreeInodes)
             f == Lowest(FreeSlots({}))
  <2>2. /\ op.pc = "idle" /\ find_dir_entry(n, {}) < 0
        /\ FreeSlots({}) # {} /\ FreeInodes # {}
        /\ inodes' = [inodes EXCEPT ![i] = FileInode]
        /\ op' = [At("c_dir") EXCEPT !.ino = i, !.name = n, !.slot = f]
        /\ dDir' = dDir /\ torn' = torn
    BY <1>w, <1>h, <2>1 DEF CreateStart, SaveInodeFails
  <2>3. i \in InodeIdx \ {0} /\ inodes[i].mode = "FREE"
    BY <2>2, FreeInodeType DEF FreeInodes
  <2>4. f \in Slots /\ dDir[f].name = NoName
    BY <2>2, LowestOfSet, SlotsAreNat DEF FreeSlots
  <2> HIDE DEF i, f
  <2>5. op'.pc = "c_dir" /\ op'.ino = i /\ op'.name = n /\ op'.slot = f
    <3>1. At("c_dir") \in OpRec /\ At("c_dir").pc = "c_dir"
      BY AtType DEF PCs
    <3> QED
      BY <2>2, <3>1 DEF OpRec
  <2>6. ASSUME ~torn' PROVE (LeadsToFiles(inodes) /\ EntriesDiffer /\ Naming)'
    <3>1. DirClean /\ LeadsToFiles(inodes) /\ EntriesDiffer
      BY <1>r, <2>2, <2>6, RunningFacts DEF DirectoryInv, Dependable
    <3>2. UsedSlots' = UsedSlots /\ UsedSlots \subseteq Slots
      BY <2>2 DEF UsedSlots
    <3>3. ASSUME NEW s \in UsedSlots
          PROVE  /\ dDir[s].inode \in InodeIdx \ {0} /\ dDir[s].inode # i
                 /\ inodes[dDir[s].inode].mode = "FILE"
      <4>1. dDir[s].inode \in InodeIdx
        BY <3>1, <3>2 DEF DirClean, Entry
      <4>2. dDir[s].inode # 0 /\ inodes[dDir[s].inode].mode = "FILE"
        BY <2>2, <3>1 DEF LeadsToFiles, BeingDeleted
      <4> QED
        BY <2>3, <4>1, <4>2
    <3>4. \A s \in UsedSlots : dDir[s].name # n
      BY <2>2, <3>1, FindWhole
    <3>5. inodes'[i].mode = "FILE"
      BY <1>t, <2>2, <2>3 DEF Table, FileInode, ZeroInode
    <3>6. \A s \in UsedSlots : inodes'[dDir[s].inode].mode = "FILE"
      BY <1>t, <2>2, <3>3 DEF Table
    <3>7. LeadsToFiles(inodes)'
      BY <2>2, <3>2, <3>3, <3>6 DEF LeadsToFiles
    <3>8. EntriesDiffer'
      BY <2>2, <3>1, <3>2 DEF EntriesDiffer
    <3>9. f \notin UsedSlots /\ n # NoName
      BY <2>4, FsAssumption DEF UsedSlots
    <3>10. Naming'
      BY <2>2, <2>3, <2>5, <3>2, <3>3, <3>4, <3>5, <3>9 DEF Naming
    <3> QED
      BY <3>7, <3>8, <3>10
  <2> QED
    BY <1>r, <2>5, <2>6, DirRunning
<1>2. CASE CreateEntry
  <2> DEFINE e == [name |-> op.name, inode |-> op.ino]
  <2>1. /\ op.pc = "c_dir" /\ op' = NoOp /\ inodes' = inodes /\ torn' = torn
        /\ dDir' = [dDir EXCEPT ![op.slot] = e]
    BY <1>2, <1>w DEF CreateEntry, DirWriteOk, DirWriteFails, EntrySaved
  <2>2. ASSUME ~torn' PROVE (LeadsToFiles(inodes) /\ EntriesDiffer /\ Naming)'
    <3>1. DirClean /\ LeadsToFiles(inodes) /\ EntriesDiffer /\ Naming
      BY <1>r, <2>1, <2>2, RunningFacts DEF DirectoryInv, Dependable
    <3>2. UsedSlots' = UsedSlots \cup {op.slot} /\ UsedSlots \subseteq Slots
      BY <1>t, <2>1, <3>1 DEF UsedSlots, Naming, MetaTypeOK
    <3>3. \A s \in UsedSlots : dDir'[s] = dDir[s]
      BY <1>t, <2>1, <3>1, <3>2 DEF Naming, MetaTypeOK
    <3>4. dDir'[op.slot].name = op.name /\ dDir'[op.slot].inode = op.ino
      BY <1>t, <2>1 DEF MetaTypeOK
    <3>5. op'.pc = "idle"
      BY <2>1, NoOpType
    <3>6. LeadsToFiles(inodes)'
      BY <2>1, <3>1, <3>2, <3>3, <3>4 DEF LeadsToFiles, BeingDeleted, Naming
    <3>7. EntriesDiffer'
      BY <2>1, <3>1, <3>2, <3>3, <3>4 DEF EntriesDiffer, Naming
    <3> QED
      BY <3>5, <3>6, <3>7 DEF Naming
  <2> QED
    BY <1>r, <2>1, <2>2, DirRunning, NoOpType
<1> QED
  BY <1>1, <1>2, <1>w DEF fs_create, CreateUndo

\* fs_delete() keeps the directory's invariant.
LEMMA DirDelete ==
    ASSUME MetaInv, MetaInv', OwnershipInv, DirectoryInv, Dependable, fs_delete
    PROVE  DirectoryInv'
<1>t. MetaTypeOK /\ op \in OpRec /\ op' \in OpRec /\ inodes \in Table
      /\ op.ino \in InodeIdx
  BY DEF MetaInv, MetaTypeOK, Table, OpRec
<1>w. ~WriteFails /\ ~ReadFails
  BY <1>t, NoFails DEF WriteFails, ReadFails, Dependable
<1>h. \A hidden \in Unreadable : hidden = {}
  BY DEF Unreadable, Dependable
<1>r. "idle" \in Running /\ "d_inode" \in Running /\ "d_dir" \in Running
  BY DEF Running, PCs, Formatting
<1>1. CASE \E n \in Names : DeleteStart(n)
  <2>1. PICK n \in Names : DeleteStart(n)
    BY <1>1
  <2> DEFINE i == find_dir_entry(n, {})
  <2>2. /\ op.pc = "idle" /\ i > 0
        /\ inodes' = [inodes EXCEPT ![i] = ZeroInode]
        /\ op' = [At("d_inode") EXCEPT !.ino = i]
        /\ dDir' = dDir /\ torn' = torn
    BY <1>w, <1>h, <2>1 DEF DeleteStart, SaveBitmapFails
  <2> HIDE DEF i
  <2>3. op'.pc = "d_inode" /\ op'.ino = i
    <3>1. At("d_inode") \in OpRec /\ At("d_inode").pc = "d_inode"
      BY AtType DEF PCs
    <3> QED
      BY <2>2, <3>1 DEF OpRec
  <2>4. ASSUME ~torn' PROVE (LeadsToFiles(inodes) /\ EntriesDiffer /\ Naming)'
    <3>1. DirClean /\ LeadsToFiles(inodes) /\ EntriesDiffer
      BY <1>r, <2>2, <2>4, RunningFacts DEF DirectoryInv, Dependable
    <3>2. UsedSlots' = UsedSlots /\ UsedSlots \subseteq Slots
      BY <2>2 DEF UsedSlots
    <3>3. \A s \in UsedSlots : dDir[s].inode \in InodeIdx
      BY <3>1, <3>2 DEF DirClean, Entry
    <3>4. \A j \in InodeIdx : j # i => inodes'[j] = inodes[j]
      BY <1>t, <2>2 DEF Table
    <3>5. LeadsToFiles(inodes)'
      BY <2>2, <2>3, <3>1, <3>2, <3>3, <3>4 DEF LeadsToFiles, BeingDeleted
    <3>6. EntriesDiffer'
      BY <2>2, <3>1, <3>2 DEF EntriesDiffer
    <3> QED
      BY <2>3, <3>5, <3>6 DEF Naming
  <2> QED
    BY <1>r, <2>3, <2>4, DirRunning
<1>2. CASE DeleteInode
  <2>1. /\ op.pc = "d_inode" /\ op' = [op EXCEPT !.pc = "d_dir"]
        /\ inodes' = inodes /\ dDir' = dDir /\ torn' = torn
    BY <1>2, <1>w DEF DeleteInode, SaveInodeFails, memory
  <2>2. op'.pc = "d_dir" /\ op'.ino = op.ino
    BY <1>t, <2>1 DEF OpRec
  <2>3. UsedSlots' = UsedSlots
    BY <2>1 DEF UsedSlots
  <2>4. ASSUME ~torn' PROVE (LeadsToFiles(inodes) /\ EntriesDiffer /\ Naming)'
    <3>1. LeadsToFiles(inodes) /\ EntriesDiffer
      BY <1>r, <2>1, <2>4 DEF DirectoryInv
    <3> QED
      BY <2>1, <2>2, <2>3, <3>1 DEF LeadsToFiles, EntriesDiffer, BeingDeleted, Naming
  <2> QED
    BY <1>r, <2>2, <2>4, DirRunning
<1>3. CASE DeleteEntry
  <2> DEFINE hits == {s \in UsedSlots : dDir[s].inode = op.ino}
  <2>1. /\ op.pc = "d_dir" /\ op' = NoOp /\ inodes' = inodes /\ torn' = torn
        /\ IF hits = {} THEN dDir' = dDir
           ELSE dDir' = [dDir EXCEPT ![Lowest(hits)] = ZeroEntry]
    <3>1. hits = {s \in Slots \ {} : dDir[s].name # NoName /\ dDir[s].inode = op.ino}
      BY DEF UsedSlots
    <3> QED
      BY <1>3, <1>h, <1>w, <3>1 DEF DeleteEntry, memory, DirWriteOk, DirWriteFails, EntrySaved
  <2>2. hits # {} => Lowest(hits) \in hits
    BY LowestOfSet, SlotsAreNat DEF UsedSlots
  <2>3. ASSUME ~torn' PROVE (LeadsToFiles(inodes) /\ EntriesDiffer /\ Naming)'
    <3>1. LeadsToFiles(inodes) /\ EntriesDiffer
      BY <1>r, <2>1, <2>3 DEF DirectoryInv
    <3>2. UsedSlots' = UsedSlots \ hits /\ \A s \in UsedSlots \ hits : dDir'[s] = dDir[s]
      <4>1. CASE hits = {}
        BY <2>1, <4>1 DEF UsedSlots
      <4>2. CASE hits # {}
        <5>1. hits = {Lowest(hits)}
          BY <2>2, <4>2, <3>1 DEF EntriesDiffer
        <5>2. dDir' = [dDir EXCEPT ![Lowest(hits)] = ZeroEntry] /\ Lowest(hits) \in Slots
          BY <2>1, <2>2, <4>2 DEF UsedSlots
        <5> HIDE DEF hits
        <5>3. dDir'[Lowest(hits)].name = NoName
          BY <1>t, <5>2 DEF MetaTypeOK, ZeroEntry
        <5>4. \A s \in Slots \ {Lowest(hits)} : dDir'[s] = dDir[s]
          BY <1>t, <5>2 DEF MetaTypeOK
        <5> QED
          BY <5>1, <5>2, <5>3, <5>4 DEF UsedSlots
      <4> QED
        BY <4>1, <4>2
    <3>3. op'.pc = "idle"
      BY <2>1, NoOpType
    <3>4. LeadsToFiles(inodes)'
      BY <2>1, <3>1, <3>2 DEF LeadsToFiles, BeingDeleted
    <3>5. EntriesDiffer'
      BY <3>1, <3>2 DEF EntriesDiffer
    <3> QED
      BY <3>3, <3>4, <3>5 DEF Naming
  <2> QED
    BY <1>r, <2>1, <2>3, DirRunning, NoOpType
<1> QED
  BY <1>1, <1>2, <1>3 DEF fs_delete

\* Opening, closing, reading and writing leave the directory alone.
LEMMA DirUse ==
    ASSUME MetaInv, MetaInv', OwnershipInv, DirectoryInv, Dependable,
           fs_open \/ fs_close \/ fs_read \/ fs_write
    PROVE  DirectoryInv'
<1>t. MetaTypeOK /\ op \in OpRec /\ op' \in OpRec /\ inodes \in Table
  BY DEF MetaInv, MetaTypeOK, Table
<1>w. ~WriteFails /\ ~ReadFails /\ op.pc \notin {"w_unalloc", "w_inode"}
  BY <1>t, NoFails DEF WriteFails, ReadFails, Dependable, OwnershipInv, DiskFollows
<1>r. {"idle", "w_loop", "w_zero", "w_bitmap"} \subseteq Running \ {"c_dir", "d_inode", "d_dir"}
  BY DEF Running, PCs, Formatting
<1>1. CASE fs_open \/ fs_close \/ fs_read
  <2>1. op' = op /\ op.pc = "idle" /\ torn' = torn /\ dDir' = dDir /\ inodes' = inodes
    BY <1>1 DEF fs_open, fs_close, fs_read, Open, Close, Read, disk
  <2> QED
    BY <1>r, <2>1, DirFrame
<1>2. CASE \E fd \in HandleIdx, buf \in Buffers : WriteStart(fd, buf)
  <2>1. PICK fd \in HandleIdx, buf \in Buffers : WriteStart(fd, buf)
    BY <1>2
  <2>2. /\ op.pc = "idle" /\ torn' = torn /\ dDir' = dDir /\ inodes' = inodes
        /\ dInodes' = dInodes
        /\ \E b : op' = [At("w_loop") EXCEPT !.fd = fd, !.buf = b]
    BY <2>1, Zenon DEF WriteStart, memory, disk
  <2>3. op'.pc = "w_loop"
    <3>1. At("w_loop") \in OpRec /\ At("w_loop").pc = "w_loop"
      BY AtType DEF PCs
    <3> QED
      BY <2>2, <3>1 DEF OpRec
  <2>4. dInodes = inodes
    BY <1>r, <2>2, RunningFacts DEF Dependable
  <2> QED
    BY <1>r, <2>2, <2>3, <2>4, DirFrame
<1>3. CASE WriteAlloc
  <2>1. /\ op.pc = "w_loop" /\ torn' = torn /\ dDir' = dDir /\ inodes' = inodes
        /\ dInodes' = dInodes
        /\ \E s : op' = [op EXCEPT !.pc = "w_zero", !.sector = s]
    BY <1>3, <1>w, Zenon DEF WriteAlloc, WMore, AllocBitmap, SaveBitmapFails
  <2>2. op'.pc = "w_zero"
    BY <1>t, <2>1 DEF OpRec
  <2>3. \A i \in InodeIdx : dInodes[i].mode = inodes[i].mode
    BY <2>1 DEF DirectoryInv
  <2> QED
    BY <1>r, <2>1, <2>2, <2>3, DirFrame
<1>4. CASE WriteZero
  <2>1. /\ op.pc = "w_zero" /\ torn' = torn /\ dDir' = dDir /\ dInodes' = dInodes
        /\ inodes' = [inodes EXCEPT ![WNode].direct[WBlock] = op.sector]
        /\ op' = [op EXCEPT !.pc = "w_loop"]
    BY <1>4, <1>w DEF WriteZero, DataWriteFails
  <2>2. op'.pc = "w_loop"
    BY <1>t, <2>1 DEF OpRec
  <2>3. \A i \in InodeIdx : inodes'[i].mode = inodes[i].mode
    BY <1>t, <2>1 DEF Table, Inode
  <2>4. \A i \in InodeIdx : dInodes[i].mode = inodes[i].mode
    BY <2>1 DEF DirectoryInv
  <2> QED
    BY <1>r, <2>1, <2>2, <2>3, <2>4, DirFrame
<1>5. CASE WriteBlock
  <2>1. /\ op.pc = "w_loop" /\ torn' = torn /\ dDir' = dDir /\ inodes' = inodes
        /\ dInodes' = dInodes /\ op' = [op EXCEPT !.done = op.done + WChunk]
    BY <1>5, <1>w DEF WriteBlock, WMore, memory, DataWriteFails
  <2>2. op'.pc = "w_loop"
    BY <1>t, <2>1 DEF OpRec
  <2>3. \A i \in InodeIdx : dInodes[i].mode = inodes[i].mode
    BY <2>1 DEF DirectoryInv
  <2> QED
    BY <1>r, <2>1, <2>2, <2>3, DirFrame
<1>6. CASE WriteInode
  <2>1. op.pc = "w_loop" /\ torn' = torn /\ dDir' = dDir /\ op'.pc = "w_bitmap"
    BY <1>6, <1>w, AtType DEF WriteInode, WMore, PCs
  <2>2. WNode \in InodeIdx
    BY <2>1, ChunkType DEF Writing
  <2>3. \A i \in InodeIdx : inodes'[i].mode = inodes[i].mode
    BY <1>6, <1>t, <2>2 DEF WriteInode, Table, Inode
  <2> QED
    BY <1>r, <2>1, <2>3, DirFrame
<1>7. CASE WriteBitmap
  <2>1. op.pc = "w_bitmap" /\ torn' = torn /\ dDir' = dDir /\ op'.pc = "idle" /\ inodes' = inodes
    BY <1>7, NoOpType DEF WriteBitmap, memory
  <2> QED
    BY <1>r, <2>1, DirFrame
<1> QED
  BY <1>1, <1>2, <1>3, <1>4, <1>5, <1>6, <1>7, <1>w DEF fs_write, WriteUnalloc

\* A power failure outside fs_delete() leaves a sound directory on the disk.
LEMMA DirPower ==
    ASSUME MetaInv, OwnershipInv, DirectoryInv, Dependable, PowerFailure
    PROVE  DirectoryInv'
<1>1. /\ ready' = FALSE /\ op'.pc = "off" /\ op.pc # "off" /\ dDir' = dDir
      /\ dInodes' = dInodes /\ dSuper' = dSuper
      /\ torn' = (torn \/ op.pc \in {"d_inode", "d_dir"})
  BY AtType DEF PowerFailure, disk, PCs
<1>2. ASSUME ~torn', dSuper
      PROVE  (LeadsToFiles(dInodes) /\ EntriesDiffer)'
  <2>1. ~torn /\ op.pc \notin {"d_inode", "d_dir"}
    BY <1>1, <1>2
  <2>2. op.pc \in Running
    BY <1>1, <1>2 DEF MetaInv, MetaTypeOK, FormatOrder, OpRec, Running, OwnershipInv,
                      DiskFollows, Dependable
  <2>3. DirClean /\ LeadsToFiles(inodes) /\ EntriesDiffer
    BY <2>1, <2>2, RunningFacts DEF DirectoryInv, Dependable
  <2>4. \A i \in InodeIdx : dInodes[i].mode = inodes[i].mode
    <3>1. op.pc \in {"idle", "c_dir", "w_bitmap", "w_loop", "w_zero"}
      BY <2>1, <2>2, RunningFacts DEF Running, Formatting, PCs, Dependable
    <3> QED
      BY <2>2, <3>1, RunningFacts DEF DirectoryInv, Dependable
  <2>5. UsedSlots' = UsedSlots
    BY <1>1 DEF UsedSlots
  <2>6. \A s \in UsedSlots : dDir[s].inode \in InodeIdx
    BY <2>3 DEF UsedSlots, DirClean, Entry
  <2>7. LeadsToFiles(dInodes)'
    BY <1>1, <2>1, <2>3, <2>4, <2>5, <2>6 DEF LeadsToFiles, BeingDeleted
  <2> QED
    BY <1>1, <2>3, <2>5, <2>7 DEF EntriesDiffer
<1> QED
  BY <1>1, <1>2 DEF DirectoryInv, Running

\* Every step keeps the directory's invariant.
LEMMA DirStep ==
    ASSUME MetaInv, MetaInv', OwnershipInv, DirectoryInv, Dependable,
           "superread" \notin Faults, [Next]_vars
    PROVE  DirectoryInv'
<1>1. CASE UNCHANGED vars
  BY <1>1 DEF vars, DirectoryInv, LeadsToFiles, EntriesDiffer, Naming, UsedSlots, BeingDeleted
<1> QED
  BY <1>1, DirBoot, DirCreate, DirDelete, DirUse, DirPower DEF Next

\* A blank machine has no directory yet.
LEMMA DirInit == Init => DirectoryInv
<1>1. Init => op.pc = "off" /\ ~ready /\ ~dSuper
  BY AtType DEF Init, PCs
<1> QED
  BY <1>1 DEF DirectoryInv, Running

(* On a disk that fails no access, every entry of the directory leads to a live
   file and no two have a name or a file in common: through any interleaving of
   creations and deletions, and any power failure but one inside fs_delete(). *)
THEOREM DirectoryIsSound ==
    ASSUME "superread" \notin Faults, Dependable
    PROVE  Spec => []DirectorySound
<1>1. Init => MetaInv /\ OwnershipInv /\ DirectoryInv
  BY MetaInit, OwnInit, DirInit
<1>2. MetaInv /\ OwnershipInv /\ DirectoryInv /\ [Next]_vars
          => MetaInv' /\ OwnershipInv' /\ DirectoryInv'
  BY MetaStep, OwnStep, DirStep DEF Dependable
<1>3. DirectoryInv => DirectorySound
  BY DEF DirectoryInv, DirectorySound
<1> QED
  BY <1>1, <1>2, <1>3, PTL DEF Spec

-----------------------------------------------------------------------------
(* What is used *)

\* A sector is used by a table if one of its blocks is that sector.
LEMMA UsedByForm ==
    ASSUME NEW tbl, NEW s
    PROVE  s \in UsedBy(tbl) <=>
               s # 0 /\ \E i \in InodeIdx, b \in BlockIdx : tbl[i].direct[b] = s
<1>1. s \in UsedBy(tbl) <=> \E i \in InodeIdx : s \in SectorsOf(tbl[i])
  BY DEF UsedBy
<1>2. ASSUME NEW i PROVE s \in SectorsOf(tbl[i]) <=> s # 0 /\ \E b \in BlockIdx : tbl[i].direct[b] = s
  BY DEF SectorsOf
<1> QED
  BY <1>1, <1>2

\* Inodes with the same sectors use the same sectors.
LEMMA UsedBySame ==
    ASSUME NEW tbl, NEW new,
           \A i \in InodeIdx : SectorsOf(new[i]) = SectorsOf(tbl[i])
    PROVE  UsedBy(new) = UsedBy(tbl)
  BY DEF UsedBy

\* A block without a sector gets one.
LEMMA UsedByAdd ==
    ASSUME NEW tbl \in Table, NEW i \in InodeIdx, NEW b \in BlockIdx, NEW s \in Sectors,
           tbl[i].direct[b] = 0
    PROVE  UsedBy([tbl EXCEPT ![i].direct[b] = s]) = UsedBy(tbl) \cup {s}
<1> DEFINE new == [tbl EXCEPT ![i].direct[b] = s]
<1>1. \A j \in InodeIdx, c \in BlockIdx :
          new[j].direct[c] = IF j = i /\ c = b THEN s ELSE tbl[j].direct[c]
  BY DEF Table, Inode
<1>2. s # 0
  BY FsAssumption DEF Sectors
<1> HIDE DEF new
<1>3. ASSUME NEW r PROVE r \in UsedBy(new) <=> r \in UsedBy(tbl) \cup {s}
  <2>1. ASSUME r \in UsedBy(new) PROVE r \in UsedBy(tbl) \cup {s}
    BY <1>1, <2>1, UsedByForm
  <2>2. ASSUME r \in UsedBy(tbl) PROVE r \in UsedBy(new)
    BY <1>1, <2>2, UsedByForm
  <2>3. s \in UsedBy(new)
    BY <1>1, <1>2, UsedByForm
  <2> QED
    BY <2>1, <2>2, <2>3
<1> QED
  BY <1>3 DEF new

\* An inode is cleared: its sectors are no longer used, and only they.
LEMMA UsedByDrop ==
    ASSUME NEW tbl \in Table, NEW i \in InodeIdx, NoSharedSector(tbl)
    PROVE  UsedBy([tbl EXCEPT ![i] = ZeroInode]) = UsedBy(tbl) \ SectorsOf(tbl[i])
<1> DEFINE new == [tbl EXCEPT ![i] = ZeroInode]
<1>1. \A j \in InodeIdx : SectorsOf(new[j]) = IF j = i THEN {} ELSE SectorsOf(tbl[j])
  BY ZeroInodeType DEF Table
<1>2. \A j \in InodeIdx : j # i => SectorsOf(tbl[j]) \cap SectorsOf(tbl[i]) = {}
  BY DEF NoSharedSector, SectorsOf
<1> HIDE DEF new
<1>3. UsedBy(new) = UsedBy(tbl) \ SectorsOf(tbl[i])
  BY <1>1, <1>2 DEF UsedBy
<1> QED
  BY <1>3 DEF new

\* What a running system has to show of LeakInv.
LEMMA LeakRunning ==
    ASSUME op'.pc \in Running, ~torn', NoStale',
           bitmap' = UsedBy(inodes') \cup (IF op'.pc = "w_zero" THEN {op'.sector} ELSE {}),
           \A i \in InodeIdx : inodes'[i].mode = "FREE" => SectorsOf(inodes'[i]) = {},
           op'.pc = "w_zero" => op'.done < Len(op'.buf),
           op'.pc \in {"d_inode", "d_dir"} => inodes'[op'.ino].mode = "FREE",
           \A i \in InodeIdx \ {0} :
               inodes'[i].mode = "FILE" => Named(i)' \/ (op'.pc = "c_dir" /\ op'.ino = i)
    PROVE  LeakInv'
<1>1. bitmap' = UsedBy(inodes') \cup Pending'
  BY DEF Pending, Running, Formatting
<1> QED
  BY <1>1 DEF LeakInv, Running, Formatting

\* A running system's step outside of fs_create() and fs_delete() that leaves the
\* directory and the inodes' modes alone.
LEMMA LeakFrame ==
    ASSUME LeakInv, op.pc \in Running \ {"c_dir"}, NoStale', torn' = torn, dDir' = dDir,
           op'.pc \in Running \ {"c_dir", "d_inode", "d_dir"},
           bitmap' = UsedBy(inodes') \cup (IF op'.pc = "w_zero" THEN {op'.sector} ELSE {}),
           \A i \in InodeIdx : inodes'[i].mode = inodes[i].mode,
           \A i \in InodeIdx : inodes'[i].mode = "FREE" => SectorsOf(inodes'[i]) = {},
           op'.pc = "w_zero" => op'.done < Len(op'.buf)
    PROVE  LeakInv'
<1>1. \A i \in InodeIdx \ {0} : inodes'[i].mode = "FILE" => Named(i)
  BY DEF LeakInv
<1>2. \A i : Named(i)' <=> Named(i)
  BY DEF Named, UsedSlots
<1>3. ~torn'
  BY DEF LeakInv
<1> QED
  BY <1>1, <1>2, <1>3, LeakRunning

\* fs_init() and fs_format() lose no sector.
LEMMA LeakBoot ==
    ASSUME MetaInv, MetaInv', OwnershipInv, LeakInv, Dependable, NoStale',
           "superread" \notin Faults, fs_format \/ fs_init
    PROVE  LeakInv'
<1>t. /\ MetaTypeOK /\ op \in OpRec /\ op' \in OpRec /\ inodes \in Table
      /\ op.i \in Nat /\ bitmap \in SUBSET Sectors
  BY DEF MetaInv, MetaTypeOK, OpRec, Table
<1>f. ~Fails /\ op.pc # "dead" /\ op.pc # "f_unalloc"
  BY <1>t, NoFails DEF Dependable, OwnershipInv, DiskFollows
<1>w. ~WriteFails /\ ~ReadFails /\ ~MountReadFails
  BY <1>f DEF WriteFails, ReadFails, MountReadFails
<1>i. 0 \in InodeIdx
  BY FsAssumption DEF InodeIdx
<1>r. "idle" \in Running
  BY DEF Running, PCs, Formatting
<1>l. ~torn
  BY DEF LeakInv
<1>1. CASE Mount
  <2>1. /\ op.pc = "off" /\ dSuper /\ inodes' = dInodes /\ bitmap' = dBitmap
        /\ op'.pc = "idle" /\ dDir' = dDir /\ torn' = torn
    BY <1>1, NoOpType DEF Mount, disk
  <2>2. /\ dBitmap = UsedBy(dInodes)
        /\ \A i \in InodeIdx : dInodes[i].mode = "FREE" => SectorsOf(dInodes[i]) = {}
        /\ \A i \in InodeIdx \ {0} : dInodes[i].mode = "FILE" => Named(i)
    BY <2>1 DEF LeakInv
  <2>3. \A i : Named(i)' <=> Named(i)
    BY <2>1 DEF Named, UsedSlots
  <2> QED
    BY <1>l, <1>r, <2>1, <2>2, <2>3, LeakRunning
<1>2. CASE FormatStart
  <2>1. /\ inodes' = [[i \in InodeIdx |-> ZeroInode] EXCEPT ![0] = FileInode]
        /\ bitmap' = {} /\ op'.pc = "f_alloc" /\ torn' = torn
    BY <1>2, AtType DEF FormatStart, PCs
  <2>2. /\ \A i \in InodeIdx : inodes'[i] = IF i = 0 THEN FileInode ELSE ZeroInode
        /\ inodes'[0] = FileInode
    BY <1>i, <2>1
  <2>3. \A i \in InodeIdx : SectorsOf(inodes'[i]) = {}
    BY <2>2, ZeroInodeType
  <2>4. bitmap' = UsedBy(inodes') \cup Pending'
    BY <2>1, <2>3 DEF UsedBy, Pending
  <2>5. /\ inodes'[0].mode = "FILE" /\ \A i \in InodeIdx \ {0} : inodes'[i].mode = "FREE"
        /\ \A b \in BlockIdx : inodes'[0].direct[b] = 0
    BY <2>2 DEF FileInode, ZeroInode
  <2> QED
    BY <1>l, <2>1, <2>3, <2>4, <2>5 DEF LeakInv, Running, Formatting
<1>3. CASE FormatAlloc
  <2> DEFINE new == Lowest(FreeSectors)
  <2>1. /\ op.pc = "f_alloc" /\ op.i < Blocks /\ torn' = torn /\ inodes' = inodes
        /\ bitmap' = bitmap \cup {new}
        /\ op' = [op EXCEPT !.pc = "f_zero", !.sector = new]
    BY <1>3, <1>w, Zenon DEF FormatAlloc, AllocBitmap, SaveBitmapFails
  <2> HIDE DEF new
  <2>2. op'.pc = "f_zero" /\ op'.sector = new /\ op'.i = op.i
    BY <1>t, <2>1 DEF OpRec
  <2>3. bitmap' = UsedBy(inodes') \cup Pending'
    BY <2>1, <2>2 DEF LeakInv, Pending
  <2> QED
    BY <1>l, <2>1, <2>2, <2>3 DEF LeakInv, Running, Formatting
<1>4. CASE FormatZero
  <2>1. /\ op.pc = "f_zero" /\ torn' = torn /\ bitmap' = bitmap
        /\ inodes' = [inodes EXCEPT ![0].direct[op.i] = op.sector]
        /\ op' = [op EXCEPT !.pc = "f_alloc", !.i = op.i + 1]
    BY <1>4, <1>w DEF FormatZero
  <2>2. op'.pc = "f_alloc" /\ op'.i = op.i + 1
    BY <1>t, <2>1 DEF OpRec
  <2>3. op.i \in BlockIdx /\ inodes[0].direct[op.i] = 0
    BY <1>t, <2>1, FsAssumption DEF LeakInv, BlockIdx
  <2>4. op.sector \in Sectors
    BY <1>l, <1>t, <2>1 DEF OwnershipInv, FreshSector
  <2>5. UsedBy(inodes') = UsedBy(inodes) \cup {op.sector}
    <3>1. UsedBy([inodes EXCEPT ![0].direct[op.i] = op.sector]) = UsedBy(inodes) \cup {op.sector}
      BY <1>i, <1>t, <2>3, <2>4, UsedByAdd
    <3> QED
      BY <2>1, <3>1
  <2>6. bitmap' = UsedBy(inodes') \cup Pending'
    BY <2>1, <2>2, <2>5 DEF LeakInv, Pending
  <2>7. /\ \A i \in InodeIdx : inodes'[i].mode = inodes[i].mode
        /\ \A i \in InodeIdx \ {0} : inodes'[i] = inodes[i]
        /\ \A b \in BlockIdx : b # op.i => inodes'[0].direct[b] = inodes[0].direct[b]
    BY <1>i, <1>t, <2>1 DEF Table, Inode
  <2>8. /\ inodes'[0].mode = "FILE" /\ \A i \in InodeIdx \ {0} : inodes'[i].mode = "FREE"
        /\ \A i \in InodeIdx : inodes'[i].mode = "FREE" => SectorsOf(inodes'[i]) = {}
    BY <1>i, <2>1, <2>7 DEF LeakInv, Formatting
  <2>9. \A b \in BlockIdx : b >= op.i + 1 => inodes'[0].direct[b] = 0
    <3> SUFFICES ASSUME NEW b \in BlockIdx, b >= op.i + 1 PROVE inodes'[0].direct[b] = 0
      OBVIOUS
    <3>1. b \in Nat /\ b >= op.i /\ b # op.i
      BY <1>t, FsAssumption DEF BlockIdx
    <3> QED
      BY <2>1, <2>7, <3>1 DEF LeakInv
  <2> QED
    BY <1>l, <2>1, <2>2, <2>6, <2>8, <2>9 DEF LeakInv, Running, Formatting
<1>5. CASE FormatInode \/ FormatBitmap
  <2>1. op.pc \in {"f_alloc", "f_inode", "f_bitmap"} /\ torn' = torn /\ UNCHANGED memory
    BY <1>5, Zenon DEF FormatInode, FormatBitmap
  <2>2. \/ op' = At("f_bitmap") \/ op' = At("f_super")
        \/ \E i : op' = [op EXCEPT !.pc = "f_inode", !.i = i]
    BY <1>5, <1>w, Zenon DEF FormatInode, FormatBitmap, SaveInodeFails, SaveBitmapFails
  <2>3. op'.pc \in {"f_bitmap", "f_super", "f_inode"}
    <3>1. CASE op' = At("f_bitmap") \/ op' = At("f_super")
      <4>1. "f_bitmap" \in PCs /\ "f_super" \in PCs
        BY DEF PCs
      <4> QED
        BY <3>1, <4>1, AtType
    <3>2. CASE \E i : op' = [op EXCEPT !.pc = "f_inode", !.i = i]
      BY <1>t, <3>2 DEF OpRec
    <3> QED
      BY <2>2, <3>1, <3>2
  <2>4. Pending' = {} /\ Pending = {}
    BY <2>1, <2>3 DEF Pending
  <2> QED
    BY <1>l, <2>1, <2>3, <2>4 DEF LeakInv, Running, Formatting, memory
<1>6. CASE FormatSuper
  <2>1. /\ op.pc = "f_super" /\ op'.pc = "idle" /\ torn' = torn
        /\ inodes' = inodes /\ bitmap' = bitmap
    BY <1>6, <1>w, NoOpType DEF FormatSuper
  <2>2. bitmap' = UsedBy(inodes') /\ \A i \in InodeIdx \ {0} : inodes'[i].mode = "FREE"
    BY <2>1 DEF LeakInv, Pending, Formatting
  <2>3. \A i \in InodeIdx : inodes'[i].mode = "FREE" => SectorsOf(inodes'[i]) = {}
    BY <2>1 DEF LeakInv
  <2> QED
    BY <1>l, <1>r, <2>1, <2>2, <2>3, LeakRunning
<1> QED
  BY <1>1, <1>2, <1>3, <1>4, <1>5, <1>6, <1>f, <1>w
     DEF fs_format, fs_init, MountFails, NotReady, FormatUnalloc

\* fs_create() takes an inode without sectors and names it.
LEMMA LeakCreate ==
    ASSUME MetaInv, MetaInv', OwnershipInv, DirectoryInv, LeakInv, Dependable, NoStale',
           fs_create
    PROVE  LeakInv'
<1>t. MetaTypeOK /\ op \in OpRec /\ op' \in OpRec /\ inodes \in Table
      /\ op.ino \in InodeIdx /\ op.slot \in Slots
  BY DEF MetaInv, MetaTypeOK, Table, OpRec
<1>w. ~WriteFails /\ ~ReadFails /\ op.pc # "c_undo"
  BY <1>t, NoFails DEF WriteFails, ReadFails, Dependable, OwnershipInv, DiskFollows
<1>r. "idle" \in Running /\ "c_dir" \in Running
  BY DEF Running, PCs, Formatting
<1>l. ~torn
  BY DEF LeakInv
<1>1. CASE \E n \in Names : CreateStart(n)
  <2>1. PICK n \in Names : CreateStart(n)
    BY <1>1
  <2> DEFINE i == Lowest(FreeInodes)
  <2>2. /\ op.pc = "idle" /\ FreeInodes # {} /\ bitmap' = bitmap
        /\ inodes' = [inodes EXCEPT ![i] = FileInode]
        /\ \E f : op' = [At("c_dir") EXCEPT !.ino = i, !.name = n, !.slot = f]
        /\ dDir' = dDir /\ torn' = torn
    BY <1>w, <2>1, Zenon DEF CreateStart, SaveInodeFails
  <2>3. i \in InodeIdx \ {0} /\ inodes[i].mode = "FREE"
    BY <2>2, FreeInodeType DEF FreeInodes
  <2> HIDE DEF i
  <2>4. op'.pc = "c_dir" /\ op'.ino = i
    <3>1. At("c_dir") \in OpRec /\ At("c_dir").pc = "c_dir"
      BY AtType DEF PCs
    <3> QED
      BY <2>2, <3>1 DEF OpRec
  <2>5. inodes'[i] = FileInode /\ \A j \in InodeIdx : j # i => inodes'[j] = inodes[j]
    BY <1>t, <2>2, <2>3 DEF Table
  <2>6. /\ SectorsOf(inodes'[i]) = {} /\ SectorsOf(inodes[i]) = {}
    BY <2>3, <2>5, ZeroInodeType DEF LeakInv
  <2>7. bitmap' = UsedBy(inodes')
    <3>1. bitmap = UsedBy(inodes)
      BY <2>2 DEF LeakInv, Pending
    <3>2. \A j \in InodeIdx : SectorsOf(inodes'[j]) = SectorsOf(inodes[j])
      BY <2>5, <2>6
    <3> QED
      BY <2>2, <3>1, <3>2, UsedBySame
  <2>8. \A j \in InodeIdx : inodes'[j].mode = "FREE" => SectorsOf(inodes'[j]) = {}
    BY <2>5, <2>6 DEF LeakInv
  <2>9. \A j : Named(j)' <=> Named(j)
    BY <2>2 DEF Named, UsedSlots
  <2>10. \A j \in InodeIdx \ {0} : inodes'[j].mode = "FILE" => Named(j)' \/ j = i
    BY <1>r, <2>2, <2>5, <2>9 DEF LeakInv
  <2> QED
    BY <1>l, <1>r, <2>2, <2>4, <2>7, <2>8, <2>10, LeakRunning
<1>2. CASE CreateEntry
  <2> DEFINE e == [name |-> op.name, inode |-> op.ino]
  <2>1. /\ op.pc = "c_dir" /\ op' = NoOp /\ inodes' = inodes /\ torn' = torn
        /\ bitmap' = bitmap /\ dDir' = [dDir EXCEPT ![op.slot] = e]
    BY <1>2, <1>w DEF CreateEntry, DirWriteOk, DirWriteFails, EntrySaved
  <2>2. Naming
    BY <1>l, <1>r, <2>1 DEF DirectoryInv
  <2>3. UsedSlots' = UsedSlots \cup {op.slot} /\ UsedSlots \subseteq Slots
    BY <1>t, <2>1, <2>2 DEF UsedSlots, Naming, MetaTypeOK
  <2>4. \A s \in UsedSlots : dDir'[s] = dDir[s]
    BY <1>t, <2>1, <2>2, <2>3 DEF Naming, MetaTypeOK
  <2>5. dDir'[op.slot].inode = op.ino
    BY <1>t, <2>1 DEF MetaTypeOK
  <2>6. \A j : Named(j) => Named(j)'
    BY <2>3, <2>4 DEF Named
  <2>7. \A j \in InodeIdx \ {0} : inodes'[j].mode = "FILE" => Named(j)'
    <3> SUFFICES ASSUME NEW j \in InodeIdx \ {0}, inodes[j].mode = "FILE" PROVE Named(j)'
      BY <2>1
    <3>1. Named(j) \/ op.ino = j
      BY <1>r, <2>1 DEF LeakInv
    <3>2. CASE op.ino = j
      BY <2>3, <2>5, <3>2 DEF Named
    <3> QED
      BY <2>6, <3>1, <3>2
  <2>8. bitmap' = UsedBy(inodes')
    BY <2>1 DEF LeakInv, Pending
  <2>9. \A j \in InodeIdx : inodes'[j].mode = "FREE" => SectorsOf(inodes'[j]) = {}
    BY <2>1 DEF LeakInv
  <2> QED
    BY <1>l, <1>r, <2>1, <2>7, <2>8, <2>9, LeakRunning, NoOpType
<1> QED
  BY <1>1, <1>2, <1>w DEF fs_create, CreateUndo

\* fs_delete() gives back the file's sectors, and the name goes with the inode.
LEMMA LeakDelete ==
    ASSUME MetaInv, MetaInv', OwnershipInv, DirectoryInv, LeakInv, Dependable, NoStale',
           fs_delete
    PROVE  LeakInv'
<1>t. MetaTypeOK /\ op \in OpRec /\ op' \in OpRec /\ inodes \in Table
      /\ op.ino \in InodeIdx
  BY DEF MetaInv, MetaTypeOK, Table, OpRec
<1>w. ~WriteFails /\ ~ReadFails
  BY <1>t, NoFails DEF WriteFails, ReadFails, Dependable
<1>h. \A hidden \in Unreadable : hidden = {}
  BY DEF Unreadable, Dependable
<1>r. "idle" \in Running /\ "d_inode" \in Running /\ "d_dir" \in Running
  BY DEF Running, PCs, Formatting
<1>l. ~torn
  BY DEF LeakInv
<1>1. CASE \E n \in Names : DeleteStart(n)
  <2>1. PICK n \in Names : DeleteStart(n)
    BY <1>1
  <2> DEFINE i == find_dir_entry(n, {})
  <2>2. /\ op.pc = "idle" /\ i > 0 /\ bitmap' = bitmap \ SectorsOf(inodes[i])
        /\ inodes' = [inodes EXCEPT ![i] = ZeroInode]
        /\ op' = [At("d_inode") EXCEPT !.ino = i]
        /\ dDir' = dDir /\ torn' = torn
    BY <1>w, <1>h, <2>1 DEF DeleteStart, SaveBitmapFails
  <2>3. i \in InodeIdx
    <3>1. DirClean
      BY <1>r, <2>2, RunningFacts DEF Dependable
    <3>2. i \in InodeIdx \cup {-1}
      BY <3>1, FindType
    <3> QED
      BY <2>2, <3>2
  <2> HIDE DEF i
  <2>4. op'.pc = "d_inode" /\ op'.ino = i
    <3>1. At("d_inode") \in OpRec /\ At("d_inode").pc = "d_inode"
      BY AtType DEF PCs
    <3> QED
      BY <2>2, <3>1 DEF OpRec
  <2>5. inodes'[i] = ZeroInode /\ \A j \in InodeIdx : j # i => inodes'[j] = inodes[j]
    BY <1>t, <2>2, <2>3 DEF Table
  <2>6. inodes'[i].mode = "FREE" /\ SectorsOf(inodes'[i]) = {}
    <3>1. ZeroInode.mode = "FREE"
      BY DEF ZeroInode
    <3> QED
      BY <2>5, <3>1, ZeroInodeType
  <2>7. bitmap' = UsedBy(inodes')
    <3>1. bitmap = UsedBy(inodes) /\ NoSharedSector(inodes)
      BY <1>l, <2>2 DEF LeakInv, Pending, OwnershipInv
    <3>2. UsedBy([inodes EXCEPT ![i] = ZeroInode]) = UsedBy(inodes) \ SectorsOf(inodes[i])
      BY <1>t, <2>3, <3>1, UsedByDrop
    <3> QED
      BY <2>2, <3>1, <3>2
  <2>8. \A j \in InodeIdx : inodes'[j].mode = "FREE" => SectorsOf(inodes'[j]) = {}
    BY <2>5, <2>6 DEF LeakInv
  <2>9. \A j : Named(j)' <=> Named(j)
    BY <2>2 DEF Named, UsedSlots
  <2>10. \A j \in InodeIdx \ {0} : inodes'[j].mode = "FILE" => Named(j)'
    BY <1>r, <2>2, <2>5, <2>6, <2>9 DEF LeakInv
  <2> QED
    BY <1>l, <1>r, <2>2, <2>4, <2>6, <2>7, <2>8, <2>10, LeakRunning
<1>2. CASE DeleteInode
  <2>1. /\ op.pc = "d_inode" /\ op' = [op EXCEPT !.pc = "d_dir"]
        /\ inodes' = inodes /\ bitmap' = bitmap /\ dDir' = dDir /\ torn' = torn
    BY <1>2, <1>w DEF DeleteInode, SaveInodeFails, memory
  <2>2. op'.pc = "d_dir" /\ op'.ino = op.ino
    BY <1>t, <2>1 DEF OpRec
  <2>3. \A j : Named(j)' <=> Named(j)
    BY <2>1 DEF Named, UsedSlots
  <2>4. /\ bitmap' = UsedBy(inodes') /\ inodes'[op'.ino].mode = "FREE"
        /\ \A j \in InodeIdx : inodes'[j].mode = "FREE" => SectorsOf(inodes'[j]) = {}
    BY <2>1, <2>2 DEF LeakInv, Pending
  <2>5. \A j \in InodeIdx \ {0} : inodes'[j].mode = "FILE" => Named(j)'
    BY <1>r, <2>1, <2>3 DEF LeakInv
  <2> QED
    BY <1>l, <1>r, <2>1, <2>2, <2>4, <2>5, LeakRunning
<1>3. CASE DeleteEntry
  <2> DEFINE hits == {s \in UsedSlots : dDir[s].inode = op.ino}
  <2>1. /\ op.pc = "d_dir" /\ op' = NoOp /\ inodes' = inodes /\ torn' = torn
        /\ bitmap' = bitmap
        /\ IF hits = {} THEN dDir' = dDir
           ELSE dDir' = [dDir EXCEPT ![Lowest(hits)] = ZeroEntry]
    <3>1. hits = {s \in Slots \ {} : dDir[s].name # NoName /\ dDir[s].inode = op.ino}
      BY DEF UsedSlots
    <3> QED
      BY <1>3, <1>h, <1>w, <3>1 DEF DeleteEntry, memory, DirWriteOk, DirWriteFails, EntrySaved
  <2>2. hits # {} => Lowest(hits) \in hits
    BY LowestOfSet, SlotsAreNat DEF UsedSlots
  <2>3. \A s \in UsedSlots \ hits : dDir'[s] = dDir[s] /\ s \in UsedSlots'
    <3> SUFFICES ASSUME NEW s \in UsedSlots, s \notin hits PROVE dDir'[s] = dDir[s] /\ s \in UsedSlots'
      OBVIOUS
    <3>1. s \in Slots /\ dDir[s].name # NoName
      BY DEF UsedSlots
    <3>2. dDir'[s] = dDir[s]
      <4> HIDE DEF hits
      <4> QED
        BY <1>t, <2>1, <2>2, <3>1 DEF MetaTypeOK
    <3> QED
      BY <3>1, <3>2 DEF UsedSlots
  <2>4. inodes[op.ino].mode = "FREE"
    BY <2>1 DEF LeakInv
  <2>5. ASSUME NEW j \in InodeIdx \ {0}, inodes[j].mode = "FILE" PROVE Named(j)'
    <3>1. Named(j) /\ j # op.ino
      BY <1>r, <2>1, <2>4, <2>5 DEF LeakInv
    <3>2. PICK s \in UsedSlots : dDir[s].inode = j
      BY <3>1 DEF Named
    <3> QED
      BY <2>3, <3>1, <3>2 DEF Named
  <2>6. /\ bitmap' = UsedBy(inodes')
        /\ \A j \in InodeIdx : inodes'[j].mode = "FREE" => SectorsOf(inodes'[j]) = {}
    BY <2>1 DEF LeakInv, Pending
  <2> QED
    BY <1>l, <1>r, <2>1, <2>5, <2>6, LeakRunning, NoOpType
<1> QED
  BY <1>1, <1>2, <1>3 DEF fs_delete

\* Opening, closing and reading use no sector; fs_write() uses those it points to.
LEMMA LeakUse ==
    ASSUME MetaInv, MetaInv', OwnershipInv, DataInv, LeakInv, Dependable, NoStale',
           fs_open \/ fs_close \/ fs_read \/ fs_write
    PROVE  LeakInv'
<1>t. /\ MetaTypeOK /\ op \in OpRec /\ op' \in OpRec /\ inodes \in Table
      /\ bitmap \in SUBSET Sectors
  BY DEF MetaInv, MetaTypeOK, Table
<1>w. ~WriteFails /\ ~ReadFails /\ op.pc \notin {"w_unalloc", "w_inode"}
  BY <1>t, NoFails DEF WriteFails, ReadFails, Dependable, OwnershipInv, DiskFollows
<1>r. {"idle", "w_loop", "w_zero", "w_bitmap"} \subseteq Running \ {"c_dir", "d_inode", "d_dir"}
  BY DEF Running, PCs, Formatting
<1>u. op.pc \in {"idle", "w_loop", "w_bitmap"} => bitmap = UsedBy(inodes)
  BY DEF LeakInv, Pending
<1>e. \A i \in InodeIdx : inodes[i].mode = "FREE" => SectorsOf(inodes[i]) = {}
  BY DEF LeakInv
<1>1. CASE fs_open \/ fs_close \/ fs_read
  <2>1. /\ op' = op /\ op.pc = "idle" /\ torn' = torn /\ dDir' = dDir /\ inodes' = inodes
        /\ bitmap' = bitmap
    BY <1>1 DEF fs_open, fs_close, fs_read, Open, Close, Read, disk
  <2> QED
    BY <1>e, <1>r, <1>u, <2>1, LeakFrame
<1>2. CASE \E fd \in HandleIdx, buf \in Buffers : WriteStart(fd, buf)
  <2>1. PICK fd \in HandleIdx, buf \in Buffers : WriteStart(fd, buf)
    BY <1>2
  <2>2. /\ op.pc = "idle" /\ torn' = torn /\ dDir' = dDir /\ inodes' = inodes
        /\ bitmap' = bitmap
        /\ \E b : op' = [At("w_loop") EXCEPT !.fd = fd, !.buf = b]
    BY <2>1, Zenon DEF WriteStart, memory, disk
  <2>3. op'.pc = "w_loop"
    <3>1. At("w_loop") \in OpRec /\ At("w_loop").pc = "w_loop"
      BY AtType DEF PCs
    <3> QED
      BY <2>2, <3>1 DEF OpRec
  <2> QED
    BY <1>e, <1>r, <1>u, <2>2, <2>3, LeakFrame
<1>3. CASE WriteAlloc
  <2> DEFINE new == Lowest(FreeSectors)
  <2>1. /\ op.pc = "w_loop" /\ op.done < Len(op.buf) /\ torn' = torn /\ dDir' = dDir
        /\ inodes' = inodes /\ bitmap' = bitmap \cup {new}
        /\ op' = [op EXCEPT !.pc = "w_zero", !.sector = new]
    BY <1>3, <1>w, Zenon DEF WriteAlloc, WMore, AllocBitmap, SaveBitmapFails
  <2> HIDE DEF new
  <2>2. op'.pc = "w_zero" /\ op'.sector = new /\ op'.done = op.done /\ op'.buf = op.buf
    BY <1>t, <2>1 DEF OpRec
  <2> QED
    BY <1>e, <1>r, <1>u, <2>1, <2>2, LeakFrame
<1>4. CASE WriteZero
  <2>1. /\ op.pc = "w_zero" /\ torn' = torn /\ dDir' = dDir /\ bitmap' = bitmap
        /\ inodes' = [inodes EXCEPT ![WNode].direct[WBlock] = op.sector]
        /\ op' = [op EXCEPT !.pc = "w_loop"]
    BY <1>4, <1>w DEF WriteZero, DataWriteFails
  <2>2. op'.pc = "w_loop"
    BY <1>t, <2>1 DEF OpRec
  <2>3. op.pc \in Writing /\ op.done < Len(op.buf)
    BY <2>1 DEF LeakInv, Writing
  <2>4. WNode \in InodeIdx /\ WBlock \in BlockIdx
    BY <2>3, ChunkType, BlockInside
  <2>5. inodes[WNode].mode = "FILE"
    <3>1. op.fd \in HandleIdx
      BY <1>t DEF OpRec
    <3>2. handles[op.fd].inode >= 0
      BY <2>4, FsAssumption DEF WNode, InodeIdx
    <3> QED
      BY <3>1, <3>2 DEF LeakInv, NoStale, WNode
  <2>6. inodes[WNode].direct[WBlock] = 0 /\ op.sector \in Sectors
    <3>1. ~torn /\ FreshSector /\ DiskFollows
      BY DEF LeakInv, OwnershipInv, Dependable
    <3> QED
      BY <1>t, <2>1, <3>1 DEF FreshSector, DiskFollows, WSector
  <2>7. UsedBy(inodes') = UsedBy(inodes) \cup {op.sector}
    <3>1. UsedBy([inodes EXCEPT ![WNode].direct[WBlock] = op.sector])
              = UsedBy(inodes) \cup {op.sector}
      BY <1>t, <2>4, <2>6, UsedByAdd
    <3> QED
      BY <2>1, <3>1
  <2>8. bitmap' = UsedBy(inodes')
    BY <2>1, <2>7 DEF LeakInv, Pending
  <2>9. /\ \A i \in InodeIdx : inodes'[i].mode = inodes[i].mode
        /\ \A i \in InodeIdx : i # WNode => inodes'[i] = inodes[i]
    BY <1>t, <2>1 DEF Table, Inode
  <2>10. \A i \in InodeIdx : inodes'[i].mode = "FREE" => SectorsOf(inodes'[i]) = {}
    BY <1>e, <2>5, <2>9
  <2> QED
    BY <1>r, <2>1, <2>2, <2>8, <2>9, <2>10, LeakFrame
<1>5. CASE WriteBlock
  <2>1. /\ op.pc = "w_loop" /\ torn' = torn /\ dDir' = dDir /\ inodes' = inodes
        /\ bitmap' = bitmap /\ op' = [op EXCEPT !.done = op.done + WChunk]
    BY <1>5, <1>w DEF WriteBlock, WMore, memory, DataWriteFails
  <2>2. op'.pc = "w_loop"
    BY <1>t, <2>1 DEF OpRec
  <2> QED
    BY <1>e, <1>r, <1>u, <2>1, <2>2, LeakFrame
<1>6. CASE WriteInode
  <2> DEFINE node == IF WPos > inodes[WNode].size
                     THEN [inodes[WNode] EXCEPT !.size = WPos] ELSE inodes[WNode]
  <2>1. /\ op.pc = "w_loop" /\ torn' = torn /\ dDir' = dDir /\ op'.pc = "w_bitmap"
        /\ bitmap' = bitmap /\ inodes' = [inodes EXCEPT ![WNode] = node]
    BY <1>6, <1>w, AtType DEF WriteInode, WMore, PCs
  <2>2. WNode \in InodeIdx
    BY <2>1, ChunkType DEF Writing
  <2>3. node.mode = inodes[WNode].mode /\ node.direct = inodes[WNode].direct
    BY <1>t, <2>2 DEF Table, Inode
  <2> HIDE DEF node
  <2>4. \A i \in InodeIdx : inodes'[i].mode = inodes[i].mode
                            /\ SectorsOf(inodes'[i]) = SectorsOf(inodes[i])
    BY <1>t, <2>1, <2>2, <2>3 DEF Table, SectorsOf
  <2>5. UsedBy(inodes') = UsedBy(inodes)
    BY <2>4, UsedBySame
  <2> QED
    BY <1>e, <1>r, <1>u, <2>1, <2>4, <2>5, LeakFrame
<1>7. CASE WriteBitmap
  <2>1. /\ op.pc = "w_bitmap" /\ torn' = torn /\ dDir' = dDir /\ op'.pc = "idle"
        /\ inodes' = inodes /\ bitmap' = bitmap
    BY <1>7, NoOpType DEF WriteBitmap, memory
  <2> QED
    BY <1>e, <1>r, <1>u, <2>1, LeakFrame
<1> QED
  BY <1>1, <1>2, <1>3, <1>4, <1>5, <1>6, <1>7, <1>w DEF fs_write, WriteUnalloc

\* Switched off at rest, the disk holds what memory held.
LEMMA LeakPower ==
    ASSUME MetaInv, OwnershipInv, LeakInv, Dependable, NoStale', "crash" \notin Faults,
           PowerFailure
    PROVE  LeakInv'
<1>1. /\ op.pc = "idle" /\ op'.pc = "off" /\ bitmap' = {} /\ dDir' = dDir
      /\ inodes' = [i \in InodeIdx |-> ZeroInode]
      /\ dInodes' = dInodes /\ dBitmap' = dBitmap
      /\ torn' = (torn \/ op.pc \in {"d_inode", "d_dir"})
  BY AtType DEF PowerFailure, disk, PCs
<1>2. dInodes = inodes /\ dBitmap = bitmap
  BY <1>1 DEF OwnershipInv, DiskFollows, Dependable, Running, Formatting, PCs
<1>3. \A i \in InodeIdx : SectorsOf(inodes'[i]) = {}
  BY <1>1, ZeroInodeType
<1>4. bitmap' = UsedBy(inodes') \cup Pending'
  BY <1>1, <1>3 DEF UsedBy, Pending
<1>5. \A i : Named(i)' <=> Named(i)
  BY <1>1 DEF Named, UsedSlots
<1>6. /\ bitmap = UsedBy(inodes) /\ ~torn
      /\ \A i \in InodeIdx : inodes[i].mode = "FREE" => SectorsOf(inodes[i]) = {}
      /\ \A i \in InodeIdx \ {0} : inodes[i].mode = "FILE" => Named(i)
  BY <1>1 DEF LeakInv, Pending, Running, Formatting, PCs
<1> QED
  BY <1>1, <1>2, <1>3, <1>4, <1>5, <1>6 DEF LeakInv, Running, Formatting

\* What a disciplined caller's step preserves.
StoreInv == MetaInv /\ OwnershipInv /\ DirectoryInv /\ DataInv /\ LeakInv

\* Initially.
LEMMA StoreInvInit == Init => StoreInv
<1> SUFFICES ASSUME Init PROVE StoreInv
  OBVIOUS
<1>1. op.pc = "off" /\ ~torn /\ ~dSuper /\ bitmap = {}
  BY AtType DEF Init, PCs
<1>2. \A i \in InodeIdx : SectorsOf(inodes[i]) = {}
  BY ZeroInodeType DEF Init
<1>3. bitmap = UsedBy(inodes) \cup Pending
  BY <1>1, <1>2 DEF UsedBy, Pending
<1>4. NoStale
  BY FsAssumption DEF Init, NoStale, ClosedHandle
<1>5. LeakInv
  BY <1>1, <1>2, <1>3, <1>4 DEF LeakInv, Running, Formatting
<1> QED
  BY <1>5, MetaInit, OwnInit, DirInit, DataInit DEF StoreInv

\* At every step.
LEMMA StoreInvStep ==
    ASSUME "superread" \notin Faults, "crash" \notin Faults, Dependable,
           StoreInv, [Next /\ NoStale']_vars
    PROVE  StoreInv'
<1> USE DEF StoreInv
<1>1. MetaInv' /\ OwnershipInv' /\ DirectoryInv' /\ DataInv'
  BY MetaStep, OwnStep, DirStep, DataStep DEF Dependable
<1>2. CASE UNCHANGED vars
  <2>1. LeakInv'
    BY <1>2 DEF vars, LeakInv, NoStale, Pending, Named, UsedSlots
  <2> QED
    BY <1>1, <2>1
<1>3. CASE Next /\ NoStale'
  <2>1. LeakInv'
    BY <1>1, <1>3, LeakBoot, LeakCreate, LeakDelete, LeakUse, LeakPower DEF Next
  <2> QED
    BY <1>1, <2>1
<1> QED
  BY <1>2, <1>3

(* With callers that close a file before they delete it, a disk that fails no
   access and power that goes only between operations, nothing leaks: at rest the
   bitmap marks exactly the sectors the inodes lead to, and every file has a name. *)
THEOREM NothingLeaks ==
    ASSUME "superread" \notin Faults, "crash" \notin Faults, Dependable
    PROVE  DisciplinedSpec => []NoLeak
<1>1. StoreInv /\ [Next /\ NoStale']_vars => StoreInv'
  BY StoreInvStep
<1>2. StoreInv => NoLeak
  BY DEF StoreInv, LeakInv, NoLeak, Pending, Running, Formatting, PCs
<1> QED
  BY <1>1, <1>2, StoreInvInit, PTL DEF DisciplinedSpec

-----------------------------------------------------------------------------
(* What the files hold *)

\* A position inside a file lies in one of its blocks.
LEMMA PositionInside ==
    ASSUME NEW size \in Nat, size <= MaxFileSize, NEW a \in 0 .. (size - 1)
    PROVE  a \div BlockSize \in BlockIdx /\ a % BlockSize \in 0 .. (BlockSize - 1)
<1>1. a \in Nat /\ a < Blocks * BlockSize
  <2>1. Blocks * BlockSize \in Nat
    BY FsAssumption
  <2> QED
    BY <2>1 DEF MaxFileSize
<1>2. a % BlockSize \in 0 .. (BlockSize - 1)
  BY <1>1, FsAssumption
<1>3. a \div BlockSize \in BlockIdx
  <2> SUFFICES ASSUME NEW e \in Nat, NEW B \in Nat, NEW D \in Nat \ {0}, e < B * D
               PROVE e \div D < B /\ e \div D \in Nat
    BY <1>1, FsAssumption DEF BlockIdx
  <2>1. e \div D >= 0 /\ e \div D \in Int
    OBVIOUS
  <2>2. e \div D < B
    OBVIOUS
  <2> QED
    BY <2>1, <2>2
<1> QED
  BY <1>2, <1>3

\* A file whose inode and whose sectors are as before holds what it held.
LEMMA ContentKept ==
    ASSUME MetaInv, ExtentInv, NEW i \in InodeIdx, inodes'[i] = inodes[i],
           \A s \in SectorsOf(inodes[i]) : dData'[s] = dData[s]
    PROVE  Untouched(i)
<1>1. inodes[i] \in Inode /\ inodes[i].size \in Nat /\ inodes[i].size <= MaxFileSize
  BY DEF MetaInv, MetaTypeOK, Inode, ExtentInv
<1>2. ASSUME NEW a \in 0 .. (inodes[i].size - 1), inodes[i].direct[a \div BlockSize] # 0
      PROVE  UnitAt(inodes[i], a)' = UnitAt(inodes[i], a)
  <2>1. a \div BlockSize \in BlockIdx
    BY <1>1, PositionInside
  <2>2. inodes[i].direct[a \div BlockSize] \in SectorsOf(inodes[i])
    BY <1>2, <2>1 DEF SectorsOf
  <2> QED
    BY <2>2 DEF UnitAt
<1>3. Content(i)' = Content(i)
  BY <1>2 DEF Content
<1> QED
  BY <1>3 DEF Untouched

\* A step that is not the start of a zeroing write.
LEMMA ExtentKept ==
    ASSUME ~torn', ready' => op'.pc \in Running, op'.pc # "w_zero",
           \A i \in InodeIdx : inodes'[i].size <= MaxFileSize
    PROVE  ExtentInv'
  BY DEF ExtentInv

\* fs_init() and fs_format() run before there are files.
LEMMA ExtentBoot ==
    ASSUME MetaInv, MetaInv', OwnershipInv, ExtentInv, MaxCrashes = 0,
           "superread" \notin Faults, fs_format \/ fs_init
    PROVE  ExtentInv' /\ \A i \in InodeIdx \ {0} : Untouched(i)
<1>t. /\ MetaTypeOK /\ op \in OpRec /\ op' \in OpRec /\ inodes \in Table
      /\ op.pc \in PCs
  BY DEF MetaInv, MetaTypeOK, OpRec, Table
<1>r. "idle" \in Running
  BY DEF Running, PCs, Formatting
<1>s. \A i \in InodeIdx : inodes[i].size <= MaxFileSize
  BY DEF ExtentInv
<1>1. op.pc \notin Running /\ torn' = torn /\ ~Mount
  BY DEF fs_format, fs_init, FormatStart, FormatAlloc, FormatZero, FormatUnalloc, FormatInode,
         FormatBitmap, FormatSuper, Mount, MountFails, NotReady, AllocBitmap, AllocUndo,
         Running, Formatting, OwnershipInv, vars
<1>2. ~ready /\ ~torn
  BY <1>1 DEF ExtentInv
<1>3. \A i \in InodeIdx \ {0} : Untouched(i)
  BY <1>2 DEF Untouched
<1>4. CASE FormatStart
  <2>1. /\ inodes' = [[i \in InodeIdx |-> ZeroInode] EXCEPT ![0] = FileInode]
        /\ op'.pc = "f_alloc" /\ ready' = ready
    BY <1>4, AtType DEF FormatStart, PCs
  <2>2. ZeroInode.size = 0 /\ FileInode.size = 0 /\ 0 <= MaxFileSize
    BY FsAssumption DEF ZeroInode, FileInode, MaxFileSize
  <2>3. \A i \in InodeIdx : inodes'[i] \in {ZeroInode, FileInode}
    BY <2>1
  <2>4. \A i \in InodeIdx : inodes'[i].size <= MaxFileSize
    BY <2>2, <2>3
  <2> QED
    BY <1>1, <1>2, <1>3, <2>1, <2>4, ExtentKept
<1>5. CASE FormatAlloc \/ FormatUnalloc
  <2>1. /\ inodes' = inodes /\ ready' = ready
        /\ \/ \E s : op' = [op EXCEPT !.pc = "f_zero", !.sector = s]
           \/ op' = [op EXCEPT !.pc = "dead"]
    BY <1>5, Zenon DEF FormatAlloc, FormatUnalloc, AllocBitmap, AllocUndo, memory
  <2>2. op'.pc = "f_zero" \/ op'.pc = "dead"
    BY <1>t, <2>1 DEF OpRec
  <2> QED
    BY <1>1, <1>2, <1>3, <1>s, <2>1, <2>2, ExtentKept
<1>6. CASE FormatZero
  <2>1. /\ ready' = ready
        /\ \/ op' = [op EXCEPT !.pc = "f_alloc", !.i = op.i + 1]
           \/ op' = [op EXCEPT !.pc = "f_unalloc"]
        /\ \/ inodes' = [inodes EXCEPT ![0].direct[op.i] = op.sector]
           \/ inodes' = inodes
    BY <1>6 DEF FormatZero
  <2>2. op'.pc = "f_alloc" \/ op'.pc = "f_unalloc"
    BY <1>t, <2>1 DEF OpRec
  <2>3. \A i \in InodeIdx : inodes'[i].size = inodes[i].size
    BY <1>t, <2>1 DEF Table, Inode
  <2> QED
    BY <1>1, <1>2, <1>3, <1>s, <2>1, <2>2, <2>3, ExtentKept
<1>7. CASE FormatInode
  <2>1. /\ inodes' = inodes /\ ready' = ready
        /\ \/ op' = At("f_bitmap") \/ op' = At("dead")
           \/ \E i : op' = [op EXCEPT !.pc = "f_inode", !.i = i]
    BY <1>7, Zenon DEF FormatInode, memory
  <2>2. op'.pc # "w_zero"
    <3>1. "f_bitmap" \in PCs /\ "dead" \in PCs
      BY DEF PCs
    <3>2. CASE op' = At("f_bitmap") \/ op' = At("dead")
      BY <3>1, <3>2, AtType
    <3>3. CASE \E i : op' = [op EXCEPT !.pc = "f_inode", !.i = i]
      BY <1>t, <3>3 DEF OpRec
    <3> QED
      BY <2>1, <3>2, <3>3
  <2> QED
    BY <1>1, <1>2, <1>3, <1>s, <2>1, <2>2, ExtentKept
<1>8. CASE FormatBitmap \/ FormatSuper \/ MountFails
  <2>1. /\ inodes' = inodes
        /\ \/ (op' = At("f_super") \/ op' = At("dead")) /\ ready' = ready
           \/ op' = NoOp
    BY <1>8 DEF FormatBitmap, FormatSuper, MountFails, memory
  <2>2. "f_super" \in PCs /\ "dead" \in PCs
    BY DEF PCs
  <2>3. op'.pc # "w_zero" /\ (ready' => op'.pc \in Running)
    BY <1>2, <1>r, <2>1, <2>2, AtType, NoOpType
  <2> QED
    BY <1>1, <1>2, <1>3, <1>s, <2>1, <2>3, ExtentKept
<1>9. CASE NotReady
  BY <1>1, <1>2, <1>3, <1>s, <1>9, ExtentKept DEF NotReady, vars
<1> QED
  BY <1>1, <1>4, <1>5, <1>6, <1>7, <1>8, <1>9 DEF fs_format, fs_init

\* fs_create() and fs_delete() change one inode, of no other file.
LEMMA ExtentFiles ==
    ASSUME MetaInv, MetaInv', ExtentInv, MaxCrashes = 0,
           fs_create \/ fs_delete \/ fs_open \/ fs_close \/ fs_read \/ PowerFailure
    PROVE  ExtentInv' /\ \A i \in InodeIdx \ {0} : Untouched(i)
<1>t. /\ MetaTypeOK /\ op \in OpRec /\ op' \in OpRec /\ inodes \in Table
  BY DEF MetaInv, MetaTypeOK, Table
<1>r. {"idle", "c_dir", "c_undo", "d_inode", "d_dir"} \subseteq Running \ {"w_zero"}
  BY DEF Running, PCs, Formatting
<1>s. (\A i \in InodeIdx : inodes[i].size <= MaxFileSize) /\ ~torn
  BY DEF ExtentInv
<1>z. ZeroInode.size <= MaxFileSize /\ FileInode.size <= MaxFileSize /\ ZeroInode.mode = "FREE"
  BY FsAssumption DEF ZeroInode, FileInode, MaxFileSize
<1>1. CASE \E n \in Names : CreateStart(n)
  <2> DEFINE i == Lowest(FreeInodes)
  <2>1. i \in InodeIdx /\ inodes[i].mode = "FREE"
    BY <1>1, FreeInodeType DEF CreateStart, FreeInodes
  <2>2. inodes' = [inodes EXCEPT ![i] = FileInode] /\ dData' = dData /\ torn' = torn
    BY <1>1 DEF CreateStart
  <2>3. op'.pc \in {"c_dir", "idle"}
    <3>1. At("c_dir").pc = "c_dir" /\ At("c_dir") \in OpRec
      BY AtType DEF PCs
    <3>2. op' = NoOp \/ \E ino, name, slot :
              op' = [At("c_dir") EXCEPT !.ino = ino, !.name = name, !.slot = slot]
      BY <1>1, Zenon DEF CreateStart
    <3> QED
      BY <3>1, <3>2, NoOpType DEF OpRec
  <2> HIDE DEF i
  <2>4. \A j \in InodeIdx : inodes'[j] = IF j = i THEN FileInode ELSE inodes[j]
    BY <1>t, <2>2 DEF Table
  <2>5. ExtentInv'
    <3>1. \A j \in InodeIdx : inodes'[j].size <= MaxFileSize
      BY <1>s, <1>z, <2>4
    <3> QED
      BY <1>r, <1>s, <2>2, <2>3, <3>1, ExtentKept
  <2>6. ASSUME NEW j \in InodeIdx PROVE Untouched(j)
    <3>1. CASE j = i
      BY <2>1, <3>1 DEF Untouched
    <3>2. CASE j # i
      BY <2>2, <2>4, <3>2, ContentKept
    <3> QED
      BY <3>1, <3>2
  <2> QED
    BY <2>5, <2>6
<1>2. CASE CreateEntry
  <2>1. dData' = dData /\ torn' = torn /\ op'.pc \in {"idle", "c_undo"}
    BY <1>2, <1>t, NoOpType DEF CreateEntry, OpRec
  <2>2. inodes' = inodes \/ inodes' = [inodes EXCEPT ![op.ino].mode = "FREE"]
    BY <1>2 DEF CreateEntry
  <2>3. \A j \in InodeIdx : /\ inodes'[j] = inodes[j] \/ inodes'[j].mode = "FREE"
                            /\ inodes'[j].size = inodes[j].size
    BY <1>t, <2>2 DEF Table, Inode
  <2>4. ExtentInv'
    BY <1>r, <1>s, <2>1, <2>3, ExtentKept
  <2>5. ASSUME NEW j \in InodeIdx PROVE Untouched(j)
    <3>1. CASE inodes'[j].mode = "FREE"
      BY <3>1 DEF Untouched
    <3>2. CASE inodes'[j] = inodes[j]
      BY <2>1, <3>2, ContentKept
    <3> QED
      BY <2>3, <3>1, <3>2
  <2> QED
    BY <2>4, <2>5
<1>3. CASE \E n \in Names : DeleteStart(n)
  <2>1. dData' = dData /\ torn' = torn /\ \E i : inodes' = [inodes EXCEPT ![i] = ZeroInode]
    BY <1>3 DEF DeleteStart
  <2>2. op'.pc \in {"idle", "d_inode"}
    <3>1. At("d_inode").pc = "d_inode" /\ At("d_inode") \in OpRec
      BY AtType DEF PCs
    <3>2. op' = NoOp \/ \E ino : op' = [At("d_inode") EXCEPT !.ino = ino]
      BY <1>3, Zenon DEF DeleteStart
    <3> QED
      BY <3>1, <3>2, NoOpType DEF OpRec
  <2>3. \A j \in InodeIdx : inodes'[j] = inodes[j] \/ inodes'[j] = ZeroInode
    BY <1>t, <2>1 DEF Table
  <2>4. ExtentInv'
    <3>1. \A j \in InodeIdx : inodes'[j].size <= MaxFileSize
      BY <1>s, <1>z, <2>3
    <3> QED
      BY <1>r, <1>s, <2>1, <2>2, <3>1, ExtentKept
  <2>5. ASSUME NEW j \in InodeIdx PROVE Untouched(j)
    <3>1. CASE inodes'[j] = ZeroInode
      BY <1>z, <3>1 DEF Untouched
    <3>2. CASE inodes'[j] = inodes[j]
      BY <2>1, <3>2, ContentKept
    <3> QED
      BY <2>3, <3>1, <3>2
  <2> QED
    BY <2>4, <2>5
<1>4. CASE CreateUndo \/ DeleteInode \/ DeleteEntry \/ fs_open \/ fs_close \/ fs_read
  <2>1. inodes' = inodes /\ dData' = dData /\ torn' = torn
    BY <1>4 DEF CreateUndo, DeleteInode, DeleteEntry, fs_open, fs_close, fs_read, Open, Close,
                Read, disk, memory
  <2>2. op'.pc \in {"idle", "d_dir"}
    <3>1. \/ op' = NoOp \/ op' = [op EXCEPT !.pc = "d_dir"]
          \/ op' = op /\ op.pc = "idle"
      BY <1>4 DEF CreateUndo, DeleteInode, DeleteEntry, fs_open, fs_close, fs_read, Open,
                  Close, Read
    <3> QED
      BY <1>t, <3>1, NoOpType DEF OpRec
  <2>3. ExtentInv'
    BY <1>r, <1>s, <2>1, <2>2, ExtentKept
  <2>4. ASSUME NEW j \in InodeIdx PROVE Untouched(j)
    BY <2>1, ContentKept
  <2> QED
    BY <2>3, <2>4
<1>5. ~PowerFailure
  BY <1>t DEF PowerFailure, MetaTypeOK
<1> QED
  BY <1>1, <1>2, <1>3, <1>4, <1>5 DEF fs_create, fs_delete

\* A file that gets a zeroed sector where it had a hole holds what it held.
LEMMA HoleFilled ==
    ASSUME MetaInv, ExtentInv, NEW i \in InodeIdx, NEW b \in BlockIdx, NEW s \in Sectors,
           inodes[i].direct[b] = 0, s \notin SectorsOf(inodes[i]),
           dData \in [Sectors -> Block \cup {Junk}], DataSaved(s, ZeroBlock),
           inodes'[i] = [inodes[i] EXCEPT !.direct[b] = s]
    PROVE  Untouched(i)
<1>1. inodes[i] \in Inode /\ inodes[i].size \in Nat /\ inodes[i].size <= MaxFileSize
  BY DEF MetaInv, MetaTypeOK, Inode, ExtentInv
<1>2. /\ inodes'[i].size = inodes[i].size
      /\ \A c \in BlockIdx : inodes'[i].direct[c] = IF c = b THEN s ELSE inodes[i].direct[c]
  BY <1>1 DEF Inode
<1>3. dData'[s] = ZeroBlock /\ \A r \in Sectors \ {s} : dData'[r] = dData[r]
  BY DEF DataSaved
<1>4. ASSUME NEW a \in 0 .. (inodes[i].size - 1)
      PROVE  (IF inodes'[i].direct[a \div BlockSize] = 0 THEN Zero ELSE UnitAt(inodes[i], a)')
             = (IF inodes[i].direct[a \div BlockSize] = 0 THEN Zero ELSE UnitAt(inodes[i], a))
  <2>1. a \div BlockSize \in BlockIdx /\ a % BlockSize \in 0 .. (BlockSize - 1)
    BY <1>1, PositionInside
  <2>2. CASE a \div BlockSize = b
    <3>1. inodes'[i].direct[a \div BlockSize] = s /\ inodes[i].direct[a \div BlockSize] = 0
      BY <1>2, <2>1, <2>2
    <3>2. ZeroBlock[a % BlockSize] = Zero /\ s # 0
      BY <2>1, FsAssumption DEF ZeroBlock, Sectors
    <3> QED
      BY <1>3, <3>1, <3>2 DEF UnitAt
  <2>3. CASE a \div BlockSize # b
    <3> DEFINE r == inodes[i].direct[a \div BlockSize]
    <3>1. inodes'[i].direct[a \div BlockSize] = r
      BY <1>2, <2>1, <2>3
    <3>2. r # 0 => r \in SectorsOf(inodes[i]) /\ r \in Sectors
      BY <1>1, <2>1, SectorsOfType DEF SectorsOf
    <3>3. r # 0 => dData'[r] = dData[r]
      BY <1>3, <3>2
    <3> QED
      BY <3>1, <3>3 DEF UnitAt
  <2> QED
    BY <2>2, <2>3
<1>5. Content(i)' = Content(i)
  BY <1>2, <1>4 DEF Content
<1> QED
  BY <1>5 DEF Untouched

\* fs_write() changes its own file only.
LEMMA ExtentWrite ==
    ASSUME MetaInv, MetaInv', OwnershipInv, DataInv, ExtentInv, fs_write
    PROVE  ExtentInv' /\ \A i \in InodeIdx \ {0} : Untouched(i)
<1>t. /\ MetaTypeOK /\ op \in OpRec /\ op' \in OpRec /\ inodes \in Table
      /\ bitmap \in SUBSET Sectors
  BY DEF MetaInv, MetaTypeOK, Table
<1>r. {"idle", "w_loop", "w_unalloc", "w_inode", "w_bitmap"} \subseteq Running \ {"w_zero"}
      /\ "w_zero" \in Running
  BY DEF Running, PCs, Formatting
<1>s. /\ \A i \in InodeIdx : inodes[i].size <= MaxFileSize
      /\ ~torn /\ NoSharedSector(inodes) /\ FreshSector
  BY DEF ExtentInv, OwnershipInv
<1>1. CASE \E fd \in HandleIdx, buf \in Buffers : WriteStart(fd, buf)
  <2>1. PICK fd \in HandleIdx, buf \in Buffers : WriteStart(fd, buf)
    BY <1>1
  <2>2. /\ torn' = torn /\ inodes' = inodes /\ dData' = dData
        /\ \E b : op' = [At("w_loop") EXCEPT !.fd = fd, !.buf = b]
    BY <2>1, Zenon DEF WriteStart, memory, disk
  <2>3. op'.pc = "w_loop"
    <3>1. At("w_loop") \in OpRec /\ At("w_loop").pc = "w_loop"
      BY AtType DEF PCs
    <3> QED
      BY <2>2, <3>1 DEF OpRec
  <2> QED
    BY <1>r, <1>s, <2>2, <2>3, ExtentKept, ContentKept
<1>2. CASE WriteAlloc
  <2>1. /\ torn' = torn /\ inodes' = inodes /\ dData' = dData /\ handles' = handles
        /\ WSector = 0
        /\ \/ \E s : op' = [op EXCEPT !.pc = "w_zero", !.sector = s]
           \/ op' = [op EXCEPT !.pc = "w_inode"]
    BY <1>2, Zenon DEF WriteAlloc, AllocBitmap
  <2>2. op'.pc \in {"w_zero", "w_inode"} /\ op'.fd = op.fd /\ op'.done = op.done
    BY <1>t, <2>1 DEF OpRec
  <2>3. WSector' = 0
    BY <2>1, <2>2 DEF WSector, WNode, WBlock, WPos
  <2>4. ExtentInv'
    BY <1>r, <1>s, <2>1, <2>2, <2>3 DEF ExtentInv
  <2> QED
    BY <2>1, <2>4, ContentKept
<1>3. CASE WriteUnalloc
  <2>1. /\ torn' = torn /\ inodes' = inodes /\ dData' = dData
        /\ op' = [op EXCEPT !.pc = "w_inode"]
    BY <1>3 DEF WriteUnalloc, AllocUndo, memory
  <2>2. op'.pc = "w_inode"
    BY <1>t, <2>1 DEF OpRec
  <2> QED
    BY <1>r, <1>s, <2>1, <2>2, ExtentKept, ContentKept
<1>4. CASE WriteZero
  <2>1. /\ op.pc = "w_zero" /\ torn' = torn
        /\ \/ op' = [op EXCEPT !.pc = "w_loop"] \/ op' = [op EXCEPT !.pc = "w_unalloc"]
        /\ \/ /\ inodes' = [inodes EXCEPT ![WNode].direct[WBlock] = op.sector]
              /\ DataSaved(op.sector, ZeroBlock)
           \/ inodes' = inodes /\ (dData' = dData \/ DataSaved(op.sector, ZeroBlock))
    BY <1>4 DEF WriteZero, DataWriteOk, DataWriteFails
  <2>2. op'.pc = "w_loop" \/ op'.pc = "w_unalloc"
    BY <1>t, <2>1 DEF OpRec
  <2>3. ExtentInv'
    <3>1. \A i \in InodeIdx : inodes'[i].size = inodes[i].size
      BY <1>t, <2>1 DEF Table, Inode
    <3> QED
      BY <1>r, <1>s, <2>1, <2>2, <3>1, ExtentKept
  <2>4. /\ op.sector \in Sectors /\ \A i \in InodeIdx : op.sector \notin SectorsOf(inodes[i])
        /\ WSector = 0
    BY <1>s, <1>t, <2>1 DEF FreshSector, ExtentInv
  <2>5. dData \in [Sectors -> Block \cup {Junk}]
    BY DEF DataInv
  <2>6. \A r \in Sectors \ {op.sector} : dData'[r] = dData[r]
    BY <2>1, <2>5 DEF DataSaved
  <2>7. ASSUME NEW i \in InodeIdx, inodes'[i] = inodes[i] PROVE Untouched(i)
    <3>1. SectorsOf(inodes[i]) \subseteq Sectors
      BY <1>t, SectorsOfType DEF Table
    <3>2. \A s \in SectorsOf(inodes[i]) : dData'[s] = dData[s]
      BY <2>4, <2>6, <3>1
    <3> QED
      BY <2>7, <3>2, ContentKept
  <2>8. ASSUME NEW i \in InodeIdx, inodes'[i] # inodes[i] PROVE Untouched(i)
    <3>1. /\ inodes' = [inodes EXCEPT ![WNode].direct[WBlock] = op.sector]
          /\ DataSaved(op.sector, ZeroBlock) /\ i = WNode
      BY <1>t, <2>1, <2>8 DEF Table
    <3>2. inodes'[i] = [inodes[i] EXCEPT !.direct[WBlock] = op.sector]
      BY <1>t, <3>1 DEF Table
    <3>3. op.pc \in Writing
      BY <2>1 DEF Writing
    <3>4. CASE WBlock \in BlockIdx
      BY <2>4, <2>5, <3>1, <3>2, <3>4, HoleFilled DEF WSector
    <3>5. CASE WBlock \notin BlockIdx
      <4>1. inodes[i].direct \in [BlockIdx -> 0 .. NumSectors]
        BY <1>t DEF Table, Inode
      <4>2. inodes'[i] = inodes[i]
        BY <1>t, <3>2, <3>5, <4>1 DEF Table, Inode
      <4> QED
        BY <2>8, <4>2
    <3> QED
      BY <3>4, <3>5
  <2> QED
    BY <2>3, <2>7, <2>8
<1>5. CASE WriteBlock
  <2>1. /\ op.pc = "w_loop" /\ torn' = torn /\ inodes' = inodes /\ WMore /\ WSector # 0
        /\ \/ op' = [op EXCEPT !.done = op.done + WChunk] \/ op' = [op EXCEPT !.pc = "w_inode"]
        /\ dData' = dData \/ DataSaved(WSector, WPatched)
    BY <1>5 DEF WriteBlock, WMore, memory, DataWriteOk, DataWriteFails
  <2>2. op'.pc = "w_loop" \/ op'.pc = "w_inode"
    BY <1>t, <2>1 DEF OpRec
  <2>3. ExtentInv'
    BY <1>r, <1>s, <2>1, <2>2, ExtentKept
  <2>4. WSector \in SectorsOf(inodes[WNode]) /\ WNode \in InodeIdx
    BY <2>1, PatchedType, ChunkType DEF Writing
  <2>5. dData \in [Sectors -> Block \cup {Junk}]
    BY DEF DataInv
  <2>6. ASSUME NEW i \in InodeIdx, i # WNode PROVE Untouched(i)
    <3>1. SectorsOf(inodes[i]) \subseteq Sectors
      BY <1>t, SectorsOfType DEF Table
    <3>2. WSector \notin SectorsOf(inodes[i])
      BY <1>s, <2>4, <2>6 DEF NoSharedSector, SectorsOf
    <3>3. \A s \in SectorsOf(inodes[i]) : dData'[s] = dData[s]
      BY <2>1, <2>5, <3>1, <3>2 DEF DataSaved
    <3> QED
      BY <2>1, <3>3, ContentKept
  <2>7. ASSUME NEW i \in InodeIdx, i = WNode PROVE Untouched(i)
    BY <2>1, <2>7 DEF Untouched
  <2> QED
    BY <2>3, <2>6, <2>7
<1>6. CASE WriteInode
  <2> DEFINE node == IF WPos > inodes[WNode].size
                     THEN [inodes[WNode] EXCEPT !.size = WPos] ELSE inodes[WNode]
  <2>1. /\ op.pc \in {"w_loop", "w_inode"} /\ torn' = torn /\ op'.pc = "w_bitmap"
        /\ inodes' = [inodes EXCEPT ![WNode] = node] /\ dData' = dData
    BY <1>6, AtType DEF WriteInode, WMore, PCs
  <2>2. op.pc \in Writing /\ WNode \in InodeIdx /\ WPos \in Nat
    BY <2>1, ChunkType DEF Writing
  <2>3. WPos <= MaxFileSize
    <3>1. /\ op.done \in Nat /\ Len(op.buf) \in Nat /\ handles[op.fd].position \in Nat
          /\ op.done <= Len(op.buf)
      BY DEF MetaInv, MetaTypeOK, OpRec, Handle, WriteLocals
    <3>2. handles[op.fd].position + Len(op.buf) <= MaxFileSize /\ MaxFileSize \in Nat
      BY <2>2, FsAssumption DEF DataInv, MaxFileSize
    <3> QED
      BY <3>1, <3>2 DEF WPos
  <2>4. node.size <= MaxFileSize
    BY <1>s, <1>t, <2>2, <2>3 DEF Table, Inode
  <2> HIDE DEF node
  <2>5. \A i \in InodeIdx : inodes'[i] = IF i = WNode THEN node ELSE inodes[i]
    BY <1>t, <2>1 DEF Table
  <2>6. ExtentInv'
    <3>1. \A i \in InodeIdx : inodes'[i].size <= MaxFileSize
      BY <1>s, <2>4, <2>5
    <3> QED
      BY <1>r, <1>s, <2>1, <3>1, ExtentKept
  <2>7. ASSUME NEW i \in InodeIdx, i # WNode PROVE Untouched(i)
    BY <2>1, <2>5, <2>7, ContentKept
  <2>8. ASSUME NEW i \in InodeIdx, i = WNode PROVE Untouched(i)
    BY <2>1, <2>8 DEF Untouched
  <2> QED
    BY <2>6, <2>7, <2>8
<1>7. CASE WriteBitmap
  <2>1. torn' = torn /\ inodes' = inodes /\ dData' = dData /\ op'.pc = "idle"
    BY <1>7, NoOpType DEF WriteBitmap, memory
  <2> QED
    BY <1>r, <1>s, <2>1, ExtentKept, ContentKept
<1> QED
  BY <1>1, <1>2, <1>3, <1>4, <1>5, <1>6, <1>7 DEF fs_write

\* What every step preserves when power never fails.
FileInv == MetaInv /\ OwnershipInv /\ DataInv /\ ExtentInv

(* Whatever sector accesses fail, an operation changes the bytes of no file but
   the one it writes or deletes. *)
THEOREM FilesKeepTheirBytes ==
    ASSUME "superread" \notin Faults, MaxCrashes = 0
    PROVE  Spec => OtherFilesUntouched
<1>1. Init => FileInv
  <2> SUFFICES ASSUME Init PROVE FileInv
    OBVIOUS
  <2>1. op.pc = "off" /\ ~torn /\ ~ready
    BY AtType DEF Init, PCs
  <2>2. \A i \in InodeIdx : inodes[i].size <= MaxFileSize
    BY FsAssumption DEF Init, ZeroInode, MaxFileSize
  <2>3. ExtentInv
    BY <2>1, <2>2 DEF ExtentInv
  <2> QED
    BY <2>3, MetaInit, OwnInit, DataInit DEF FileInv
<1>2. FileInv /\ [Next]_vars => FileInv' /\ [\A i \in InodeIdx \ {0} : Untouched(i)]_vars
  <2> SUFFICES ASSUME FileInv, [Next]_vars
               PROVE  FileInv' /\ [\A i \in InodeIdx \ {0} : Untouched(i)]_vars
    OBVIOUS
  <2> USE DEF FileInv
  <2>1. MetaInv' /\ OwnershipInv' /\ DataInv'
    BY MetaStep, OwnStep, DataStep
  <2>2. CASE UNCHANGED vars
    <3>1. ExtentInv'
      BY <2>2 DEF vars, ExtentInv, WSector, WNode, WBlock, WPos
    <3> QED
      BY <2>1, <2>2, <3>1
  <2>3. CASE Next
    BY <2>1, <2>3, ExtentBoot, ExtentFiles, ExtentWrite DEF Next
  <2> QED
    BY <2>2, <2>3
<1> QED
  BY <1>1, <1>2, PTL DEF Spec, OtherFilesUntouched

-----------------------------------------------------------------------------
(* What the callers see: the refinement of FileStore.  While fs_write() runs  *)
(* its progress counts as done (StoreMapping); the name of a new file counts  *)
(* when its entry is written, a deleted file is gone when its inode is freed. *)

\* What the mapping sees of a running system.
LEMMA RunningView ==
    ASSUME MetaInv, op.pc \in Running, ready
    PROVE  /\ dSuper /\ Nodes = inodes /\ FileNow = FileOf(dDir, inodes)
           /\ dDir \in [Slots -> Entry] /\ inodes \in Table
<1>1. dSuper /\ DirClean /\ inodes \in Table /\ dDir \in [Slots -> Entry \cup {Junk}]
  BY DEF MetaInv, FormatOrder, MetaTypeOK, Table
<1>2. Nodes = inodes
  BY DEF Nodes
<1> QED
  BY <1>1, <1>2 DEF FileNow, DirClean

\* The same after a step.
LEMMA RunningViewNext ==
    ASSUME MetaInv', op'.pc \in Running, ready'
    PROVE  /\ dSuper' /\ Nodes' = inodes' /\ FileNow' = FileOf(dDir', inodes')
           /\ dDir' \in [Slots -> Entry] /\ inodes' \in Table
<1>1. dSuper' /\ DirClean' /\ inodes' \in Table /\ dDir' \in [Slots -> Entry \cup {Junk}]
  BY DEF MetaInv, FormatOrder, MetaTypeOK, Table
<1>2. Nodes' = inodes'
  BY DEF Nodes
<1> QED
  BY <1>1, <1>2 DEF FileNow, DirClean

\* A name leads to the one file its entry gives.
LEMMA FileOfIs ==
    ASSUME NEW dir \in [Slots -> Entry], NEW tbl, NEW n \in Names,
           \A s, t \in Slots : dir[s].name = n /\ dir[t].name = n => s = t
    PROVE  /\ FileOf(dir, tbl)[n] \in InodeIdx
           /\ \A i \in InodeIdx \ {0} : FileOf(dir, tbl)[n] = i <=> i \in FilesNamed(dir, tbl, n)
<1>1. FilesNamed(dir, tbl, n) \subseteq InodeIdx \ {0} /\ 0 \in InodeIdx
  BY FsAssumption DEF FilesNamed, InodeIdx
<1>2. \A i, j \in FilesNamed(dir, tbl, n) : i = j
  BY DEF FilesNamed
<1>3. CASE FilesNamed(dir, tbl, n) = {}
  <2>1. FileOf(dir, tbl)[n] = 0
    BY <1>3 DEF FileOf
  <2> QED
    BY <1>1, <1>3, <2>1
<1>4. CASE FilesNamed(dir, tbl, n) # {}
  <2>1. FileOf(dir, tbl)[n] = CHOOSE i \in FilesNamed(dir, tbl, n) : TRUE
    BY <1>4 DEF FileOf
  <2>2. FileOf(dir, tbl)[n] \in FilesNamed(dir, tbl, n)
    BY <1>4, <2>1
  <2> QED
    BY <1>1, <1>2, <2>2
<1> QED
  BY <1>3, <1>4

\* Only the names and the live files matter.
LEMMA FileOfSame ==
    ASSUME NEW dir, NEW dir2, NEW tbl, NEW tbl2,
           \A n \in Names : FilesNamed(dir2, tbl2, n) = FilesNamed(dir, tbl, n)
    PROVE  FileOf(dir2, tbl2) = FileOf(dir, tbl)
<1> DEFINE Pick(S) == IF S = {} THEN 0 ELSE CHOOSE i \in S : TRUE
<1>1. /\ FileOf(dir, tbl) = [n \in Names |-> Pick(FilesNamed(dir, tbl, n))]
      /\ FileOf(dir2, tbl2) = [n \in Names |-> Pick(FilesNamed(dir2, tbl2, n))]
  BY DEF FileOf
<1> HIDE DEF Pick
<1> QED
  BY <1>1

\* A file whose extent and sectors stay holds the text it held.
LEMMA TextKept ==
    ASSUME NEW i \in InodeIdx, SizeNow'[i] = SizeNow[i], SizeNow[i] \in Nat,
           \A a \in 0 .. (SizeNow[i] - 1) :
               LET b == a \div BlockSize IN
               /\ Nodes'[i].direct[b] = Nodes[i].direct[b]
               /\ dData'[Nodes[i].direct[b]] = dData[Nodes[i].direct[b]]
    PROVE  TextNow'[i] = TextNow[i]
<1>1. ASSUME NEW a \in 1 .. SizeNow[i]
      PROVE  dData'[Nodes'[i].direct[(a - 1) \div BlockSize]][(a - 1) % BlockSize]
             = dData[Nodes[i].direct[(a - 1) \div BlockSize]][(a - 1) % BlockSize]
  <2>1. a - 1 \in 0 .. (SizeNow[i] - 1)
    OBVIOUS
  <2> QED
    BY <2>1
<1> QED
  BY <1>1 DEF TextNow

\* The same names with the same texts are the same files.
LEMMA FilesKept ==
    ASSUME FileNow' = FileNow,
           \A n \in Names : FileNow[n] # 0 => TextNow'[FileNow[n]] = TextNow[FileNow[n]]
    PROVE  absFiles' = absFiles
  BY DEF absFiles

\* Handles on the same files at the same positions are the same handles.
LEMMA HandlesKept ==
    ASSUME FileNow' = FileNow, PosNow' = PosNow,
           \A h \in HandleIdx : handles'[h].inode = handles[h].inode
    PROVE  absHandles' = absHandles
  BY DEF absHandles

\* Outside fs_write() sizes and positions are those the tables have.
LEMMA AtRest ==
    /\ op.pc \notin Writing => /\ SizeNow = [i \in InodeIdx |-> Nodes[i].size]
                               /\ PosNow = [h \in HandleIdx |-> handles[h].position]
    /\ op'.pc \notin Writing => /\ SizeNow' = [i \in InodeIdx |-> Nodes'[i].size]
                                /\ PosNow' = [h \in HandleIdx |-> handles'[h].position]
  BY DEF SizeNow, PosNow

\* Initially there are no files.
LEMMA StoreInit ==
    ASSUME Init
    PROVE  Store!Init /\ TextInv
<1>1. op.pc = "off" /\ ~dSuper /\ ~ready /\ got = <<>>
  BY AtType DEF Init, PCs
<1>2. \A h \in HandleIdx : handles[h].inode < 0
  BY FsAssumption DEF Init, ClosedHandle
<1>3. absFiles = [n \in Names |-> Absent]
  BY <1>1 DEF absFiles, FileNow
<1>4. absHandles = [h \in HandleIdx |-> Closed]
  BY <1>2 DEF absHandles
<1>5. TextInv
  <2>1. "off" \notin Running /\ "off" \notin Formatting
    BY DEF Running, Formatting
  <2>2. ~(handles[0].inode >= 0) /\ \A h \in HandleIdx : ~(handles[h].inode >= 0)
    BY <1>2, FsAssumption DEF Init, ClosedHandle, HandleIdx
  <2> QED
    BY <1>1, <1>2, <2>1, <2>2 DEF TextInv, HandleInside
<1> QED
  BY <1>1, <1>3, <1>4, <1>5 DEF Store!Init

\* While nothing is mounted no handle is open.
LEMMA NothingOpen ==
    ASSUME \A h \in HandleIdx : handles[h].inode < 0,
           \A h \in HandleIdx : handles'[h].inode < 0
    PROVE  absHandles' = absHandles
  BY DEF absHandles

\* An empty file is covered.
LEMMA EmptyCovered ==
    ASSUME op'.pc \notin Writing, NEW i \in InodeIdx, Nodes'[i].size = 0
    PROVE  Covered(i)'
<1>1. SizeNow'[i] = 0
  BY AtRest
<1>2. 0 <= MaxFileSize
  BY FsAssumption DEF MaxFileSize
<1> QED
  BY <1>1, <1>2 DEF Covered

\* fs_format() and fs_init() are nothing to the callers.
LEMMA StoreBoot ==
    ASSUME StoreInv, MetaInv', TextInv, Dependable, "superread" \notin Faults,
           fs_format \/ fs_init
    PROVE  TextInv' /\ absFiles' = absFiles /\ absHandles' = absHandles /\ got' = got
<1>t. /\ MetaTypeOK /\ op \in OpRec /\ op' \in OpRec /\ inodes \in Table
      /\ handles \in [HandleIdx -> Handle]
  BY DEF StoreInv, MetaInv, MetaTypeOK, OpRec, Table
<1>f. ~Fails /\ op.pc # "dead" /\ op.pc # "f_unalloc"
  BY <1>t, NoFails DEF StoreInv, Dependable, OwnershipInv, DiskFollows
<1>w. ~WriteFails /\ ~ReadFails /\ ~MountReadFails
  BY <1>f DEF WriteFails, ReadFails, MountReadFails
<1>r. "idle" \in Running /\ "idle" \notin Writing /\ "off" \notin Writing
  BY DEF Running, PCs, Formatting, Writing
<1>n. ASSUME op.pc \in Formatting \cup {"off"}
      PROVE  ~ready /\ \A h \in HandleIdx : handles[h].inode < 0
  BY <1>n DEF StoreInv, DirectoryInv, Running, TextInv
<1>o. (\A h \in HandleIdx : handles'[h] = ClosedHandle)
      => \A h \in HandleIdx : handles'[h].inode < 0 /\ HandleInside(h)'
  BY DEF ClosedHandle, HandleInside
<1>1. ASSUME \/ FormatStart \/ FormatAlloc \/ FormatZero
             \/ FormatInode \/ FormatBitmap
      PROVE  TextInv' /\ absFiles' = absFiles /\ absHandles' = absHandles /\ got' = got
  <2>1. /\ op.pc \in Formatting \cup {"off"} /\ dSuper' = dSuper /\ got' = got
        /\ ready' = ready /\ handles' = handles
        /\ op.pc = "off" => ~dSuper
    BY <1>1, Zenon DEF FormatStart, FormatAlloc, FormatZero, FormatInode, FormatBitmap,
                AllocBitmap, memory, Formatting
  <2>2. ~dSuper /\ ~ready /\ \A h \in HandleIdx : handles[h].inode < 0
    BY <1>n, <2>1 DEF StoreInv, MetaInv, FormatOrder
  <2>3. \A i \in InodeIdx : inodes'[i].size = 0
    <3>1. CASE FormatStart
      BY <3>1, FsAssumption DEF FormatStart, FileInode, ZeroInode, InodeIdx
    <3>2. CASE ~FormatStart
      <4>1. op.pc \in Formatting
        BY <1>1, <3>2, Zenon DEF FormatAlloc, FormatZero, FormatInode, FormatBitmap, Formatting
      <4>2. \/ inodes' = inodes
            \/ inodes' = [inodes EXCEPT ![0].direct[op.i] = op.sector]
        BY <1>1, <3>2, Zenon DEF FormatAlloc, FormatZero, FormatInode, FormatBitmap,
                AllocBitmap, memory
      <4>3. \A i \in InodeIdx : inodes'[i].size = inodes[i].size
        BY <1>t, <4>2 DEF Table, Inode
      <4> QED
        BY <4>1, <4>3 DEF TextInv
    <3> QED
      BY <3>1, <3>2
  <2>4. op'.pc \in Formatting
    <3>1. \/ \E p \in {"f_alloc", "f_bitmap", "f_super"} : op' = At(p)
          \/ \E s : op' = [op EXCEPT !.pc = "f_zero", !.sector = s]
          \/ \E i : op' = [op EXCEPT !.pc = "f_alloc", !.i = i]
          \/ \E i : op' = [op EXCEPT !.pc = "f_inode", !.i = i]
      BY <1>1, <1>w, Zenon DEF FormatStart, FormatAlloc, FormatZero, FormatInode, FormatBitmap,
                AllocBitmap, SaveInodeFails, SaveBitmapFails
    <3>2. "f_alloc" \in PCs /\ "f_bitmap" \in PCs /\ "f_super" \in PCs
      BY DEF PCs
    <3>3. op'.pc \in {"f_alloc", "f_bitmap", "f_super", "f_zero", "f_inode"}
      BY <1>t, <3>1, <3>2, AtType DEF OpRec
    <3> QED
      BY <3>3 DEF Formatting
  <2>5. absFiles' = absFiles
    BY <2>1, <2>2 DEF absFiles, FileNow
  <2>6. absHandles' = absHandles
    BY <2>1, <2>2, NothingOpen
  <2>7. \A h \in HandleIdx : HandleInside(h)'
    <3>1. \A h \in HandleIdx : handles[h].inode \in Int
      BY <1>t, FsAssumption DEF Handle, InodeIdx
    <3> QED
      BY <2>1, <2>2, <3>1 DEF HandleInside
  <2>8. TextInv'
    BY <2>1, <2>2, <2>3, <2>4, <2>7 DEF TextInv, Running, Formatting
  <2> QED
    BY <2>1, <2>5, <2>6, <2>8
<1>2. ASSUME FormatSuper
      PROVE  TextInv' /\ absFiles' = absFiles /\ absHandles' = absHandles /\ got' = got
  <2>1. /\ op.pc = "f_super" /\ op'.pc = "idle" /\ ready' /\ inodes' = inodes
        /\ dDir' = dDir /\ got' = got
        /\ \A h \in HandleIdx : handles'[h] = ClosedHandle
    BY <1>2, <1>w, NoOpType DEF FormatSuper
  <2>2. ~dSuper /\ \A h \in HandleIdx : handles[h].inode < 0
    BY <1>n, <2>1 DEF StoreInv, MetaInv, FormatOrder, Formatting
  <2>3. FileNow' = FileOf(dDir', inodes') /\ Nodes' = inodes'
    BY <1>r, <2>1, RunningViewNext
  <2>4. \A s \in Slots : dDir'[s].name = NoName
    BY <2>1 DEF StoreInv, DirectoryInv, ZeroEntry
  <2>5. \A n \in Names : FilesNamed(dDir', inodes', n) = {}
    BY <2>4, FsAssumption DEF FilesNamed
  <2>6. FileNow' = FileNow
    BY <2>2, <2>3, <2>5 DEF FileNow, FileOf
  <2>7. absFiles' = absFiles
    BY <2>2, <2>6 DEF absFiles, FileNow
  <2>8. absHandles' = absHandles
    BY <1>o, <2>1, <2>2, NothingOpen
  <2>9. \A i \in InodeIdx : Covered(i)'
    BY <1>r, <2>1, <2>3, EmptyCovered DEF TextInv, Formatting
  <2>10. TextInv'
    BY <1>o, <2>1, <2>9 DEF TextInv, Formatting
  <2> QED
    BY <2>1, <2>7, <2>8, <2>10
<1>3. ASSUME Mount
      PROVE  TextInv' /\ absFiles' = absFiles /\ absHandles' = absHandles /\ got' = got
  <2>1. /\ op.pc = "off" /\ op'.pc = "idle" /\ ready' /\ inodes' = dInodes
        /\ dDir' = dDir /\ got' = got /\ dData' = dData /\ dSuper /\ dSuper'
        /\ \A h \in HandleIdx : handles'[h] = ClosedHandle
    BY <1>3, NoOpType DEF Mount, disk
  <2>2. ~ready /\ \A h \in HandleIdx : handles[h].inode < 0
    BY <1>n, <2>1
  <2>3. Nodes' = Nodes
    BY <2>1, <2>2 DEF Nodes
  <2>4. SizeNow' = SizeNow
    BY <1>r, <2>1, <2>3, AtRest
  <2>5. TextNow' = TextNow
    BY <2>1, <2>3, <2>4 DEF TextNow
  <2>6. FileNow' = FileNow
    BY <2>1, <2>3 DEF FileNow
  <2>7. absFiles' = absFiles /\ absHandles' = absHandles
    BY <1>o, <2>1, <2>2, <2>5, <2>6, FilesKept, NothingOpen
  <2>8. \A i \in InodeIdx : Covered(i)'
    BY <2>1, <2>3, <2>4 DEF TextInv, Covered
  <2>9. TextInv'
    BY <1>o, <2>1, <2>8 DEF TextInv, Formatting
  <2> QED
    BY <2>1, <2>7, <2>9
<1> QED
  BY <1>1, <1>2, <1>3, <1>f, <1>w
     DEF fs_format, fs_init, MountFails, NotReady, FormatUnalloc

\* Between operations a power failure costs the handles and nothing else.
LEMMA StorePower ==
    ASSUME StoreInv, TextInv, Dependable, "crash" \notin Faults, PowerFailure
    PROVE  TextInv' /\ Store!Restart
<1>1. /\ op.pc = "idle" /\ op'.pc = "off" /\ ~ready' /\ got' = <<>> /\ dDir' = dDir
      /\ dSuper' = dSuper /\ dData' = dData /\ dInodes' = dInodes
      /\ handles' = [h \in HandleIdx |-> ClosedHandle]
  BY AtType DEF PowerFailure, disk, PCs
<1>r. /\ "idle" \in Running \ Writing /\ "off" \notin Writing
      /\ "off" \notin Running /\ "off" \notin Formatting
  BY DEF Running, PCs, Formatting, Writing
<1>2. ready /\ dInodes = inodes
  BY <1>1, <1>r DEF StoreInv, OwnershipInv, DiskFollows, Dependable, TextInv
<1>3. Nodes' = Nodes
  BY <1>1, <1>2 DEF Nodes
<1>4. SizeNow' = SizeNow
  BY <1>1, <1>3, <1>r, AtRest
<1>5. TextNow' = TextNow /\ FileNow' = FileNow
  BY <1>1, <1>3, <1>4 DEF TextNow, FileNow
<1>6. absFiles' = absFiles
  BY <1>5, FilesKept
<1>7. \A h \in HandleIdx : handles'[h].inode < 0 /\ HandleInside(h)'
  BY <1>1 DEF ClosedHandle, HandleInside
<1>8. absHandles' = [h \in HandleIdx |-> Closed]
  BY <1>7 DEF absHandles
<1>9. \A i \in InodeIdx : dSuper' => Covered(i)'
  BY <1>1, <1>3, <1>4 DEF TextInv, Covered
<1>10. TextInv'
  BY <1>1, <1>7, <1>9, <1>r DEF TextInv
<1> QED
  BY <1>1, <1>6, <1>8, <1>10 DEF Store!Restart

\* The file of a name, while the system runs.
LEMMA FileNowIs ==
    ASSUME StoreInv, TextInv, op.pc \in Running, NEW n \in Names
    PROVE  /\ FileNow[n] \in InodeIdx
           /\ \A i \in InodeIdx \ {0} :
                 FileNow[n] = i <=>
                    /\ inodes[i].mode = "FILE"
                    /\ \E s \in UsedSlots : dDir[s].name = n /\ dDir[s].inode = i
<1>1. ready /\ MetaInv /\ EntriesDiffer
  BY DEF StoreInv, TextInv, DirectoryInv, LeakInv
<1>2. FileNow = FileOf(dDir, inodes) /\ dDir \in [Slots -> Entry]
  BY <1>1, RunningView
<1>3. \A s \in Slots : dDir[s].name = n => s \in UsedSlots
  BY FsAssumption DEF UsedSlots
<1>4. \A s, t \in Slots : dDir[s].name = n /\ dDir[t].name = n => s = t
  BY <1>1, <1>3 DEF EntriesDiffer
<1>5. \A i \in InodeIdx \ {0} :
         i \in FilesNamed(dDir, inodes, n) <=>
             /\ inodes[i].mode = "FILE"
             /\ \E s \in UsedSlots : dDir[s].name = n /\ dDir[s].inode = i
  BY <1>3 DEF FilesNamed, UsedSlots
<1> QED
  BY <1>2, <1>4, <1>5, FileOfIs

\* The same after a step.
LEMMA FileNowNext ==
    ASSUME StoreInv', op'.pc \in Running, ready', NEW n \in Names
    PROVE  /\ FileNow'[n] \in InodeIdx
           /\ \A i \in InodeIdx \ {0} :
                 FileNow'[n] = i <=>
                    /\ inodes'[i].mode = "FILE"
                    /\ \E s \in UsedSlots' : dDir'[s].name = n /\ dDir'[s].inode = i
<1>1. MetaInv' /\ EntriesDiffer'
  BY DEF StoreInv, DirectoryInv, LeakInv
<1>2. FileNow' = FileOf(dDir', inodes') /\ dDir' \in [Slots -> Entry]
  BY <1>1, RunningViewNext
<1>3. \A s \in Slots : dDir'[s].name = n => s \in UsedSlots'
  BY FsAssumption DEF UsedSlots
<1>4. \A s, t \in Slots : dDir'[s].name = n /\ dDir'[t].name = n => s = t
  BY <1>1, <1>3 DEF EntriesDiffer
<1>5. \A i \in InodeIdx \ {0} :
         i \in FilesNamed(dDir', inodes', n) <=>
             /\ inodes'[i].mode = "FILE"
             /\ \E s \in UsedSlots' : dDir'[s].name = n /\ dDir'[s].inode = i
  BY <1>3 DEF FilesNamed, UsedSlots
<1> QED
  BY <1>2, <1>4, <1>5, FileOfIs

\* The name of a file that has one.
LEMMA NameInIs ==
    ASSUME NEW f, NEW i, NEW n \in Names, f[n] = i, \A m \in Names : f[m] = i => m = n
    PROVE  NameIn(f, i) = n
  BY DEF NameIn

\* An open handle is on a file with one name.
LEMMA HandleNamed ==
    ASSUME StoreInv, TextInv, op.pc \in Running, NEW h \in HandleIdx, handles[h].inode >= 0
    PROVE  /\ handles[h].inode \in InodeIdx \ {0} /\ inodes[handles[h].inode].mode = "FILE"
           /\ \E n \in Names :
                 /\ FileNow[n] = handles[h].inode
                 /\ \A m \in Names : FileNow[m] = handles[h].inode => m = n
                 /\ absHandles[h] = [name |-> n, pos |-> PosNow[h]]
<1> DEFINE i == handles[h].inode
<1>1. i \in InodeIdx \ {0}
  BY FsAssumption DEF StoreInv, MetaInv, MetaTypeOK, Handle, TextInv, HandleInside
<1>2. inodes[i].mode = "FILE" /\ EntriesDiffer /\ DirClean
  BY <1>1, RunningView DEF StoreInv, LeakInv, NoStale, DirectoryInv, MetaInv, FormatOrder
<1>3. Named(i)
  BY <1>1, <1>2 DEF StoreInv, LeakInv, TextInv, HandleInside
<1>4. PICK s \in UsedSlots : dDir[s].inode = i
  BY <1>3 DEF Named
<1>5. dDir[s].name \in Names
  BY <1>2, <1>4 DEF UsedSlots, DirClean, Entry
<1>6. FileNow[dDir[s].name] = i
  BY <1>1, <1>2, <1>4, <1>5, FileNowIs
<1>7. ASSUME NEW m \in Names, FileNow[m] = i PROVE m = dDir[s].name
  <2>1. \E t \in UsedSlots : dDir[t].name = m /\ dDir[t].inode = i
    BY <1>1, <1>7, FileNowIs
  <2> QED
    BY <1>2, <1>4, <2>1 DEF EntriesDiffer
<1>8. NameIn(FileNow, i) = dDir[s].name
  BY <1>5, <1>6, <1>7, NameInIs
<1>9. i \in Nat
  BY <1>1, FsAssumption DEF InodeIdx
<1>10. absHandles[h] = [name |-> dDir[s].name, pos |-> PosNow[h]]
  BY <1>8, <1>9 DEF absHandles
<1> QED
  BY <1>1, <1>2, <1>5, <1>6, <1>7, <1>10

\* A file holds units of data, which is not to be absent.
LEMMA TextType ==
    ASSUME StoreInv, TextInv, op.pc \in Running, NEW i \in InodeIdx
    PROVE  /\ SizeNow[i] \in Nat /\ SizeNow[i] <= MaxFileSize
           /\ TextNow[i] \in [1 .. SizeNow[i] -> Unit]
           /\ TextNow[i] # Absent /\ TextNow[i] \in Seq(Unit) /\ Len(TextNow[i]) = SizeNow[i]
<1>1. ready /\ dSuper /\ Nodes = inodes /\ inodes[i] \in Inode
  BY RunningView DEF StoreInv, TextInv, Table
<1>2. SizeNow[i] \in Nat
  <2>1. op.pc \in Writing => WPos \in Nat
    BY ChunkType DEF StoreInv
  <2>2. inodes[i].size \in Nat
    BY <1>1 DEF Inode
  <2> QED
    BY <1>1, <2>1, <2>2 DEF SizeNow
<1>3. Covered(i) /\ SizeNow[i] <= MaxFileSize
  BY <1>1 DEF TextInv, Covered
<1>4. ASSUME NEW a \in 1 .. SizeNow[i]
      PROVE  dData[inodes[i].direct[(a - 1) \div BlockSize]][(a - 1) % BlockSize] \in Unit
  <2>1. a - 1 \in 0 .. (SizeNow[i] - 1)
    BY <1>2
  <2> DEFINE b == (a - 1) \div BlockSize
             u == (a - 1) % BlockSize
  <2>2. b \in BlockIdx /\ u \in 0 .. (BlockSize - 1)
    BY <1>2, <1>3, <2>1, PositionInside
  <2>3. inodes[i].direct[b] # 0
    BY <1>1, <1>3, <2>1 DEF Covered
  <2>4. inodes[i].direct[b] \in SectorsOf(inodes[i])
    BY <2>2, <2>3 DEF SectorsOf
  <2>5. dData[inodes[i].direct[b]] \in Block
    BY <2>4 DEF StoreInv, DataInv
  <2> QED
    BY <2>2, <2>5 DEF Block
<1>5. TextNow[i] = [a \in 1 .. SizeNow[i] |->
                       dData[inodes[i].direct[(a - 1) \div BlockSize]][(a - 1) % BlockSize]]
  BY <1>1 DEF TextNow
<1>6. TextNow[i] \in [1 .. SizeNow[i] -> Unit]
  BY <1>4, <1>5
<1>7. SizeNow[i] \in 0 .. MaxFileSize
  BY <1>2, <1>3, FsAssumption DEF MaxFileSize
<1>8. TextNow[i] \in Seq(Unit) /\ Len(TextNow[i]) = SizeNow[i]
  BY <1>2, <1>6
<1> QED
  BY <1>2, <1>3, <1>6, <1>7, <1>8, StoreAssumption

\* Outside fs_write(), a file whose inode stays is covered as before.
LEMMA CoveredKept ==
    ASSUME op.pc \notin Writing, op'.pc \notin Writing, NEW i \in InodeIdx,
           Nodes'[i] = Nodes[i], Covered(i)
    PROVE  Covered(i)'
<1>1. SizeNow'[i] = SizeNow[i]
  BY AtRest
<1> QED
  BY <1>1 DEF Covered

\* Outside fs_write(), a file whose inode stays holds what it held.
LEMMA TextKeptAtRest ==
    ASSUME op.pc \notin Writing, op'.pc \notin Writing, NEW i \in InodeIdx,
           Nodes'[i] = Nodes[i], dData' = dData
    PROVE  TextNow'[i] = TextNow[i]
<1>1. SizeNow'[i] = SizeNow[i]
  BY AtRest
<1> QED
  BY <1>1 DEF TextNow

\* While the system runs TextInv is about handles and covered files.
LEMMA TextRunning ==
    ASSUME op'.pc \in Running, ready', op'.pc = "c_dir" => inodes'[op'.ino].size = 0,
           \A h \in HandleIdx : HandleInside(h)', \A i \in InodeIdx : Covered(i)'
    PROVE  TextInv'
  BY DEF TextInv, Running

\* A step that leaves tables, directory and data alone.
LEMMA StoreQuiet ==
    ASSUME StoreInv, TextInv, MetaInv',
           op.pc \in Running \ Writing, op'.pc \in Running \ (Writing \cup {"c_dir"}),
           UNCHANGED <<ready, inodes, handles, dDir, dData>>
    PROVE  TextInv' /\ absFiles' = absFiles /\ absHandles' = absHandles
<1>1. ready /\ MetaInv
  BY DEF TextInv, StoreInv
<1>2. /\ Nodes' = inodes /\ Nodes = inodes /\ FileNow' = FileNow /\ dSuper
  BY <1>1, RunningView, RunningViewNext
<1>3. PosNow' = PosNow /\ TextNow' = TextNow
  <2>1. PosNow' = PosNow /\ SizeNow' = SizeNow
    BY <1>2, AtRest
  <2> QED
    BY <1>2, <2>1 DEF TextNow
<1>4. \A h \in HandleIdx : HandleInside(h)'
  BY DEF TextInv, HandleInside
<1>5. \A i \in InodeIdx : Covered(i)'
  BY <1>2, CoveredKept DEF TextInv
<1> QED
  BY <1>1, <1>2, <1>3, <1>4, <1>5, FilesKept, HandlesKept, TextRunning

\* Names that lead to the same files before and after a step.
LEMMA FileNowSame ==
    ASSUME StoreInv, StoreInv', TextInv, op.pc \in Running, op'.pc \in Running, ready',
           \A n \in Names : \A i \in InodeIdx \ {0} : FileNow'[n] = i <=> FileNow[n] = i
    PROVE  FileNow' = FileNow
<1>1. ASSUME NEW n \in Names PROVE FileNow'[n] = FileNow[n]
  <2>1. FileNow'[n] \in InodeIdx /\ FileNow[n] \in InodeIdx
    BY FileNowIs, FileNowNext
  <2> QED
    BY <2>1
<1>2. FileNow = FileOf(dDir, inodes) /\ FileNow' = FileOf(dDir', inodes')
  BY RunningView, RunningViewNext DEF StoreInv, TextInv
<1>3. FileNow = [n \in Names |-> FileNow[n]] /\ FileNow' = [n \in Names |-> FileNow'[n]]
  BY <1>2 DEF FileOf
<1> QED
  BY <1>1, <1>3

\* Handles keep their names when other files get or lose theirs.
LEMMA HandlesNamedAsBefore ==
    ASSUME StoreInv, TextInv, op.pc \in Running, handles' = handles, PosNow' = PosNow,
           \A h \in HandleIdx : handles[h].inode >= 0 =>
               \A m \in Names : FileNow'[m] = handles[h].inode <=> FileNow[m] = handles[h].inode
    PROVE  absHandles' = absHandles
<1>1. ASSUME NEW h \in HandleIdx PROVE absHandles'[h] = absHandles[h]
  <2>1. CASE handles[h].inode >= 0
    <3>1. PICK n \in Names :
             /\ FileNow[n] = handles[h].inode
             /\ \A m \in Names : FileNow[m] = handles[h].inode => m = n
             /\ absHandles[h] = [name |-> n, pos |-> PosNow[h]]
      BY <2>1, HandleNamed
    <3>2. NameIn(FileNow', handles[h].inode) = n
      <4>1. FileNow'[n] = handles[h].inode
        BY <2>1, <3>1
      <4>2. \A m \in Names : FileNow'[m] = handles[h].inode => m = n
        BY <2>1, <3>1
      <4> QED
        BY <4>1, <4>2, NameInIs
    <3>3. ~(handles[h].inode < 0)
      BY <2>1, HandleNamed, FsAssumption DEF InodeIdx
    <3>4. absHandles'[h] = [name |-> NameIn(FileNow', handles[h].inode), pos |-> PosNow'[h]]
      BY <3>3 DEF absHandles
    <3> QED
      BY <3>1, <3>2, <3>4
  <2>2. CASE ~(handles[h].inode >= 0)
    <3>1. handles[h].inode < 0
      BY <2>2, FsAssumption DEF StoreInv, MetaInv, MetaTypeOK, Handle, InodeIdx
    <3> QED
      BY <3>1 DEF absHandles
  <2> QED
    BY <2>1, <2>2
<1> QED
  BY <1>1 DEF absHandles

\* An inode that find_dir_entry() returns is the one an entry of that name gives.
LEMMA FoundNamed ==
    ASSUME DirClean, NEW n \in Names, find_dir_entry(n, {}) >= 0
    PROVE  /\ find_dir_entry(n, {}) \in InodeIdx
           /\ \E s \in UsedSlots : dDir[s].name = n /\ dDir[s].inode = find_dir_entry(n, {})
<1> DEFINE hits == {s \in Slots \ {} : dDir[s].name = n}
<1>1. find_dir_entry(n, {}) \in InodeIdx \cup {-1}
  BY FindType
<1>2. hits # {}
  <2> SUFFICES ASSUME hits = {} PROVE FALSE
    OBVIOUS
  <2>1. find_dir_entry(n, {}) = -1
    BY DEF find_dir_entry
  <2> QED
    BY <2>1
<1>3. Lowest(hits) \in hits
  BY <1>2, LowestOfSet, SlotsAreNat
<1>4. find_dir_entry(n, {}) = dDir[Lowest(hits)].inode
  BY <1>2 DEF find_dir_entry
<1>5. Lowest(hits) \in UsedSlots /\ dDir[Lowest(hits)].name = n
  BY <1>3, FsAssumption DEF UsedSlots
<1> QED
  BY <1>1, <1>4, <1>5

\* fs_create() creates when it writes the entry.
LEMMA StoreCreate ==
    ASSUME StoreInv, StoreInv', TextInv, Dependable, fs_create
    PROVE  /\ TextInv'
           /\ \/ \E n \in Names : Store!Create(n)
              \/ absFiles' = absFiles /\ absHandles' = absHandles /\ got' = got
<1>t. MetaTypeOK /\ op \in OpRec /\ op' \in OpRec /\ inodes \in Table
      /\ op.ino \in InodeIdx /\ op.slot \in Slots /\ MetaInv /\ MetaInv'
  BY DEF StoreInv, MetaInv, MetaTypeOK, Table, OpRec
<1>w. ~WriteFails /\ ~ReadFails /\ op.pc # "c_undo"
  BY <1>t, NoFails DEF WriteFails, ReadFails, Dependable, StoreInv, OwnershipInv, DiskFollows
<1>h. \A hidden \in Unreadable : hidden = {}
  BY DEF Unreadable, Dependable
<1>r. {"idle", "c_dir"} \subseteq Running \ Writing
  BY DEF Running, PCs, Formatting, Writing
<1>1. CASE \E n \in Names : CreateStart(n)
  <2>1. PICK n \in Names : CreateStart(n)
    BY <1>1
  <2> DEFINE i == Lowest(FreeInodes)
             f == Lowest(FreeSlots({}))
  <2>2. /\ op.pc = "idle" /\ FreeInodes # {}
        /\ inodes' = [inodes EXCEPT ![i] = FileInode]
        /\ op' = [At("c_dir") EXCEPT !.ino = i, !.name = n, !.slot = f]
        /\ UNCHANGED <<ready, handles, dDir, dData, got>>
    BY <1>w, <1>h, <2>1 DEF CreateStart, SaveInodeFails
  <2>3. i \in InodeIdx \ {0} /\ inodes[i].mode = "FREE"
    BY <2>2, FreeInodeType DEF FreeInodes
  <2> HIDE DEF i, f
  <2>4. op'.pc = "c_dir" /\ op'.ino = i
    <3>1. At("c_dir") \in OpRec /\ At("c_dir").pc = "c_dir"
      BY AtType DEF PCs
    <3> QED
      BY <2>2, <3>1 DEF OpRec
  <2>5. ready /\ ready'
    BY <1>r, <2>2 DEF TextInv
  <2>6. /\ inodes'[i] = FileInode /\ FileInode.size = 0
        /\ \A j \in InodeIdx \ {i} : inodes'[j] = inodes[j]
    BY <1>t, <2>2, <2>3 DEF Table, FileInode, ZeroInode
  <2>7. Nodes' = inodes' /\ Nodes = inodes /\ dSuper
    BY <1>r, <1>t, <2>2, <2>4, <2>5, RunningView, RunningViewNext
  <2>8. \A s \in UsedSlots : dDir[s].inode # i
    <3>1. LeadsToFiles(inodes)
      BY <1>r, <2>2 DEF StoreInv, DirectoryInv, LeakInv
    <3> QED
      BY <2>2, <2>3, <3>1 DEF LeadsToFiles, BeingDeleted
  <2>9. UsedSlots' = UsedSlots
    BY <2>2 DEF UsedSlots
  <2>10. FileNow' = FileNow
    <3> SUFFICES ASSUME NEW m \in Names, NEW j \in InodeIdx \ {0}
                 PROVE  FileNow'[m] = j <=> FileNow[m] = j
      BY <1>r, <2>2, <2>4, <2>5, FileNowSame
    <3>1. CASE j = i
      BY <1>r, <2>2, <2>4, <2>5, <2>8, <2>9, <3>1, FileNowIs, FileNowNext
    <3>2. CASE j # i
      BY <1>r, <2>2, <2>4, <2>5, <2>6, <2>9, <3>2, FileNowIs, FileNowNext
    <3> QED
      BY <3>1, <3>2
  <2>11. ASSUME NEW m \in Names, FileNow[m] # 0 PROVE TextNow'[FileNow[m]] = TextNow[FileNow[m]]
    <3>1. FileNow[m] \in InodeIdx \ {0} /\ inodes[FileNow[m]].mode = "FILE"
      BY <1>r, <2>2, <2>11, FileNowIs
    <3>2. Nodes'[FileNow[m]] = Nodes[FileNow[m]]
      BY <2>3, <2>6, <2>7, <3>1
    <3> QED
      BY <1>r, <2>2, <2>4, <3>1, <3>2, TextKeptAtRest
  <2>12. absFiles' = absFiles
    BY <2>10, <2>11, FilesKept
  <2>13. absHandles' = absHandles
    <3>1. PosNow' = PosNow
      BY <1>r, <2>2, <2>4, AtRest
    <3> QED
      BY <2>2, <2>10, <3>1, HandlesKept
  <2>14. ASSUME NEW h \in HandleIdx PROVE HandleInside(h)'
    <3> SUFFICES ASSUME handles[h].inode >= 0 PROVE HandleInside(h)'
      BY <2>2 DEF HandleInside
    <3>1. handles[h].inode \in InodeIdx \ {0} /\ inodes[handles[h].inode].mode = "FILE"
      BY <1>r, <2>2, HandleNamed
    <3>2. handles[h].inode # i /\ inodes'[handles[h].inode] = inodes[handles[h].inode]
      BY <2>3, <2>6, <3>1
    <3> QED
      BY <2>2, <2>4, <3>2 DEF HandleInside, TextInv
  <2>15. ASSUME NEW j \in InodeIdx PROVE Covered(j)'
    <3>1. CASE j = i
      BY <1>r, <2>4, <2>6, <2>7, <3>1, EmptyCovered
    <3>2. CASE j # i
      BY <1>r, <2>2, <2>4, <2>6, <2>7, <3>2, CoveredKept DEF TextInv
    <3> QED
      BY <3>1, <3>2
  <2>16. TextInv'
    BY <1>r, <2>4, <2>5, <2>6, <2>14, <2>15, TextRunning
  <2> QED
    BY <2>2, <2>12, <2>13, <2>16
<1>2. CASE CreateEntry
  <2> DEFINE e == [name |-> op.name, inode |-> op.ino]
             n == op.name
  <2>1. /\ op.pc = "c_dir" /\ op'.pc = "idle"
        /\ dDir' = [dDir EXCEPT ![op.slot] = e]
        /\ UNCHANGED <<ready, inodes, handles, dData, got>>
    BY <1>2, <1>w, NoOpType DEF CreateEntry, DirWriteOk, DirWriteFails, EntrySaved
  <2>2. ready /\ ready'
    BY <1>r, <2>1 DEF TextInv
  <2>3. Nodes' = inodes /\ Nodes = inodes /\ dSuper
    BY <1>r, <1>t, <2>1, <2>2, RunningView, RunningViewNext
  <2>4. /\ op.ino # 0 /\ op.name # NoName /\ op.slot \notin UsedSlots
        /\ inodes[op.ino].mode = "FILE"
        /\ \A s \in UsedSlots : dDir[s].name # n /\ dDir[s].inode # op.ino
    BY <1>r, <2>1 DEF StoreInv, DirectoryInv, LeakInv, Naming
  <2>5. n \in Names
    BY <1>t, <2>4 DEF OpRec
  <2>6. /\ \A s \in UsedSlots : dDir'[s] = dDir[s]
        /\ dDir'[op.slot].name = n /\ dDir'[op.slot].inode = op.ino
        /\ UsedSlots' = UsedSlots \cup {op.slot}
    <3>1. dDir'[op.slot] = e /\ \A s \in Slots \ {op.slot} : dDir'[s] = dDir[s]
      BY <1>t, <2>1 DEF MetaTypeOK
    <3> QED
      BY <1>t, <2>4, <3>1 DEF UsedSlots
  <2>7. FileNow[n] = 0 /\ FileNow'[n] = op.ino
    <3>1. \A i \in InodeIdx \ {0} : FileNow[n] # i
      BY <1>r, <2>1, <2>4, <2>5, FileNowIs
    <3>2. FileNow[n] = 0
      BY <1>r, <2>1, <2>5, <3>1, FileNowIs
    <3>3. FileNow'[n] = op.ino
      BY <1>r, <1>t, <2>1, <2>2, <2>4, <2>5, <2>6, FileNowNext
    <3> QED
      BY <3>2, <3>3
  <2>8. ASSUME NEW m \in Names \ {n} PROVE FileNow'[m] = FileNow[m] /\ FileNow[m] # op.ino
    <3>1. FileNow'[m] \in InodeIdx /\ FileNow[m] \in InodeIdx
      BY <1>r, <2>1, <2>2, FileNowIs, FileNowNext
    <3>2. \A i \in InodeIdx \ {0} : FileNow'[m] = i <=> FileNow[m] = i
      BY <1>r, <2>1, <2>2, <2>6, FileNowIs, FileNowNext
    <3>3. FileNow[m] # op.ino
      BY <1>r, <1>t, <2>1, <2>4, FileNowIs
    <3> QED
      BY <3>1, <3>2, <3>3
  <2>9. SizeNow' = SizeNow /\ PosNow' = PosNow
    BY <1>r, <2>1, <2>3, AtRest
  <2>10. TextNow' = TextNow
    BY <2>1, <2>3, <2>9 DEF TextNow
  <2>11. TextNow[op.ino] = <<>>
    <3>1. SizeNow[op.ino] = 0
      BY <1>r, <1>t, <2>1, <2>3, AtRest DEF TextInv
    <3>2. TextNow[op.ino] \in Seq(Unit) /\ Len(TextNow[op.ino]) = 0
      BY <1>r, <1>t, <2>1, <3>1, TextType
    <3> QED
      BY <3>2
  <2>12. absFiles[n] = Absent /\ absFiles'[n] = <<>>
    BY <2>4, <2>5, <2>7, <2>10, <2>11 DEF absFiles
  <2>13. \A m \in Names \ {n} : absFiles'[m] = absFiles[m]
    BY <2>8, <2>10 DEF absFiles
  <2>14. absFiles' = [absFiles EXCEPT ![n] = <<>>]
    <3>1. absFiles = [m \in Names |-> absFiles[m]] /\ absFiles' = [m \in Names |-> absFiles'[m]]
      BY DEF absFiles
    <3> QED
      BY <2>12, <2>13, <3>1
  <2>15. absHandles' = absHandles
    <3>1. ASSUME NEW h \in HandleIdx, handles[h].inode >= 0, NEW m \in Names
          PROVE  FileNow'[m] = handles[h].inode <=> FileNow[m] = handles[h].inode
      <4>1. handles[h].inode # op.ino /\ handles[h].inode # 0
        BY <2>1, <3>1 DEF TextInv, HandleInside
      <4> QED
        BY <2>7, <2>8, <4>1
    <3> QED
      BY <1>r, <2>1, <2>9, <3>1, HandlesNamedAsBefore
  <2>16. \A h \in HandleIdx : HandleInside(h)'
    BY <2>1 DEF TextInv, HandleInside
  <2>17. \A i \in InodeIdx : Covered(i)'
    BY <1>r, <2>1, <2>3, CoveredKept DEF TextInv
  <2>18. TextInv'
    BY <1>r, <2>1, <2>2, <2>16, <2>17, TextRunning
  <2>19. Store!Create(n)
    BY <2>1, <2>12, <2>14, <2>15 DEF Store!Create
  <2> QED
    BY <2>5, <2>18, <2>19
<1> QED
  BY <1>1, <1>2, <1>w DEF fs_create, CreateUndo

\* fs_delete() deletes at its first step: the inode is free from then on.
LEMMA StoreDelete ==
    ASSUME StoreInv, StoreInv', TextInv, Dependable, fs_delete
    PROVE  /\ TextInv'
           /\ \/ \E n \in Names : Store!Delete(n)
              \/ absFiles' = absFiles /\ absHandles' = absHandles /\ got' = got
<1>t. MetaTypeOK /\ op \in OpRec /\ op' \in OpRec /\ inodes \in Table
      /\ op.ino \in InodeIdx /\ MetaInv /\ MetaInv'
  BY DEF StoreInv, MetaInv, MetaTypeOK, Table, OpRec
<1>w. ~WriteFails /\ ~ReadFails
  BY <1>t, NoFails DEF WriteFails, ReadFails, Dependable
<1>h. \A hidden \in Unreadable : hidden = {}
  BY DEF Unreadable, Dependable
<1>r. /\ {"idle", "d_inode", "d_dir"} \subseteq Running \ Writing
      /\ {"idle", "d_inode", "d_dir"} \subseteq Running \ (Writing \cup {"c_dir"})
  BY DEF Running, PCs, Formatting, Writing
<1>1. CASE \E n \in Names : DeleteStart(n)
  <2>1. PICK n \in Names : DeleteStart(n)
    BY <1>1
  <2> DEFINE i == find_dir_entry(n, {})
  <2>2. /\ op.pc = "idle" /\ i > 0
        /\ inodes' = [inodes EXCEPT ![i] = ZeroInode]
        /\ op' = [At("d_inode") EXCEPT !.ino = i]
        /\ UNCHANGED <<ready, handles, dDir, dData, got>>
    BY <1>w, <1>h, <2>1 DEF DeleteStart, SaveBitmapFails
  <2>3. ready /\ ready' /\ DirClean
    BY <1>r, <1>t, <2>2, RunningFacts DEF TextInv, StoreInv, Dependable
  <2>4. i \in InodeIdx \ {0} /\ \E s \in UsedSlots : dDir[s].name = n /\ dDir[s].inode = i
    <3>1. i \in Int
      BY <2>3, FindType, FsAssumption DEF InodeIdx
    <3>2. i >= 0 /\ i # 0
      BY <2>2, <3>1
    <3> QED
      BY <2>3, <3>2, FoundNamed
  <2> HIDE DEF i
  <2>5. op'.pc = "d_inode"
    <3>1. At("d_inode") \in OpRec /\ At("d_inode").pc = "d_inode"
      BY AtType DEF PCs
    <3> QED
      BY <2>2, <3>1 DEF OpRec
  <2>6. /\ inodes'[i] = ZeroInode /\ ZeroInode.size = 0 /\ ZeroInode.mode = "FREE"
        /\ \A j \in InodeIdx \ {i} : inodes'[j] = inodes[j]
    BY <1>t, <2>2, <2>4 DEF Table, ZeroInode
  <2>7. Nodes' = inodes' /\ Nodes = inodes /\ dSuper /\ UsedSlots' = UsedSlots
    BY <1>r, <1>t, <2>2, <2>3, <2>5, RunningView, RunningViewNext DEF UsedSlots
  <2>8. FileNow[n] = i /\ FileNow'[n] = 0
    <3>1. inodes[i].mode = "FILE" /\ EntriesDiffer
      BY <1>r, <2>2, <2>4 DEF StoreInv, DirectoryInv, LeakInv, LeadsToFiles, BeingDeleted
    <3>2. FileNow[n] = i
      BY <1>r, <2>2, <2>4, <3>1, FileNowIs
    <3>3. ASSUME NEW j \in InodeIdx \ {0} PROVE FileNow'[n] # j
      <4>1. ASSUME FileNow'[n] = j PROVE inodes'[j].mode = "FILE" /\ j = i
        BY <1>r, <2>2, <2>3, <2>4, <2>5, <2>7, <3>1, <4>1, FileNowNext DEF EntriesDiffer
      <4> QED
        BY <2>6, <4>1
    <3>4. FileNow'[n] \in InodeIdx
      BY <1>r, <2>3, <2>5, FileNowNext
    <3> QED
      BY <3>2, <3>3, <3>4
  <2>9. ASSUME NEW m \in Names \ {n} PROVE FileNow'[m] = FileNow[m] /\ FileNow[m] # i
    <3>1. FileNow'[m] \in InodeIdx /\ FileNow[m] \in InodeIdx
      BY <1>r, <2>2, <2>3, <2>5, FileNowIs, FileNowNext
    <3>2. FileNow[m] # i
      <4>1. EntriesDiffer
        BY <1>r, <2>2 DEF StoreInv, DirectoryInv, LeakInv
      <4> QED
        BY <1>r, <2>2, <2>4, <4>1, FileNowIs DEF EntriesDiffer
    <3>3. FileNow'[m] # i
      BY <1>r, <2>3, <2>4, <2>5, <2>6, FileNowNext
    <3>4. \A j \in InodeIdx \ {0, i} : FileNow'[m] = j <=> FileNow[m] = j
      BY <1>r, <2>2, <2>3, <2>5, <2>6, <2>7, FileNowIs, FileNowNext
    <3> QED
      BY <3>1, <3>2, <3>3, <3>4
  <2>10. ASSUME NEW m \in Names \ {n}, FileNow[m] # 0
         PROVE  TextNow'[FileNow[m]] = TextNow[FileNow[m]]
    <3>1. FileNow[m] \in InodeIdx \ {0, i}
      BY <1>r, <2>2, <2>9, <2>10, FileNowIs
    <3>2. Nodes'[FileNow[m]] = Nodes[FileNow[m]]
      BY <2>6, <2>7, <3>1
    <3> QED
      BY <1>r, <2>2, <2>5, <3>1, <3>2, TextKeptAtRest
  <2>11. absFiles[n] # Absent /\ absFiles'[n] = Absent
    BY <1>r, <2>2, <2>4, <2>8, TextType DEF absFiles
  <2>12. absFiles' = [absFiles EXCEPT ![n] = Absent]
    <3>1. \A m \in Names \ {n} : absFiles'[m] = absFiles[m]
      BY <2>9, <2>10 DEF absFiles
    <3>2. absFiles = [m \in Names |-> absFiles[m]] /\ absFiles' = [m \in Names |-> absFiles'[m]]
      BY DEF absFiles
    <3> QED
      BY <2>11, <3>1, <3>2
  <2>13. ASSUME NEW h \in HandleIdx, handles[h].inode >= 0
         PROVE  handles[h].inode \in InodeIdx \ {0} /\ handles[h].inode # i
    <3>1. handles[h].inode \in InodeIdx \ {0}
      BY <1>r, <2>2, <2>13, HandleNamed
    <3>2. inodes'[handles[h].inode].mode = "FILE"
      BY <2>2, <2>13 DEF StoreInv, LeakInv, NoStale
    <3> QED
      BY <2>6, <3>1, <3>2
  <2>14. absHandles' = absHandles
    <3>1. PosNow' = PosNow
      BY <1>r, <2>2, <2>5, AtRest
    <3>2. ASSUME NEW h \in HandleIdx, handles[h].inode >= 0, NEW m \in Names
          PROVE  FileNow'[m] = handles[h].inode <=> FileNow[m] = handles[h].inode
      BY <2>8, <2>9, <2>13, <3>2
    <3> QED
      BY <1>r, <2>2, <3>1, <3>2, HandlesNamedAsBefore
  <2>15. ASSUME NEW h \in HandleIdx PROVE absHandles[h] = Closed \/ absHandles[h].name # n
    <3>1. CASE handles[h].inode >= 0
      <4>1. PICK m \in Names : /\ FileNow[m] = handles[h].inode
                               /\ absHandles[h] = [name |-> m, pos |-> PosNow[h]]
        BY <1>r, <2>2, <3>1, HandleNamed
      <4>2. m # n
        BY <2>8, <2>13, <3>1, <4>1
      <4> QED
        BY <4>1, <4>2
    <3>2. CASE ~(handles[h].inode >= 0)
      <4>1. handles[h].inode < 0
        BY <1>t, <3>2, FsAssumption DEF MetaTypeOK, Handle, InodeIdx
      <4> QED
        BY <4>1 DEF absHandles
    <3> QED
      BY <3>1, <3>2
  <2>16. Store!Delete(n)
    BY <2>2, <2>11, <2>12, <2>14, <2>15 DEF Store!Delete
  <2>17. ASSUME NEW h \in HandleIdx PROVE HandleInside(h)'
    <3> SUFFICES ASSUME handles[h].inode >= 0 PROVE HandleInside(h)'
      BY <2>2 DEF HandleInside
    <3>1. inodes'[handles[h].inode] = inodes[handles[h].inode]
      BY <2>6, <2>13
    <3> QED
      BY <2>2, <2>5, <3>1 DEF HandleInside, TextInv
  <2>18. ASSUME NEW j \in InodeIdx PROVE Covered(j)'
    <3>1. CASE j = i
      BY <1>r, <2>5, <2>6, <2>7, <3>1, EmptyCovered
    <3>2. CASE j # i
      BY <1>r, <2>2, <2>5, <2>6, <2>7, <3>2, CoveredKept DEF TextInv
    <3> QED
      BY <3>1, <3>2
  <2>19. TextInv'
    BY <1>r, <2>3, <2>5, <2>17, <2>18, TextRunning
  <2> QED
    BY <2>16, <2>19
<1>2. CASE DeleteInode
  <2>1. /\ op.pc = "d_inode" /\ op' = [op EXCEPT !.pc = "d_dir"]
        /\ UNCHANGED <<ready, inodes, handles, dDir, dData, got>>
    BY <1>2, <1>w DEF DeleteInode, SaveInodeFails, memory
  <2>2. op'.pc = "d_dir"
    BY <1>t, <2>1 DEF OpRec
  <2> QED
    BY <1>r, <1>t, <2>1, <2>2, StoreQuiet
<1>3. CASE DeleteEntry
  <2> DEFINE hits == {s \in UsedSlots : dDir[s].inode = op.ino}
  <2>1. /\ op.pc = "d_dir" /\ op'.pc = "idle"
        /\ UNCHANGED <<ready, inodes, handles, dData, got>>
        /\ IF hits = {} THEN dDir' = dDir
           ELSE dDir' = [dDir EXCEPT ![Lowest(hits)] = ZeroEntry]
    <3>1. hits = {s \in Slots \ {} : dDir[s].name # NoName /\ dDir[s].inode = op.ino}
      BY DEF UsedSlots
    <3> QED
      BY <1>3, <1>h, <1>w, <3>1, NoOpType
         DEF DeleteEntry, memory, DirWriteOk, DirWriteFails, EntrySaved
  <2>2. hits # {} => Lowest(hits) \in hits
    BY LowestOfSet, SlotsAreNat DEF UsedSlots
  <2>3. inodes[op.ino].mode = "FREE"
    BY <2>1 DEF StoreInv, LeakInv
  <2>4. \A s \in UsedSlots \ hits : dDir'[s] = dDir[s] /\ s \in UsedSlots'
    <3> SUFFICES ASSUME NEW s \in UsedSlots, s \notin hits PROVE dDir'[s] = dDir[s] /\ s \in UsedSlots'
      OBVIOUS
    <3>1. s \in Slots /\ dDir[s].name # NoName
      BY DEF UsedSlots
    <3>2. dDir'[s] = dDir[s]
      <4> HIDE DEF hits
      <4> QED
        BY <1>t, <2>1, <2>2, <3>1 DEF MetaTypeOK
    <3> QED
      BY <3>1, <3>2 DEF UsedSlots
  <2>5. \A s \in UsedSlots' : s \in UsedSlots /\ dDir'[s] = dDir[s]
    <3> SUFFICES ASSUME NEW s \in UsedSlots' PROVE s \in UsedSlots /\ dDir'[s] = dDir[s]
      OBVIOUS
    <3>1. s \in Slots /\ dDir'[s].name # NoName
      BY DEF UsedSlots
    <3>2. dDir'[s] = dDir[s]
      <4>1. ZeroEntry.name = NoName
        BY DEF ZeroEntry
      <4> HIDE DEF hits
      <4> QED
        BY <1>t, <2>1, <2>2, <3>1, <4>1 DEF MetaTypeOK
    <3> QED
      BY <3>1, <3>2 DEF UsedSlots
  <2>6. ready /\ ready'
    BY <1>r, <2>1 DEF TextInv
  <2>7. Nodes' = inodes /\ Nodes = inodes /\ dSuper
    BY <1>r, <1>t, <2>1, <2>6, RunningView, RunningViewNext
  <2>8. FileNow' = FileNow
    <3> SUFFICES ASSUME NEW m \in Names, NEW j \in InodeIdx \ {0}
                 PROVE  FileNow'[m] = j <=> FileNow[m] = j
      BY <1>r, <2>1, <2>6, FileNowSame
    <3>1. CASE j = op.ino
      BY <1>r, <2>1, <2>3, <2>6, <3>1, FileNowIs, FileNowNext
    <3>2. CASE j # op.ino
      BY <1>r, <2>1, <2>4, <2>5, <2>6, <3>2, FileNowIs, FileNowNext
    <3> QED
      BY <3>1, <3>2
  <2>9. SizeNow' = SizeNow /\ PosNow' = PosNow
    BY <1>r, <2>1, <2>7, AtRest
  <2>10. TextNow' = TextNow
    BY <2>1, <2>7, <2>9 DEF TextNow
  <2>11. absFiles' = absFiles /\ absHandles' = absHandles
    BY <2>1, <2>8, <2>9, <2>10, FilesKept, HandlesKept
  <2>12. \A h \in HandleIdx : HandleInside(h)'
    BY <2>1 DEF TextInv, HandleInside
  <2>13. \A i \in InodeIdx : Covered(i)'
    BY <1>r, <2>1, <2>7, CoveredKept DEF TextInv
  <2>14. TextInv'
    BY <1>r, <2>1, <2>6, <2>12, <2>13, TextRunning
  <2> QED
    BY <2>1, <2>11, <2>14
<1> QED
  BY <1>1, <1>2, <1>3 DEF fs_delete

\* Opening, closing and reading are what FileStore says they are.
LEMMA StoreUse ==
    ASSUME StoreInv, StoreInv', TextInv, Dependable, fs_open \/ fs_close \/ fs_read
    PROVE  /\ TextInv'
           /\ \/ \E n \in Names, h \in HandleIdx : Store!Open(n, h)
              \/ \E h \in HandleIdx : Store!Close(h)
              \/ \E h \in HandleIdx, k \in ReadSizes : Store!Read(h, k)
<1>t. MetaTypeOK /\ inodes \in Table /\ MetaInv /\ MetaInv' /\ handles \in [HandleIdx -> Handle]
  BY DEF StoreInv, MetaInv, MetaTypeOK, Table
<1>w. ~ReadFails
  BY <1>t, NoFails DEF ReadFails, Dependable
<1>h. \A hidden \in Unreadable : hidden = {}
  BY DEF Unreadable, Dependable
<1>1. op.pc = "idle" /\ op' = op /\ UNCHANGED <<ready, inodes, dDir, dData>>
  BY DEF fs_open, fs_close, fs_read, Open, Close, Read, disk
<1>2. op.pc \in Running \ Writing /\ op'.pc \in Running \ Writing /\ op'.pc # "c_dir"
  BY <1>1 DEF Running, PCs, Formatting, Writing
<1>3. ready /\ ready' /\ dSuper
  BY <1>1, <1>2, <1>t, RunningView DEF TextInv
<1>4. /\ Nodes' = inodes /\ Nodes = inodes /\ FileNow' = FileNow
  BY <1>1, <1>2, <1>3, <1>t, RunningView, RunningViewNext
<1>5. /\ SizeNow = [i \in InodeIdx |-> inodes[i].size]
      /\ PosNow = [h \in HandleIdx |-> handles[h].position]
      /\ PosNow' = [h \in HandleIdx |-> handles'[h].position]
  BY <1>2, <1>4, AtRest
<1>6. TextNow' = TextNow /\ absFiles' = absFiles
  <2>1. SizeNow' = SizeNow
    BY <1>2, <1>4, AtRest
  <2>2. TextNow' = TextNow
    BY <1>1, <1>4, <2>1 DEF TextNow
  <2> QED
    BY <1>4, <2>2, FilesKept
<1>7. (\A h \in HandleIdx : HandleInside(h)') => TextInv'
  <2>1. \A i \in InodeIdx : Covered(i)'
    BY <1>2, <1>3, <1>4, CoveredKept DEF TextInv
  <2> QED
    BY <1>2, <1>3, <2>1, TextRunning
<1>8. \A h \in HandleIdx : handles'[h] = handles[h] => HandleInside(h)'
  BY <1>1 DEF TextInv, HandleInside
<1>9. \A h \in HandleIdx : handles'[h] = handles[h] => absHandles'[h] = absHandles[h]
  BY <1>4, <1>5 DEF absHandles
<1>10. /\ absHandles = [h \in HandleIdx |-> absHandles[h]]
       /\ absHandles' = [h \in HandleIdx |-> absHandles'[h]]
  BY DEF absHandles
<1>11. LeadsToFiles(inodes) /\ EntriesDiffer /\ DirClean
  BY <1>2 DEF StoreInv, DirectoryInv, LeakInv, MetaInv, FormatOrder
<1>12. CASE fs_open
  <2> DEFINE closed == {k \in HandleIdx : handles[k].inode < 0}
  <2>1. PICK n \in Names : Open(n)
    BY <1>12 DEF fs_open
  <2> DEFINE i == find_dir_entry(n, {})
  <2>2. /\ i >= 0 /\ closed # {} /\ got' = got
        /\ handles' = [handles EXCEPT ![Lowest(closed)] = [inode |-> i, position |-> 0]]
    BY <1>h, <2>1 DEF Open
  <2>3. PICK h \in closed : h = Lowest(closed)
    <3>1. closed \in SUBSET Nat
      BY FsAssumption DEF HandleIdx
    <3> QED
      BY <2>2, <3>1, LowestOfSet
  <2>4. h \in HandleIdx /\ handles[h].inode < 0
    BY <2>3
  <2>5. i \in InodeIdx /\ \E s \in UsedSlots : dDir[s].name = n /\ dDir[s].inode = i
    BY <1>11, <2>2, FoundNamed
  <2> HIDE DEF i, closed
  <2>6. i \in InodeIdx \ {0} /\ inodes[i].mode = "FILE"
    BY <1>1, <1>11, <2>5 DEF LeadsToFiles, BeingDeleted
  <2>7. FileNow[n] = i
    BY <1>2, <2>5, <2>6, FileNowIs
  <2>8. NameIn(FileNow, i) = n
    <3>1. ASSUME NEW m \in Names, FileNow[m] = i PROVE m = n
      <4>1. \E s \in UsedSlots : dDir[s].name = m /\ dDir[s].inode = i
        BY <1>2, <2>6, <3>1, FileNowIs
      <4> QED
        BY <1>11, <2>5, <4>1 DEF EntriesDiffer
    <3> QED
      BY <2>7, <3>1, NameInIs
  <2>9. /\ handles'[h].inode = i /\ handles'[h].position = 0
        /\ \A k \in HandleIdx \ {h} : handles'[k] = handles[k]
    BY <1>t, <2>2, <2>3, <2>4
  <2>10. absHandles[h] = Closed
    BY <2>4 DEF absHandles
  <2>11. absHandles'[h] = [name |-> n, pos |-> 0]
    <3>1. ~(i < 0)
      BY <2>5, FsAssumption DEF InodeIdx
    <3>2. PosNow'[h] = 0
      BY <1>5, <2>4, <2>9
    <3>3. absHandles'[h] = [name |-> NameIn(FileNow', handles'[h].inode), pos |-> PosNow'[h]]
      BY <2>4, <2>9, <3>1 DEF absHandles
    <3> QED
      BY <1>4, <2>8, <2>9, <3>2, <3>3
  <2>12. absHandles' = [absHandles EXCEPT ![h] = [name |-> n, pos |-> 0]]
    BY <1>9, <1>10, <2>4, <2>9, <2>11
  <2>13. absFiles[n] # Absent
    BY <1>2, <2>6, <2>7, TextType DEF absFiles
  <2>14. Store!Open(n, h)
    BY <1>6, <2>2, <2>10, <2>12, <2>13 DEF Store!Open
  <2>15. HandleInside(h)'
    <3>1. inodes[i].size \in Nat
      BY <1>t, <2>5 DEF Table, Inode
    <3> QED
      BY <1>1, <1>2, <2>6, <2>9, <3>1 DEF HandleInside
  <2>16. TextInv'
    BY <1>7, <1>8, <2>9, <2>15
  <2> QED
    BY <2>4, <2>14, <2>16
<1>13. CASE fs_close
  <2>1. PICK h \in HandleIdx : Close(h)
    BY <1>13 DEF fs_close
  <2>2. /\ got' = got /\ handles'[h] = ClosedHandle
        /\ \A k \in HandleIdx \ {h} : handles'[k] = handles[k]
    BY <1>t, <2>1 DEF Close
  <2>3. handles'[h].inode < 0 /\ ~(handles'[h].inode >= 0)
    BY <2>2 DEF ClosedHandle
  <2>4. absHandles'[h] = Closed
    BY <2>3 DEF absHandles
  <2>5. absHandles' = [absHandles EXCEPT ![h] = Closed]
    BY <1>9, <1>10, <2>2, <2>4
  <2>6. Store!Close(h)
    BY <1>6, <2>2, <2>5 DEF Store!Close
  <2>7. TextInv'
    BY <1>7, <1>8, <2>2, <2>3 DEF HandleInside
  <2> QED
    BY <2>6, <2>7
<1>14. CASE fs_read
  <2>1. PICK h \in HandleIdx, k \in ReadSizes : Read(h, k)
    BY <1>14 DEF fs_read
  <2> DEFINE i == handles[h].inode
             pos == handles[h].position
             size == inodes[i].size
             end == IF pos + k < size THEN pos + k ELSE size
             text == TextNow[i]
  <2>2. handles[h].inode >= 0
    BY <2>1 DEF Read
  <2>3. PICK n \in Names : FileNow[n] = i /\ absHandles[h] = [name |-> n, pos |-> PosNow[h]]
    BY <1>2, <2>2, HandleNamed
  <2>4. i \in InodeIdx \ {0}
    BY <1>2, <2>2, HandleNamed
  <2>5. /\ pos \in Nat /\ k \in Nat /\ size \in Nat /\ pos <= size
        /\ SizeNow[i] = size /\ PosNow[h] = pos
    <3>1. pos \in Nat /\ k \in Nat /\ size \in Nat
      BY <1>t, <2>4, FsAssumption DEF Handle, Table, Inode
    <3> QED
      BY <1>5, <2>2, <2>4, <3>1 DEF TextInv, HandleInside
  <2>6. absFiles[n] = text /\ text \in Seq(Unit) /\ Len(text) = size
    BY <1>2, <2>3, <2>4, <2>5, TextType DEF absFiles
  <2>7. \A a \in 1 .. size : text[a] = UnitAt(inodes[i], a - 1)
    BY <1>4, <2>4, <2>5 DEF TextNow, UnitAt
  <2>8. \A a \in 0 .. (size - 1) : inodes[i].direct[a \div BlockSize] # 0
    BY <1>3, <1>4, <2>4, <2>5 DEF TextInv, Covered
  <2>9. /\ got' = [a \in 1 .. (end - pos) |-> UnitAt(inodes[i], pos + a - 1)]
        /\ handles' = [handles EXCEPT ![h].position = end]
    <3>1. CASE pos >= size
      <4>1. got' = <<>> /\ handles' = handles
        BY <2>1, <2>5, <3>1 DEF Read
      <4>2. end = pos
        BY <2>5, <3>1
      <4>3. got' = [a \in 1 .. 0 |-> UnitAt(inodes[i], pos + a - 1)]
        <5>1. [a \in 1 .. 0 |-> UnitAt(inodes[i], pos + a - 1)] = <<>>
          BY SMT
        <5> QED
          BY <4>1, <5>1
      <4>4. handles = [handles EXCEPT ![h].position = pos]
        BY <1>t DEF Handle
      <4>5. end - pos = 0
        BY <2>5, <4>2
      <4> QED
        BY <4>1, <4>2, <4>3, <4>4, <4>5
    <3>2. CASE pos < size
      <4>1. PICK stop \in pos .. end :
               /\ stop < end => inodes[i].direct[stop \div BlockSize] = 0
               /\ got' = [a \in 1 .. (stop - pos) |-> UnitAt(inodes[i], pos + a - 1)]
               /\ handles' = [handles EXCEPT ![h].position = stop]
        <5>1. ~(pos >= size)
          BY <2>5, <3>2
        <5> QED
          BY <1>w, <2>1, <5>1, Zenon DEF Read
      <4>2. stop = end
        BY <2>5, <2>8, <3>2, <4>1
      <4> QED
        BY <4>1, <4>2
    <3> QED
      BY <2>5, <3>1, <3>2
  <2>10. end \in Nat /\ pos <= end /\ end <= size
    BY <2>5
  <2>11. end = IF pos + k < Len(text) THEN pos + k ELSE Len(text)
    BY <2>6
  <2> HIDE DEF end, text, size
  <2>12. PICK k2 \in Nat : k2 = end - pos /\ end = pos + k2
    BY <2>5, <2>10
  <2>13. got' = SubSeq(text, pos + 1, end) /\ Len(got') = end - pos
    <3>1. PICK unit : unit = [x \in Nat |-> UnitAt(inodes[i], x)]
      OBVIOUS
    <3>2. ASSUME NEW a \in 1 .. k2 PROVE unit[pos + a - 1] = text[pos + a] /\ text[pos + a] \in Unit
      <4>1. pos + a \in 1 .. size /\ (pos + a) - 1 \in Nat
        BY <2>5, <2>10, <2>12
      <4>2. \A c \in 1 .. size : c - 1 \in Nat
        BY <2>5
      <4>3. \A c \in 1 .. size : text[c] = unit[c - 1]
        BY <2>7, <3>1, <4>2
      <4>4. text[pos + a] = unit[(pos + a) - 1]
        BY <4>1, <4>3
      <4> QED
        BY <2>5, <2>6, <4>1, <4>4
    <3>3. got' \in [1 .. k2 -> Unit] /\ \A a \in 1 .. k2 : got'[a] = text[pos + a]
      <4>1. \A a \in 1 .. k2 : pos + a - 1 \in Nat
        BY <2>5
      <4>2. got' = [a \in 1 .. k2 |-> unit[pos + a - 1]]
        BY <2>9, <2>12, <3>1, <4>1
      <4> QED
        BY <3>2, <4>2
    <3>4. pos \in Nat /\ pos + k2 <= Len(text) /\ text \in Seq(Unit)
      BY <2>5, <2>6, <2>10, <2>12
    <3>5. got' = SubSeq(text, pos + 1, pos + k2) /\ Len(got') = k2
      <4>1. PICK p \in Nat, s \in Seq(Unit), g \in [1 .. k2 -> Unit] : p = pos /\ s = text /\ g = got'
        BY <3>3, <3>4
      <4>2. p + k2 <= Len(s) /\ \A a \in 1 .. k2 : g[a] = s[p + a]
        BY <3>3, <3>4, <4>1
      <4>3. g = SubSeq(s, p + 1, p + k2) /\ Len(g) = k2
        BY <4>2, SliceIs
      <4> QED
        BY <4>1, <4>3
    <3> QED
      BY <2>12, <3>5
  <2>14. /\ handles'[h].inode = i /\ handles'[h].position = end
         /\ \A m \in HandleIdx \ {h} : handles'[m] = handles[m]
    BY <1>t, <2>9 DEF Handle
  <2>15. absHandles'[h] = [name |-> n, pos |-> end]
    <3>1. ~(i < 0)
      BY <2>4, FsAssumption DEF InodeIdx
    <3>2. absHandles[h] = [name |-> NameIn(FileNow, i), pos |-> PosNow[h]]
      BY <3>1 DEF absHandles
    <3>3. NameIn(FileNow, i) = n
      BY <2>3, <3>2
    <3>4. PosNow'[h] = end
      BY <1>5, <2>14
    <3>5. absHandles'[h] = [name |-> NameIn(FileNow', handles'[h].inode), pos |-> PosNow'[h]]
      BY <2>14, <3>1 DEF absHandles
    <3> QED
      BY <1>4, <2>14, <3>3, <3>4, <3>5
  <2>16. absHandles' = [absHandles EXCEPT ![h].pos = pos + Len(got')]
    <3>1. pos + Len(got') = end
      BY <2>5, <2>10, <2>13
    <3>2. [absHandles[h] EXCEPT !.pos = end] = [name |-> n, pos |-> end]
      BY <2>3
    <3> QED
      BY <1>9, <1>10, <2>14, <2>15, <3>1, <3>2
  <2>17. absHandles[h] # Closed
    <3>1. [name |-> n, pos |-> pos] \in [name : Names, pos : Nat]
      BY <2>5
    <3> QED
      BY <2>3, <2>5, <3>1, StoreAssumption
  <2>18. Store!Read(h, k)
    <3>1. absHandles[h].name = n /\ absHandles[h].pos = pos
      BY <2>3, <2>5
    <3> QED
      BY <1>6, <2>6, <2>11, <2>13, <2>16, <2>17, <3>1 DEF Store!Read
  <2>19. HandleInside(h)'
    BY <1>1, <1>2, <2>4, <2>10, <2>14 DEF HandleInside, size
  <2>20. TextInv'
    BY <1>7, <1>8, <2>14, <2>19
  <2> QED
    BY <2>18, <2>20
<1> QED
  BY <1>12, <1>13, <1>14

\* A number is its quotient and its remainder.
LEMMA Division ==
    ASSUME NEW D \in Nat \ {0}, NEW x \in Nat
    PROVE  /\ x \div D \in Nat /\ x % D \in 0 .. (D - 1)
           /\ x = D * (x \div D) + (x % D)
<1>1. x % D \in 0 .. (D - 1)
  OBVIOUS
<1>2. x \div D \in Int
  OBVIOUS
<1>3. x = D * (x \div D) + (x % D)
  OBVIOUS
<1>4. x \div D >= 0
  OBVIOUS
<1> QED
  BY <1>1, <1>2, <1>3, <1>4

\* And no other pair.
LEMMA DivisionUnique ==
    ASSUME NEW D \in Nat \ {0}, NEW q \in Nat, NEW r \in 0 .. (D - 1),
           NEW x \in Nat, x = D * q + r
    PROVE  x \div D = q /\ x % D = r
<1>1. PICK q2 \in Nat, r2 \in 0 .. (D - 1) : q2 = x \div D /\ r2 = x % D /\ x = D * q2 + r2
  BY Division
<1>2. D * q2 + r2 = D * q + r
  BY <1>1
<1>3. ~(q < q2)
  <2> SUFFICES ASSUME q < q2 PROVE FALSE
    OBVIOUS
  <2>1. PICK d \in Nat : q2 = q + 1 + d
    <3>1. q2 - q - 1 \in Nat /\ q2 = q + 1 + (q2 - q - 1)
      OBVIOUS
    <3> QED
      BY <3>1
  <2>2. D * q2 = D * q + D + D * d /\ D * d >= 0 /\ D * d \in Int /\ D * q \in Int
    BY <2>1
  <2> QED
    BY <1>2, <2>2
<1>4. ~(q2 < q)
  <2> SUFFICES ASSUME q2 < q PROVE FALSE
    OBVIOUS
  <2>1. PICK d \in Nat : q = q2 + 1 + d
    <3>1. q - q2 - 1 \in Nat /\ q = q2 + 1 + (q - q2 - 1)
      OBVIOUS
    <3> QED
      BY <3>1
  <2>2. D * q = D * q2 + D + D * d /\ D * d >= 0 /\ D * d \in Int /\ D * q2 \in Int
    BY <2>1
  <2> QED
    BY <1>2, <2>2
<1>5. q = q2
  BY <1>3, <1>4
<1>6. D * q \in Int
  OBVIOUS
<1> QED
  BY <1>1, <1>2, <1>5, <1>6

\* Positions that do not leave a block have its number.
LEMMA SameBlock ==
    ASSUME NEW D \in Nat \ {0}, NEW p \in Nat, NEW c \in Nat, (p % D) + c <= D,
           NEW x \in p .. (p + c - 1)
    PROVE  x \div D = p \div D /\ x % D = (p % D) + (x - p)
<1>1. PICK q \in Nat, r \in 0 .. (D - 1) : q = p \div D /\ r = p % D /\ p = D * q + r
  BY Division
<1>2. D * q \in Nat /\ x \in Nat
  BY <1>1
<1>3. r + (x - p) \in 0 .. (D - 1) /\ x = D * q + (r + (x - p))
  BY <1>1, <1>2
<1>4. PICK e \in 0 .. (D - 1) : e = r + (x - p) /\ x = D * q + e
  BY <1>3
<1>5. x \div D = q /\ x % D = e
  BY <1>2, <1>4, DivisionUnique
<1> QED
  BY <1>1, <1>4, <1>5

\* Within a block, positions and offsets are as far apart.
LEMMA SameDistance ==
    ASSUME NEW D \in Nat \ {0}, NEW p \in Nat, NEW x \in Nat, x \div D = p \div D
    PROVE  x - p = (x % D) - (p % D)
<1>1. PICK q \in Nat, r \in 0 .. (D - 1) : q = p \div D /\ r = p % D /\ p = D * q + r
  BY Division
<1>2. PICK k \in Nat, e \in 0 .. (D - 1) : k = x \div D /\ e = x % D /\ x = D * k + e
  BY Division
<1>3. k = q /\ D * q \in Nat
  BY <1>1, <1>2
<1> QED
  BY <1>1, <1>2, <1>3

\* What fs_write() puts into a sector: something, and not beyond its end.
LEMMA ChunkFits ==
    ASSUME MetaInv, DataInv, WMore
    PROVE  /\ WPos \in Nat /\ WChunk \in Nat /\ WChunk > 0
           /\ WOffset \in 0 .. (BlockSize - 1) /\ WOffset + WChunk <= BlockSize
           /\ WPos + WChunk <= MaxFileSize
<1>1. op.pc \in Writing
  BY DEF WMore, Writing
<1>2. WPos \in Nat /\ WChunk \in Nat /\ op.done + WChunk <= Len(op.buf)
  BY <1>1, ChunkType
<1>3. /\ op.done \in Nat /\ Len(op.buf) \in Nat /\ handles[op.fd].position \in Nat
      /\ op.done < Len(op.buf)
  BY DEF MetaInv, MetaTypeOK, OpRec, Handle, WMore
<1>4. WOffset \in 0 .. (BlockSize - 1)
  BY <1>2, FsAssumption DEF WOffset
<1>5. WChunk > 0 /\ WOffset + WChunk <= BlockSize
  BY <1>3, <1>4, FsAssumption DEF WChunk
<1>6. handles[op.fd].position + Len(op.buf) <= MaxFileSize /\ MaxFileSize \in Nat
  BY <1>1, FsAssumption DEF DataInv, MaxFileSize
<1>7. WPos + WChunk <= MaxFileSize
  BY <1>2, <1>3, <1>6 DEF WPos
<1> QED
  BY <1>2, <1>4, <1>5, <1>7

\* A step of fs_write() that callers do not see.
LEMMA StoreFrame ==
    ASSUME StoreInv, StoreInv', TextInv, op.pc \in Running, op'.pc \in Running \ {"c_dir"},
           ready' = ready, dDir' = dDir, SizeNow' = SizeNow, PosNow' = PosNow,
           \A i \in InodeIdx : inodes'[i].mode = inodes[i].mode,
           \A h \in HandleIdx :
               /\ handles'[h].inode = handles[h].inode
               /\ handles[h].inode >= 0 =>
                     handles'[h].position <= inodes'[handles[h].inode].size,
           \A i \in InodeIdx : \A a \in 0 .. (SizeNow[i] - 1) :
               LET b == a \div BlockSize IN
               /\ inodes'[i].direct[b] = inodes[i].direct[b]
               /\ dData'[inodes[i].direct[b]] = dData[inodes[i].direct[b]]
    PROVE  TextInv' /\ absFiles' = absFiles /\ absHandles' = absHandles
<1>1. ready /\ ready' /\ MetaInv /\ MetaInv'
  BY DEF TextInv, StoreInv
<1>2. /\ dSuper /\ Nodes = inodes /\ Nodes' = inodes'
      /\ FileNow = FileOf(dDir, inodes) /\ FileNow' = FileOf(dDir', inodes')
  BY <1>1, RunningView, RunningViewNext
<1>3. FileNow' = FileNow
  <2>1. \A n \in Names : FilesNamed(dDir', inodes', n) = FilesNamed(dDir, inodes, n)
    BY DEF FilesNamed
  <2> QED
    BY <1>2, <2>1, FileOfSame
<1>4. ASSUME NEW i \in InodeIdx PROVE TextNow'[i] = TextNow[i]
  <2>1. SizeNow[i] \in Nat
    BY TextType
  <2> QED
    BY <1>2, <2>1, TextKept
<1>5. ASSUME NEW i \in InodeIdx PROVE Covered(i)'
  <2>1. Covered(i)
    BY <1>2 DEF TextInv
  <2> QED
    BY <1>2, <2>1 DEF Covered
<1>6. ASSUME NEW h \in HandleIdx PROVE HandleInside(h)'
  <2>1. HandleInside(h)
    BY DEF TextInv
  <2> QED
    BY <2>1 DEF HandleInside
<1>7. absFiles' = absFiles
  <2>1. \A n \in Names : FileNow[n] \in InodeIdx
    BY FileNowIs
  <2> QED
    BY <1>3, <1>4, <2>1, FilesKept
<1>8. absHandles' = absHandles
  BY <1>3, HandlesKept
<1> QED
  BY <1>1, <1>5, <1>6, <1>7, <1>8, TextRunning

\* The same sizes and positions, one by one, are the same.
LEMMA ViewSame ==
    ASSUME \A i \in InodeIdx : SizeNow'[i] = SizeNow[i],
           \A h \in HandleIdx : PosNow'[h] = PosNow[h]
    PROVE  SizeNow' = SizeNow /\ PosNow' = PosNow
<1>1. /\ SizeNow = [i \in InodeIdx |-> SizeNow[i]] /\ SizeNow' = [i \in InodeIdx |-> SizeNow'[i]]
      /\ PosNow = [h \in HandleIdx |-> PosNow[h]] /\ PosNow' = [h \in HandleIdx |-> PosNow'[h]]
  BY DEF SizeNow, PosNow
<1> QED
  BY <1>1

\* The steps of fs_write() that move no data of the file.
LEMMA StoreWriteQuiet ==
    ASSUME StoreInv, StoreInv', TextInv, Dependable,
           \/ \E fd \in HandleIdx, buf \in Buffers : WriteStart(fd, buf)
           \/ WriteAlloc \/ WriteZero \/ WriteInode \/ WriteBitmap
    PROVE  TextInv' /\ absFiles' = absFiles /\ absHandles' = absHandles /\ got' = got
<1>t. /\ MetaTypeOK /\ op \in OpRec /\ op' \in OpRec /\ inodes \in Table /\ MetaInv /\ MetaInv'
      /\ handles \in [HandleIdx -> Handle] /\ op.fd \in HandleIdx /\ op.done \in Nat
  BY DEF StoreInv, MetaInv, MetaTypeOK, Table, OpRec
<1>w. ~WriteFails /\ ~ReadFails
  BY <1>t, NoFails DEF WriteFails, ReadFails, Dependable
<1>r. /\ {"idle", "w_loop", "w_zero", "w_bitmap"} \subseteq Running \ {"c_dir"}
      /\ {"idle", "w_bitmap"} \cap Writing = {} /\ {"w_loop", "w_zero"} \subseteq Writing
  BY DEF Running, PCs, Formatting, Writing
<1>d. op.pc # "w_inode" /\ (op.pc = "w_zero" => WSector = 0) /\ FreshSector
  BY DEF StoreInv, OwnershipInv, DiskFollows, Dependable, LeakInv
<1>s. \A h \in HandleIdx : handles[h].position \in Nat
  BY <1>t DEF Handle
<1>z. \A i \in InodeIdx : inodes[i].size \in Nat
  BY <1>t DEF Table, Inode
<1>i. ASSUME NEW h \in HandleIdx, handles[h].inode >= 0, op.pc \in Running
      PROVE  handles[h].inode \in InodeIdx /\ handles[h].position <= inodes[handles[h].inode].size
  BY <1>i, HandleNamed DEF TextInv, HandleInside
<1>n. op.pc \in Running => Nodes = inodes /\ dSuper
  BY <1>t, RunningView DEF TextInv
<1>m. op.pc \in Running /\ op'.pc \in Running /\ ready' = ready => Nodes' = inodes'
  BY <1>t, RunningViewNext DEF TextInv
<1>1. CASE \E fd \in HandleIdx, buf \in Buffers : WriteStart(fd, buf)
  <2>1. PICK fd \in HandleIdx, buf \in Buffers : WriteStart(fd, buf)
    BY <1>1
  <2>2. /\ op.pc = "idle" /\ handles[fd].inode >= 0 /\ got' = got
        /\ UNCHANGED <<ready, inodes, handles, dDir, dData>>
        /\ \E b : op' = [At("w_loop") EXCEPT !.fd = fd, !.buf = b]
    BY <2>1, Zenon DEF WriteStart, memory, disk
  <2>3. op'.pc = "w_loop" /\ op'.fd = fd /\ op'.done = 0
    <3>1. At("w_loop") \in OpRec /\ At("w_loop").pc = "w_loop" /\ At("w_loop").done = 0
      BY AtType DEF PCs
    <3> QED
      BY <2>2, <3>1 DEF OpRec
  <2>4. WNode' = handles[fd].inode /\ WPos' = handles[fd].position
    BY <1>s, <2>2, <2>3 DEF WNode, WPos
  <2>5. ASSUME NEW i \in InodeIdx PROVE SizeNow'[i] = SizeNow[i]
    <3>1. SizeNow[i] = inodes[i].size
      BY <1>n, <1>r, <2>2, AtRest
    <3>2. SizeNow'[i] = IF handles[fd].inode = i /\ handles[fd].position > inodes[i].size
                        THEN handles[fd].position ELSE inodes[i].size
      BY <1>m, <1>r, <2>2, <2>3, <2>4 DEF SizeNow
    <3>3. handles[fd].inode = i => handles[fd].position <= inodes[i].size
      BY <1>i, <1>r, <2>2
    <3> QED
      BY <1>s, <1>z, <3>1, <3>2, <3>3
  <2>6. ASSUME NEW h \in HandleIdx PROVE PosNow'[h] = PosNow[h]
    <3>1. PosNow[h] = handles[h].position
      BY <1>r, <2>2, AtRest
    <3>2. PosNow'[h] = IF fd = h THEN handles[fd].position ELSE handles[h].position
      BY <1>r, <2>2, <2>3, <2>4 DEF PosNow
    <3> QED
      BY <3>1, <3>2
  <2>7. SizeNow' = SizeNow /\ PosNow' = PosNow
    BY <2>5, <2>6, ViewSame
  <2> QED
    BY <1>i, <1>r, <2>2, <2>3, <2>7, StoreFrame
<1>2. CASE WriteAlloc
  <2>1. /\ op.pc = "w_loop" /\ got' = got
        /\ UNCHANGED <<ready, inodes, handles, dDir, dData>>
        /\ \E s : op' = [op EXCEPT !.pc = "w_zero", !.sector = s]
    BY <1>2, <1>w, Zenon DEF WriteAlloc, WMore, AllocBitmap, SaveBitmapFails
  <2>2. op'.pc = "w_zero" /\ op'.fd = op.fd /\ op'.done = op.done
    BY <1>t, <2>1 DEF OpRec
  <2>3. WNode' = WNode /\ WPos' = WPos
    BY <2>1, <2>2 DEF WNode, WPos
  <2>4. Nodes' = Nodes
    BY <1>m, <1>n, <1>r, <2>1, <2>2
  <2>5. SizeNow' = SizeNow /\ PosNow' = PosNow
    BY <1>r, <2>1, <2>2, <2>3, <2>4 DEF SizeNow, PosNow
  <2> QED
    BY <1>i, <1>r, <2>1, <2>2, <2>5, StoreFrame
<1>3. CASE WriteZero
  <2>1. /\ op.pc = "w_zero" /\ got' = got
        /\ UNCHANGED <<ready, handles, dDir>>
        /\ inodes' = [inodes EXCEPT ![WNode].direct[WBlock] = op.sector]
        /\ dData' = [dData EXCEPT ![op.sector] = ZeroBlock]
        /\ op' = [op EXCEPT !.pc = "w_loop"]
    BY <1>3, <1>w DEF WriteZero, DataWriteOk, DataWriteFails, DataSaved
  <2>2. op'.pc = "w_loop" /\ op'.fd = op.fd /\ op'.done = op.done
    BY <1>t, <2>1 DEF OpRec
  <2>3. WNode' = WNode /\ WPos' = WPos
    BY <2>1, <2>2 DEF WNode, WPos
  <2>4. \A i \in InodeIdx :
           /\ inodes'[i].size = inodes[i].size /\ inodes'[i].mode = inodes[i].mode
           /\ \A b \in BlockIdx : i # WNode \/ b # WBlock => inodes'[i].direct[b] = inodes[i].direct[b]
    BY <1>t, <2>1 DEF Table, Inode
  <2>5. SizeNow' = SizeNow /\ PosNow' = PosNow
    <3>1. Nodes' = inodes' /\ Nodes = inodes
      BY <1>m, <1>n, <1>r, <2>1, <2>2
    <3> QED
      BY <1>r, <2>1, <2>2, <2>3, <2>4, <3>1 DEF SizeNow, PosNow
  <2>6. ASSUME NEW i \in InodeIdx, NEW a \in 0 .. (SizeNow[i] - 1)
        PROVE  LET b == a \div BlockSize IN
               /\ inodes'[i].direct[b] = inodes[i].direct[b]
               /\ dData'[inodes[i].direct[b]] = dData[inodes[i].direct[b]]
    <3> DEFINE b == a \div BlockSize
    <3>1. SizeNow[i] \in Nat /\ SizeNow[i] <= MaxFileSize
      BY <1>r, <2>1, TextType
    <3>2. b \in BlockIdx /\ inodes[i].direct[b] # 0
      BY <1>n, <1>r, <2>1, <3>1, PositionInside DEF TextInv, Covered
    <3>3. inodes'[i].direct[b] = inodes[i].direct[b]
      BY <1>d, <2>1, <2>4, <3>2 DEF WSector
    <3>4. inodes[i].direct[b] \in SectorsOf(inodes[i]) /\ op.sector \notin SectorsOf(inodes[i])
      BY <1>d, <2>1, <3>2 DEF FreshSector, SectorsOf
    <3>5. dData'[inodes[i].direct[b]] = dData[inodes[i].direct[b]]
      <4>1. inodes[i].direct[b] \in Sectors
        BY <1>t, <3>4, SectorsOfType DEF Table
      <4>2. dData \in [Sectors -> Block \cup {Junk}]
        BY DEF StoreInv, DataInv
      <4> QED
        BY <2>1, <3>4, <4>1, <4>2
    <3> QED
      BY <3>3, <3>5
  <2>7. \A h \in HandleIdx : handles[h].inode >= 0 =>
                                handles'[h].position <= inodes'[handles[h].inode].size
    BY <1>i, <1>r, <2>1, <2>4
  <2> QED
    BY <1>r, <2>1, <2>2, <2>4, <2>5, <2>6, <2>7, StoreFrame
<1>4. CASE WriteInode
  <2> DEFINE node == IF WPos > inodes[WNode].size
                     THEN [inodes[WNode] EXCEPT !.size = WPos] ELSE inodes[WNode]
  <2>1. /\ op.pc = "w_loop" /\ op'.pc = "w_bitmap" /\ got' = got
        /\ UNCHANGED <<ready, dDir, dData>>
        /\ inodes' = [inodes EXCEPT ![WNode] = node]
        /\ handles' = [handles EXCEPT ![op.fd].position = WPos]
    BY <1>4, <1>d, AtType DEF WriteInode, WMore, PCs
  <2>2. WNode \in InodeIdx /\ WPos \in Nat
    BY <1>r, <1>t, <2>1, ChunkType
  <2>3. /\ node.mode = inodes[WNode].mode /\ node.direct = inodes[WNode].direct
        /\ node.size = IF WPos > inodes[WNode].size THEN WPos ELSE inodes[WNode].size
    BY <1>t, <2>2 DEF Table, Inode
  <2> HIDE DEF node
  <2>4. inodes'[WNode] = node /\ \A i \in InodeIdx \ {WNode} : inodes'[i] = inodes[i]
    BY <1>t, <2>1, <2>2 DEF Table
  <2>5. /\ handles'[op.fd].position = WPos
        /\ \A h \in HandleIdx : /\ handles'[h].inode = handles[h].inode
                                /\ h # op.fd => handles'[h].position = handles[h].position
    BY <1>t, <2>1 DEF Handle
  <2>6. ASSUME NEW i \in InodeIdx PROVE SizeNow'[i] = SizeNow[i]
    <3>1. SizeNow'[i] = inodes'[i].size
      BY <1>m, <1>r, <2>1, AtRest
    <3>2. SizeNow[i] = IF WNode = i /\ WPos > inodes[i].size THEN WPos ELSE inodes[i].size
      BY <1>n, <1>r, <2>1 DEF SizeNow
    <3> QED
      BY <2>2, <2>3, <2>4, <3>1, <3>2
  <2>7. ASSUME NEW h \in HandleIdx PROVE PosNow'[h] = PosNow[h]
    <3>1. PosNow'[h] = handles'[h].position
      BY <1>r, <2>1, AtRest
    <3>2. PosNow[h] = IF op.fd = h THEN WPos ELSE handles[h].position
      BY <1>r, <2>1 DEF PosNow
    <3> QED
      BY <2>5, <3>1, <3>2
  <2>8. SizeNow' = SizeNow /\ PosNow' = PosNow
    BY <2>6, <2>7, ViewSame
  <2>9. \A i \in InodeIdx : inodes'[i].mode = inodes[i].mode /\ inodes'[i].direct = inodes[i].direct
    BY <2>3, <2>4
  <2>10. ASSUME NEW h \in HandleIdx, handles[h].inode >= 0
         PROVE  handles'[h].position <= inodes'[handles[h].inode].size
    <3>1. handles[h].inode \in InodeIdx /\ handles[h].position <= inodes[handles[h].inode].size
      BY <1>i, <1>r, <2>1, <2>10
    <3>2. inodes[handles[h].inode].size <= inodes'[handles[h].inode].size
      BY <1>z, <2>2, <2>3, <2>4, <3>1
    <3>3. inodes'[handles[h].inode].size \in Nat
      BY <1>z, <2>2, <2>3, <2>4, <3>1
    <3>4. CASE h = op.fd
      <4>1. handles[h].inode = WNode
        BY <3>4 DEF WNode
      <4> QED
        BY <1>z, <2>2, <2>3, <2>4, <2>5, <3>4, <4>1
    <3>5. CASE h # op.fd
      BY <1>s, <1>z, <2>5, <3>1, <3>2, <3>3, <3>5
    <3> QED
      BY <3>4, <3>5
  <2> QED
    BY <1>r, <2>1, <2>5, <2>8, <2>9, <2>10, StoreFrame
<1>5. CASE WriteBitmap
  <2>1. /\ op.pc = "w_bitmap" /\ op'.pc = "idle" /\ got' = got
        /\ UNCHANGED <<ready, inodes, handles, dDir, dData>>
    BY <1>5, NoOpType DEF WriteBitmap, memory
  <2>2. op.pc \in Running \ Writing /\ op'.pc \in Running \ (Writing \cup {"c_dir"})
    BY <1>r, <2>1
  <2> QED
    BY <1>t, <2>1, <2>2, StoreQuiet
<1> QED
  BY <1>1, <1>2, <1>3, <1>4, <1>5

\* Each block that fs_write() writes is a portion of the write.
LEMMA StoreWriteBlock ==
    ASSUME StoreInv, StoreInv', TextInv, Dependable, WriteBlock
    PROVE  TextInv' /\ \E h \in HandleIdx : Store!WritePortion(h)
<1>t. /\ MetaTypeOK /\ op \in OpRec /\ op' \in OpRec /\ inodes \in Table /\ MetaInv /\ MetaInv'
      /\ handles \in [HandleIdx -> Handle] /\ op.fd \in HandleIdx /\ op.done \in Nat /\ DataInv
  BY DEF StoreInv, MetaInv, MetaTypeOK, Table, OpRec
<1>w. ~WriteFails /\ ~ReadFails
  BY <1>t, NoFails DEF WriteFails, ReadFails, Dependable
<1>r. "w_loop" \in Running \ {"c_dir"} /\ "w_loop" \in Writing
  BY DEF Running, PCs, Formatting, Writing
<1>1. /\ op.pc = "w_loop" /\ WMore /\ WSector # 0
      /\ dData' = [dData EXCEPT ![WSector] = WPatched]
      /\ op' = [op EXCEPT !.done = op.done + WChunk]
      /\ UNCHANGED <<ready, inodes, handles, dDir, got>>
  BY <1>w DEF WriteBlock, WMore, DataWriteOk, DataWriteFails, DataSaved, memory
<1>2. /\ WBlock \in BlockIdx /\ WSector \in SectorsOf(inodes[WNode])
      /\ WSector \in Sectors /\ WNode \in InodeIdx
  BY <1>1, <1>r, <1>t, PatchedType, ChunkType
<1>3. PICK i \in InodeIdx, fd \in HandleIdx, from \in Nat, c \in Nat, sec \in Sectors, off \in 0 .. (BlockSize - 1) :
         /\ i = WNode /\ fd = op.fd /\ from = WPos /\ c = WChunk /\ sec = WSector
         /\ off = WOffset /\ c > 0 /\ off + c <= BlockSize /\ from + c <= MaxFileSize
  BY <1>1, <1>2, <1>t, ChunkFits
<1>4. /\ sec = inodes[i].direct[from \div BlockSize] /\ from \div BlockSize \in BlockIdx
      /\ off = from % BlockSize /\ sec # 0 /\ handles[fd].inode = i
  BY <1>1, <1>2, <1>3 DEF WSector, WBlock, WOffset, WNode
<1>5. op'.pc = "w_loop" /\ op'.fd = fd /\ op'.done = op.done + c
  BY <1>1, <1>3, <1>t DEF OpRec
<1>6. WNode' = i /\ WPos' = from + c
  <2>1. handles[fd].position \in Nat
    BY <1>t DEF Handle
  <2>2. from = handles[fd].position + op.done
    BY <1>3 DEF WPos
  <2>3. WPos' = handles[fd].position + (op.done + c)
    BY <1>1, <1>5 DEF WPos
  <2>4. WNode' = i
    BY <1>1, <1>3, <1>5 DEF WNode
  <2> QED
    BY <1>t, <2>1, <2>2, <2>3, <2>4
<1>7. ready /\ ready'
  BY <1>1, <1>r DEF TextInv
<1>8. /\ dSuper /\ Nodes = inodes /\ Nodes' = inodes /\ FileNow' = FileNow
  BY <1>1, <1>5, <1>7, <1>r, <1>t, RunningView, RunningViewNext
<1>9. /\ SizeNow[i] = IF from > inodes[i].size THEN from ELSE inodes[i].size
      /\ SizeNow'[i] = IF from + c > inodes[i].size THEN from + c ELSE inodes[i].size
      /\ \A j \in InodeIdx \ {i} : SizeNow'[j] = SizeNow[j]
  <2>1. SizeNow = [j \in InodeIdx |-> IF i = j /\ from > inodes[j].size THEN from ELSE inodes[j].size]
    BY <1>1, <1>3, <1>8, <1>r DEF SizeNow
  <2>2. SizeNow' = [j \in InodeIdx |-> IF i = j /\ from + c > inodes[j].size THEN from + c
                                       ELSE inodes[j].size]
    BY <1>5, <1>6, <1>8, <1>r DEF SizeNow
  <2> QED
    BY <2>1, <2>2
<1>10. inodes[i].size \in Nat /\ SizeNow[i] \in Nat /\ SizeNow'[i] \in Nat
  BY <1>9, <1>t DEF Table, Inode
<1>11. from <= SizeNow[i] /\ SizeNow'[i] = IF from + c > SizeNow[i] THEN from + c ELSE SizeNow[i]
  BY <1>9, <1>10
<1>12. ASSUME NEW x \in from .. (from + c - 1)
       PROVE  x \div BlockSize = from \div BlockSize /\ x % BlockSize = off + (x - from)
  <2>1. BlockSize \in Nat \ {0} /\ (from % BlockSize) + c <= BlockSize
    BY <1>3, <1>4, FsAssumption
  <2>2. x \div BlockSize = from \div BlockSize /\ x % BlockSize = (from % BlockSize) + (x - from)
    BY <2>1, SameBlock
  <2> QED
    BY <1>4, <2>2
<1>13. \A j \in InodeIdx : Covered(j)
  BY <1>8 DEF TextInv
<1>14. ASSUME NEW j \in InodeIdx PROVE Covered(j)'
  <2>1. CASE j # i
    BY <1>8, <1>9, <1>13, <2>1 DEF Covered
  <2>2. CASE j = i
    <3>1. SizeNow'[i] <= MaxFileSize
      BY <1>3, <1>11, <1>13 DEF Covered
    <3>2. ASSUME NEW a \in 0 .. (SizeNow'[i] - 1) PROVE inodes[i].direct[a \div BlockSize] # 0
      <4>1. CASE a < SizeNow[i]
        <5>1. a \in 0 .. (SizeNow[i] - 1)
          BY <1>10, <4>1
        <5> QED
          BY <1>8, <1>13, <5>1 DEF Covered
      <4>2. CASE ~(a < SizeNow[i])
        <5>1. a \in from .. (from + c - 1)
          BY <1>10, <1>11, <4>2
        <5> QED
          BY <1>4, <1>12, <5>1
      <4> QED
        BY <4>1, <4>2
    <3> QED
      BY <1>8, <2>2, <3>1, <3>2 DEF Covered
  <2> QED
    BY <2>1, <2>2
<1>15. \A h \in HandleIdx : HandleInside(h)'
  BY <1>1, <1>5 DEF TextInv, HandleInside
<1>16. TextInv'
  BY <1>5, <1>7, <1>14, <1>15, <1>r, TextRunning
<1>17. dData'[sec] = WPatched /\ \A r \in Sectors \ {sec} : dData'[r] = dData[r]
  <2>1. dData \in [Sectors -> Block \cup {Junk}]
    BY <1>t DEF DataInv
  <2> QED
    BY <1>1, <1>3, <2>1
<1>18. ASSUME NEW j \in InodeIdx, NEW a \in 0 .. (SizeNow[j] - 1)
       PROVE  LET b == a \div BlockSize IN
              /\ b \in BlockIdx /\ inodes[j].direct[b] \in Sectors
              /\ inodes[j].direct[b] = sec => j = i /\ b = from \div BlockSize
  <2> DEFINE b == a \div BlockSize
  <2>1. SizeNow[j] \in Nat /\ SizeNow[j] <= MaxFileSize
    BY <1>1, <1>r, TextType
  <2>2. b \in BlockIdx /\ inodes[j].direct[b] # 0
    BY <1>8, <1>13, <2>1, PositionInside DEF Covered
  <2> HIDE DEF b
  <2>3. inodes[j].direct[b] \in Sectors
    BY <1>t, <2>2 DEF Table, Inode, Sectors
  <2>4. inodes[j].direct[b] = sec => j = i /\ b = from \div BlockSize
    <3>1. NoSharedSector(inodes)
      BY DEF StoreInv, OwnershipInv, LeakInv
    <3> QED
      BY <1>4, <2>2, <3>1 DEF NoSharedSector
  <2> QED
    BY <2>2, <2>3, <2>4 DEF b
<1>19. ASSUME NEW j \in InodeIdx, j # i PROVE TextNow'[j] = TextNow[j]
  <2>1. SizeNow[j] \in Nat /\ SizeNow'[j] = SizeNow[j]
    BY <1>1, <1>9, <1>r, <1>19, TextType
  <2>2. ASSUME NEW a \in 0 .. (SizeNow[j] - 1)
        PROVE  LET b == a \div BlockSize IN
               /\ Nodes'[j].direct[b] = Nodes[j].direct[b]
               /\ dData'[Nodes[j].direct[b]] = dData[Nodes[j].direct[b]]
    BY <1>8, <1>17, <1>18, <1>19
  <2> QED
    BY <2>1, <2>2, TextKept
<1>20. ASSUME NEW a \in 1 .. SizeNow'[i]
       PROVE  /\ a \in (from + 1) .. (from + c) => TextNow'[i][a] \in Data
              /\ a \notin (from + 1) .. (from + c) => a \in 1 .. SizeNow[i] /\ TextNow'[i][a] = TextNow[i][a]
  <2> DEFINE x == a - 1
             b == x \div BlockSize
             u == x % BlockSize
  <2>1. TextNow'[i][a] = dData'[inodes[i].direct[b]][u]
    BY <1>8 DEF TextNow
  <2>2. x \in Nat /\ b \in Nat /\ u \in 0 .. (BlockSize - 1)
    <3>1. x \in Nat /\ BlockSize \in Nat \ {0}
      BY <1>10, FsAssumption
    <3> HIDE DEF x
    <3> QED
      BY <3>1, Division
  <2>3. CASE a \in (from + 1) .. (from + c)
    <3>1. x \in from .. (from + c - 1)
      BY <2>3
    <3>2. b = from \div BlockSize /\ u = off + (x - from)
      BY <1>12, <3>1
    <3>3. TextNow'[i][a] = WPatched[u]
      BY <1>4, <1>17, <2>1, <3>2
    <3>4. u \in off .. (off + c - 1)
      BY <3>1, <3>2
    <3>5. WPatched[u] = op.buf[op.done + (u - off) + 1]
      BY <1>3, <2>2, <3>4 DEF WPatched
    <3>6. op.done + (u - off) + 1 \in 1 .. Len(op.buf)
      <4>1. op.done + c <= Len(op.buf) /\ Len(op.buf) \in Nat
        BY <1>1, <1>3, <1>r, <1>t, ChunkType DEF OpRec
      <4> QED
        BY <1>t, <3>4, <4>1
    <3>7. op.buf[op.done + (u - off) + 1] \in Data
      BY <1>t, <3>6 DEF OpRec
    <3> QED
      BY <2>3, <3>3, <3>5, <3>7
  <2>4. CASE a \notin (from + 1) .. (from + c)
    <3>1. a \in 1 .. SizeNow[i] /\ x \in 0 .. (SizeNow[i] - 1) /\ x \notin from .. (from + c - 1)
      BY <1>10, <1>11, <2>4
    <3>2. TextNow[i][a] = dData[inodes[i].direct[b]][u]
      BY <1>8, <3>1 DEF TextNow
    <3>3. inodes[i].direct[b] \in Sectors /\ (inodes[i].direct[b] = sec => b = from \div BlockSize)
      BY <1>18, <3>1
    <3>4. CASE inodes[i].direct[b] # sec
      BY <1>17, <2>1, <2>4, <3>1, <3>2, <3>3, <3>4
    <3>5. CASE inodes[i].direct[b] = sec
      <4>1. x - from = u - off
        BY <1>4, <2>2, <3>3, <3>5, SameDistance, FsAssumption
      <4>2. u \notin off .. (off + c - 1)
        BY <2>2, <3>1, <4>1
      <4>3. WPatched[u] = dData[sec][u]
        BY <1>3, <2>2, <4>2 DEF WPatched
      <4> QED
        BY <1>17, <2>1, <2>4, <3>1, <3>2, <3>5, <4>3
    <3> QED
      BY <3>4, <3>5
  <2> QED
    BY <2>3, <2>4
<1>21. Len(TextNow'[i]) = SizeNow'[i]
  <2>1. ASSUME NEW a \in 1 .. SizeNow'[i] PROVE TextNow'[i][a] \in Unit
    <3>1. TextNow[i] \in [1 .. SizeNow[i] -> Unit]
      BY <1>1, <1>r, TextType
    <3> QED
      BY <1>20, <3>1 DEF Unit
  <2>2. TextNow'[i] = [a \in 1 .. SizeNow'[i] |-> TextNow'[i][a]]
    BY DEF TextNow
  <2>3. TextNow'[i] \in [1 .. SizeNow'[i] -> Unit]
    BY <2>1, <2>2
  <2> QED
    BY <1>10, <2>3
<1>22. Len(TextNow[i]) = SizeNow[i]
  BY <1>1, <1>r, TextType
<1>23. i # 0 /\ i >= 0
  <2>1. i >= 0
    BY FsAssumption DEF InodeIdx
  <2> QED
    BY <1>4, <2>1 DEF TextInv, HandleInside
<1>24. PICK n \in Names : /\ FileNow[n] = i /\ \A m \in Names : FileNow[m] = i => m = n
                          /\ absHandles[fd] = [name |-> n, pos |-> PosNow[fd]]
  BY <1>1, <1>4, <1>23, <1>r, HandleNamed
<1>25. absFiles[n] = TextNow[i] /\ absFiles'[n] = TextNow'[i]
  BY <1>8, <1>23, <1>24 DEF absFiles
<1>26. ASSUME NEW m \in Names \ {n} PROVE absFiles'[m] = absFiles[m]
  <2>1. FileNow[m] \in InodeIdx /\ FileNow[m] # i
    BY <1>1, <1>24, <1>r, FileNowIs
  <2> QED
    BY <1>8, <1>19, <2>1 DEF absFiles
<1>27. /\ PosNow[fd] = from /\ PosNow'[fd] = from + c
       /\ \A h \in HandleIdx \ {fd} : PosNow'[h] = PosNow[h]
  <2>1. PosNow = [h \in HandleIdx |-> IF fd = h THEN from ELSE handles[h].position]
    BY <1>1, <1>3, <1>r DEF PosNow
  <2>2. PosNow' = [h \in HandleIdx |-> IF fd = h THEN from + c ELSE handles[h].position]
    BY <1>1, <1>5, <1>6, <1>r DEF PosNow
  <2> QED
    BY <2>1, <2>2
<1>28. absHandles'[fd] = [name |-> n, pos |-> from + c]
  <2>1. ~(handles[fd].inode < 0)
    BY <1>4, FsAssumption DEF InodeIdx
  <2>2. /\ absHandles[fd] = [name |-> NameIn(FileNow, i), pos |-> PosNow[fd]]
        /\ absHandles'[fd] = [name |-> NameIn(FileNow', i), pos |-> PosNow'[fd]]
    BY <1>1, <1>4, <2>1 DEF absHandles
  <2>3. NameIn(FileNow, i) = n
    BY <1>24, <2>2
  <2> QED
    BY <1>8, <1>27, <2>2, <2>3
<1>29. \A h \in HandleIdx \ {fd} : absHandles'[h] = absHandles[h]
  BY <1>1, <1>8, <1>27 DEF absHandles
<1>30. absHandles[fd] = [name |-> n, pos |-> from]
  BY <1>24, <1>27
<1>31. absHandles' = [absHandles EXCEPT ![fd].pos = from + c]
  <2>1. /\ absHandles = [h \in HandleIdx |-> absHandles[h]]
        /\ absHandles' = [h \in HandleIdx |-> absHandles'[h]]
    BY DEF absHandles
  <2>2. [absHandles[fd] EXCEPT !.pos = from + c] = [name |-> n, pos |-> from + c]
    BY <1>30
  <2> QED
    BY <1>28, <1>29, <2>1, <2>2
<1>32. absHandles[fd] # Closed /\ absHandles'[fd] # Closed
  <2>1. /\ [name |-> n, pos |-> from] \in [name : Names, pos : Nat]
        /\ [name |-> n, pos |-> from + c] \in [name : Names, pos : Nat]
    OBVIOUS
  <2> QED
    BY <1>28, <1>30, <2>1, StoreAssumption
<1>33. DOMAIN absFiles' = Names
  BY DEF absFiles
<1>34. Store!WritePortion(fd)
  <2>1. absHandles[fd].name = n /\ absHandles[fd].pos = from /\ absHandles'[fd].pos = from + c
    BY <1>28, <1>30
  <2>2. Len(absFiles'[n]) = IF from + c > Len(absFiles[n]) THEN from + c ELSE Len(absFiles[n])
    BY <1>11, <1>21, <1>22, <1>25
  <2>3. \A a \in 1 .. Len(absFiles'[n]) :
           IF a \in (from + 1) .. (from + c) THEN absFiles'[n][a] \in Data
                                            ELSE absFiles'[n][a] = absFiles[n][a]
    BY <1>20, <1>21, <1>25
  <2>4. from + c > from
    BY <1>3
  <2> QED
    BY <1>1, <1>26, <1>31, <1>32, <1>33, <2>1, <2>2, <2>3, <2>4 DEF Store!WritePortion
<1> QED
  BY <1>16, <1>34

\* A step that changes nothing at all.
LEMMA StoreStutter ==
    ASSUME TextInv, UNCHANGED vars
    PROVE  TextInv' /\ absFiles' = absFiles /\ absHandles' = absHandles /\ got' = got
<1>1. Nodes' = Nodes /\ WNode' = WNode /\ WPos' = WPos
  BY DEF vars, Nodes, WNode, WPos
<1>2. SizeNow' = SizeNow /\ PosNow' = PosNow
  BY <1>1 DEF vars, SizeNow, PosNow
<1>3. TextNow' = TextNow /\ FileNow' = FileNow
  BY <1>1, <1>2 DEF vars, TextNow, FileNow
<1>4. absFiles' = absFiles /\ absHandles' = absHandles
  BY <1>2, <1>3, FilesKept, HandlesKept DEF vars
<1>5. \A h \in HandleIdx : HandleInside(h)'
  BY DEF vars, TextInv, HandleInside
<1>6. \A i \in InodeIdx : dSuper' => Covered(i)'
  BY <1>1, <1>2 DEF vars, TextInv, Covered
<1>7. TextInv'
  BY <1>5, <1>6 DEF vars, TextInv
<1> QED
  BY <1>4, <1>7 DEF vars

(* Every step of fs.c, whatever sectors and inodes it goes through, has the effect
   that FileStore gives it: with callers that close a file before they delete it,
   a disk that fails no access and power that goes only between operations, the
   file system implements the store of named byte strings. *)
THEOREM FsImplementsStore ==
    ASSUME "superread" \notin Faults, "crash" \notin Faults, Dependable
    PROVE  DisciplinedSpec => ImplementsFileStore
<1>1. Init => Store!Init /\ StoreInv /\ TextInv
  BY StoreInit, StoreInvInit
<1>2. ASSUME StoreInv, TextInv, [Next /\ NoStale']_vars
      PROVE  StoreInv' /\ TextInv' /\ [Store!Next]_(Store!vars)
  <2>1. StoreInv' /\ MetaInv'
    BY <1>2, StoreInvStep DEF StoreInv
  <2> DEFINE Same == absFiles' = absFiles /\ absHandles' = absHandles /\ got' = got
  <2>2. Same => [Store!Next]_(Store!vars)
    BY DEF Store!vars
  <2>3. CASE UNCHANGED vars
    BY <1>2, <2>1, <2>2, <2>3, StoreStutter
  <2>4. CASE Next
    <3>1. CASE fs_format \/ fs_init
      BY <1>2, <2>1, <2>2, <3>1, StoreBoot
    <3>2. CASE fs_create
      BY <1>2, <2>1, <2>2, <3>2, StoreCreate DEF Store!Next
    <3>3. CASE fs_delete
      BY <1>2, <2>1, <2>2, <3>3, StoreDelete DEF Store!Next
    <3>4. CASE fs_open \/ fs_close \/ fs_read
      BY <1>2, <2>1, <3>4, StoreUse DEF Store!Next
    <3>5. CASE fs_write
      <4>1. ~WriteUnalloc
        BY <1>2 DEF WriteUnalloc, StoreInv, OwnershipInv, DiskFollows, Dependable
      <4>2. CASE WriteBlock
        BY <1>2, <2>1, <4>2, StoreWriteBlock DEF Store!Next
      <4>3. CASE ~WriteBlock
        BY <1>2, <2>1, <2>2, <3>5, <4>1, <4>3, StoreWriteQuiet DEF fs_write
      <4> QED
        BY <4>2, <4>3
    <3>6. CASE PowerFailure
      BY <1>2, <2>1, <3>6, StorePower DEF Store!Next
    <3> QED
      BY <2>4, <3>1, <3>2, <3>3, <3>4, <3>5, <3>6 DEF Next
  <2> QED
    BY <1>2, <2>3, <2>4
<1> QED
  BY <1>1, <1>2, PTL DEF DisciplinedSpec, ImplementsFileStore, Store!Spec
=============================================================================
