-------------------------------- MODULE Pmm ---------------------------------
(***************************************************************************)
(* The physical memory manager of src/kernel/pmm.c: a bitmap of 4 KiB      *)
(* frames and a count of the used ones.  pmm_init() marks everything used, *)
(* releases what the boot loader's memory map calls available, entry by    *)
(* entry, and reserves the first megabyte and the kernel image again;      *)
(* afterwards frames are allocated and freed.                              *)
(*                                                                         *)
(* Addresses and lengths are 32-bit numbers: sums wrap at Word.  Nothing   *)
(* in the kernel allocates frames yet.  Clients stand for the code that    *)
(* will; held is a history of what each of them was given.                 *)
(***************************************************************************)
EXTENDS Naturals, FiniteSets, Least

CONSTANTS
    FrameSize,              \* PMM_FRAME_SIZE
    MaxFrames,              \* PMM_MAX_FRAMES
    Word,                   \* 2^32
    LowFrames,              \* the frames of the first megabyte
    KernelStart, KernelEnd, \* _kernel_start, _kernel_end of linker.ld
    Entries,                \* the memory map entries a boot loader may report
    MaxEntries,             \* bound: the length of a memory map
    Clients

MaxMemory == FrameSize * MaxFrames
Frames == 0 .. (MaxFrames - 1)
Addresses == 0 .. (Word - 1)
NoFrame == Word - 1         \* 0xFFFFFFFF

ASSUME PmmAssumption ==
    /\ FrameSize \in Nat \ {0} /\ MaxFrames \in Nat /\ Word \in Nat
    /\ MaxMemory < Word /\ LowFrames \in 0 .. MaxFrames
    /\ KernelStart \in Addresses /\ KernelEnd \in Addresses /\ KernelStart < KernelEnd
    /\ Entries \subseteq [type : Nat, addr_high : Nat, addr_low : Addresses,
                          length_high : Nat, length_low : Addresses]
    /\ MaxEntries \in Nat

VARIABLES
    frame_bitmap,   \* the frames whose bit is 1
    used_frames,
    phase,          \* where pmm_init() stands
    entries,        \* how many map entries were read
    ram,            \* history: the frames that lie in available memory
    held            \* history: the frames each client was given and has not freed

vars == <<frame_bitmap, used_frames, phase, entries, ram, held>>

-----------------------------------------------------------------------------
\* The end of a range: a sum that wraps, or lies beyond the tracked memory, is cut.
RangeEnd(start, length) ==
    LET end == (start + length) % Word
    IN  IF end < start \/ end > MaxMemory THEN MaxMemory ELSE end

\* The frames reserve_range() marks: every frame the range touches.
ReservedBy(start, length) ==
    IF length = 0 \/ start >= MaxMemory THEN {}
    ELSE {f \in Frames :
            /\ start \div FrameSize <= f
            /\ f < (RangeEnd(start, length) + FrameSize - 1) \div FrameSize}

\* The frames release_range() clears: every frame that lies inside the range.
ReleasedBy_outward(start, length) ==
    IF length = 0 \/ start >= MaxMemory THEN {}
    ELSE {f \in Frames : /\ start \div FrameSize <= f
                         /\ f < RangeEnd(start, length) \div FrameSize}
ReleasedBy(start, length) ==
    IF length = 0 \/ start >= MaxMemory THEN {}
    ELSE {f \in Frames : /\ (start + FrameSize - 1) \div FrameSize <= f
                         /\ f < RangeEnd(start, length) \div FrameSize}

\* used_frames is counted frame by frame, and never below zero.
reserve_range(used, S) == used + Cardinality(S \ frame_bitmap)
release_range_all(used, S) ==
    LET n == Cardinality(S) IN IF n <= used THEN used - n ELSE 0
release_range(used, S) ==
    LET n == Cardinality(S \cap frame_bitmap) IN IF n <= used THEN used - n ELSE 0

-----------------------------------------------------------------------------
\* The static tables before pmm_init() runs.
Init ==
    /\ frame_bitmap = {} /\ used_frames = 0
    /\ phase = "off" /\ entries = 0 /\ ram = {}
    /\ held = [c \in Clients |-> {}]

\* pmm_init() marks every frame used; without a memory map it stops there.
InitMarkAll ==
    /\ phase = "off"
    /\ frame_bitmap' = Frames /\ used_frames' = MaxFrames
    /\ phase' \in {"map", "ready"}
    /\ UNCHANGED <<entries, ram, held>>

\* The frames that really lie in an available region.
Inside(e) ==
    IF e.type = 1 /\ e.addr_high = 0
    THEN {f \in Frames : /\ e.addr_low <= f * FrameSize
                         /\ (f + 1) * FrameSize
                              <= e.addr_low + e.length_low + e.length_high * Word}
    ELSE {}

\* One entry of the map.  Only available memory below 4 GiB is released, by the
\* low word of its length.
InitEntry(e) ==
    /\ phase = "map" /\ entries < MaxEntries
    /\ LET S == IF e.type = 1 /\ e.addr_high = 0
                THEN ReleasedBy(e.addr_low, e.length_low) ELSE {}
       IN  /\ frame_bitmap' = frame_bitmap \ S
           /\ used_frames' = release_range(used_frames, S)
    /\ ram' = ram \cup Inside(e)
    /\ entries' = entries + 1
    /\ UNCHANGED <<phase, held>>

\* The end of pmm_init(): the first megabyte, then the kernel.
InitReserve ==
    /\ phase = "map" /\ phase' = "ready"
    /\ LET low == ReservedBy(0, LowFrames * FrameSize)
           kernel == ReservedBy(KernelStart, KernelEnd - KernelStart)
       IN  /\ frame_bitmap' = frame_bitmap \cup low \cup kernel
           /\ used_frames' = reserve_range(used_frames, low \cup kernel)
    /\ UNCHANGED <<entries, ram, held>>

pmm_init == InitMarkAll \/ (\E e \in Entries : InitEntry(e)) \/ InitReserve

-----------------------------------------------------------------------------
Free == Frames \ frame_bitmap

\* pmm_alloc_frame(): the lowest free frame, or 0xFFFFFFFF.
pmm_alloc_frame_unmarked(c) ==
    /\ phase = "ready" /\ Free # {}
    /\ used_frames' = used_frames + 1
    /\ held' = [held EXCEPT ![c] = @ \cup {Lowest(Free)}]
    /\ UNCHANGED <<frame_bitmap, phase, entries, ram>>
pmm_alloc_frame(c) ==
    /\ phase = "ready" /\ Free # {}
    /\ frame_bitmap' = frame_bitmap \cup {Lowest(Free)}
    /\ used_frames' = used_frames + 1
    /\ held' = [held EXCEPT ![c] = @ \cup {Lowest(Free)}]
    /\ UNCHANGED <<phase, entries, ram>>

\* The checks of pmm_free_frame() on its argument.
Freeable(address) ==
    /\ address # NoFrame /\ address % FrameSize = 0
    /\ address \div FrameSize \in Frames /\ address \div FrameSize >= LowFrames

\* pmm_free_frame() clears the bit of any frame above the first megabyte, the
\* kernel's too.  Its callers are trusted with the rest: they free what they were
\* given, at most once, or something that is free or refused anyway.
CallerMayFree(c, address) ==
    Freeable(address) => LET f == address \div FrameSize
                         IN  f \in held[c] \/ f \notin frame_bitmap

pmm_free_frame(c, address) ==
    /\ phase = "ready" /\ CallerMayFree(c, address)
    /\ LET f == IF Freeable(address) THEN {address \div FrameSize} ELSE {}
       IN  /\ frame_bitmap' = frame_bitmap \ f
           /\ used_frames' = release_range(used_frames, f)
           /\ held' = [held EXCEPT ![c] = @ \ f]
    /\ UNCHANGED <<phase, entries, ram>>

Next ==
    \/ pmm_init
    \/ \E c \in Clients :
          \/ pmm_alloc_frame(c)
          \/ \E address \in Addresses : pmm_free_frame(c, address)

Spec == Init /\ [][Next]_vars

-----------------------------------------------------------------------------
LowMemory == 0 .. (LowFrames - 1)

\* The frames any byte of the kernel image lies in.
KernelImage ==
    {f \in Frames : f * FrameSize < KernelEnd /\ KernelStart < (f + 1) * FrameSize}

Usable == ram \ (LowMemory \cup KernelImage)

PmmTypeOK ==
    /\ frame_bitmap \subseteq Frames /\ used_frames \in Nat
    /\ phase \in {"off", "map", "ready"} /\ entries \in Nat
    /\ ram \subseteq Frames /\ held \in [Clients -> SUBSET Frames]

(* used_frames, which the `memory` command reports, is the number of bits set,
   whatever the map's regions overlap and whatever is freed twice: it is kept by
   increments that have to agree with the bitmap one by one. *)
UsedIsCounted == phase # "off" => used_frames = Cardinality(frame_bitmap)

(* What can be allocated is memory: every free frame lies completely inside
   regions the map calls available, outside the first megabyte and clear of the
   kernel image, although regions are given in bytes, may end anywhere, may wrap
   at 4 GiB or be longer than their low word says. *)
FreeIsUsable == phase = "ready" => Free \subseteq Usable

(* A frame is given to one client at a time, and is memory that nothing else
   uses. *)
HeldOnce ==
    \A c \in Clients :
        /\ held[c] \subseteq frame_bitmap \cap Usable
        /\ \A d \in Clients \ {c} : held[c] \cap held[d] = {}
=============================================================================
