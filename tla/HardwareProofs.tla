--------------------------- MODULE HardwareProofs ---------------------------
(***************************************************************************)
(* Proofs about three parts of the kernel that face the hardware.          *)
(*                                                                         *)
(* Pmm, for every frame size, memory size, kernel position and memory map. *)
(* The invariant is the conjunction of the three properties, of what holds *)
(* of the bitmap while the map is being read, and of the types.  The       *)
(* arithmetic is in four lemmas about the frames a range releases and      *)
(* reserves.                                                               *)
(*                                                                         *)
(* The network card of Drivers, for every ring size, any packet lengths    *)
(* that fit it, and any number of transmit descriptors.  The ring is seen  *)
(* as a window of an endless one: every packet has a position that never   *)
(* wraps, and the lemmas say which word of the ring it is at.  RingInv     *)
(* says where the reader and the card are between the packets, and what    *)
(* the ring holds from the one to the other.                               *)
(*                                                                         *)
(* The disk of Drivers, for any texts, registry, slots, and any number of  *)
(* boots, errors and calls.  DiskInv says how far the drive has followed a *)
(* call that nothing cut into, that one that was cut into reaches suspect  *)
(* sectors only, and that every other sector, stored or being stored, is   *)
(* under the keys of the superblock.                                       *)
(***************************************************************************)
EXTENDS Pmm, Drivers, BasicProofs, FiniteSetTheorems

-----------------------------------------------------------------------------
(* The physical memory manager *)

\* Rounding a division up or down, the way the two range functions do it.
LEMMA RoundDown ==
    ASSUME NEW a \in Nat, NEW s \in Nat \ {0}, NEW f \in Nat, f < a \div s
    PROVE  (f + 1) * s <= a
<1> DEFINE q == a \div s
<1>1. q \in Nat /\ q * s <= a
  OBVIOUS
<1> HIDE DEF q
<1>2. f + 1 <= q
  BY <1>1 DEF q
<1>3. (f + 1) * s <= q * s
  BY <1>1, <1>2
<1> QED
  BY <1>1, <1>3

\* Rounding up.
LEMMA RoundUp ==
    ASSUME NEW a \in Nat, NEW s \in Nat \ {0}, NEW f \in Nat, (a + s - 1) \div s <= f
    PROVE  a <= f * s
<1> DEFINE b == a + s - 1
           q == b \div s
<1>1. b \in Nat /\ q \in Nat /\ b < (q + 1) * s
  OBVIOUS
<1>2. q <= f
  OBVIOUS
<1> HIDE DEF q
<1>3. (q + 1) * s <= (f + 1) * s
  BY <1>1, <1>2
<1>4. (f + 1) * s = f * s + s
  OBVIOUS
<1>5. b < f * s + s
  BY <1>1, <1>3, <1>4
<1> QED
  BY <1>5

\* A range that does not wrap ends where it says; one that wraps is cut at the
\* end of the tracked memory, and so is one that goes beyond it.
LEMMA EndOfRange ==
    ASSUME NEW start \in Addresses, NEW length \in Addresses
    PROVE  /\ RangeEnd(start, length) \in Nat
           /\ RangeEnd(start, length) <= MaxMemory
           /\ start <= MaxMemory => RangeEnd(start, length) <= start + length
           /\ start + length < Word /\ start + length <= MaxMemory
                => RangeEnd(start, length) = start + length
<1> DEFINE sum == start + length
           end == sum % Word
<1>1. Word \in Nat \ {0} /\ MaxMemory \in Nat /\ MaxMemory < Word /\ sum \in Nat
      /\ start \in Nat /\ length \in Nat
  BY PmmAssumption DEF MaxMemory, Addresses
<1>2. sum < Word => end = sum
  BY <1>1
<1>3. end \in Nat
  BY <1>1
<1>4. sum >= Word => MaxMemory <= sum
  BY <1>1
<1> HIDE DEF end
<1>5. RangeEnd(start, length) = IF end < start \/ end > MaxMemory THEN MaxMemory ELSE end
  BY DEF RangeEnd, end
<1>6. CASE sum < Word
  BY <1>1, <1>2, <1>3, <1>5, <1>6
<1>7. CASE sum >= Word
  BY <1>1, <1>3, <1>4, <1>5, <1>7
<1> QED
  BY <1>1, <1>6, <1>7

\* release_range() clears only frames that lie inside the region.
LEMMA ReleasesOnlyInside ==
    ASSUME NEW e \in Entries, e.type = 1, e.addr_high = 0
    PROVE  ReleasedBy(e.addr_low, e.length_low) \subseteq Inside(e)
<1> DEFINE start == e.addr_low
           length == e.length_low
<1>1. start \in Addresses /\ length \in Addresses /\ e.length_high \in Nat
      /\ Word \in Nat /\ FrameSize \in Nat \ {0} /\ MaxFrames \in Nat
  BY PmmAssumption
<1>2. ASSUME NEW f \in ReleasedBy(start, length)
      PROVE  f \in Inside(e)
  <2> DEFINE end == RangeEnd(start, length)
  <2>1. f \in Frames /\ start < MaxMemory
        /\ (start + FrameSize - 1) \div FrameSize <= f /\ f < end \div FrameSize
    BY <1>1, <1>2, PmmAssumption DEF ReleasedBy, MaxMemory, Addresses
  <2>2. f \in Nat /\ start \in Nat /\ length \in Nat
    BY <1>1, <2>1 DEF Frames, Addresses
  <2>3. end \in Nat /\ end <= start + length
    BY <1>1, <2>1, <2>2, EndOfRange DEF MaxMemory
  <2> HIDE DEF end
  <2>4. start <= f * FrameSize
    BY <1>1, <2>1, <2>2, RoundUp
  <2>5. (f + 1) * FrameSize <= end
    BY <1>1, <2>1, <2>2, <2>3, RoundDown
  <2>6. start + length <= start + length + e.length_high * Word
    <3>1. e.length_high * Word \in Nat
      BY <1>1
    <3> QED
      BY <3>1, <2>2
  <2>7. (f + 1) * FrameSize \in Nat /\ e.length_high * Word \in Nat
    BY <1>1, <2>2
  <2>8. (f + 1) * FrameSize <= start + length + e.length_high * Word
    BY <2>2, <2>3, <2>5, <2>6, <2>7
  <2> QED
    BY <2>1, <2>4, <2>8 DEF Inside
<1> QED
  BY <1>2

\* The quotient is the greatest multiple that fits.
LEMMA QuotientLower ==
    ASSUME NEW a \in Nat, NEW s \in Nat \ {0}, NEW k \in Nat, k * s <= a
    PROVE  k <= a \div s
<1> DEFINE q == a \div s
<1>1. q \in Nat /\ a < (q + 1) * s
  OBVIOUS
<1>2. SUFFICES ASSUME q + 1 <= k PROVE FALSE
  BY <1>1
<1> HIDE DEF q
<1>3. (q + 1) * s <= k * s
  BY <1>1, <1>2
<1> QED
  BY <1>1, <1>3

\* What a quotient stays under.
LEMMA QuotientUpper ==
    ASSUME NEW a \in Nat, NEW s \in Nat \ {0}, NEW k \in Nat, a < (k + 1) * s
    PROVE  a \div s <= k
<1> DEFINE q == a \div s
<1>1. q \in Nat /\ q * s <= a
  OBVIOUS
<1>2. SUFFICES ASSUME k + 1 <= q PROVE FALSE
  BY <1>1
<1> HIDE DEF q
<1>3. (k + 1) * s <= q * s
  BY <1>1, <1>2
<1> QED
  BY <1>1, <1>3

\* reserve_range() marks every frame that a byte of the range lies in.
LEMMA ReservesAllTouched ==
    ASSUME NEW start \in Addresses, NEW length \in Addresses, length # 0,
           start + length < Word,
           NEW f \in Frames, f * FrameSize < start + length,
           start < (f + 1) * FrameSize
    PROVE  f \in ReservedBy(start, length)
<1> DEFINE end == RangeEnd(start, length)
           S == FrameSize
<1>1. S \in Nat \ {0} /\ MaxFrames \in Nat /\ Word \in Nat /\ f \in Nat /\ f + 1 <= MaxFrames
      /\ start \in Nat /\ length \in Nat /\ MaxMemory = S * MaxFrames /\ MaxMemory \in Nat
      /\ MaxMemory < Word
  BY PmmAssumption DEF Frames, Addresses, MaxMemory
<1>2. (f + 1) * S <= MaxMemory /\ (f + 1) * S = f * S + S /\ f * S \in Nat
  <2>1. (f + 1) * S <= MaxFrames * S
    BY <1>1
  <2> QED
    BY <1>1, <2>1
<1>3. start < MaxMemory
  BY <1>1, <1>2
<1>4. end \in Nat /\ f * S < end
  <2>1. CASE start + length <= MaxMemory
    BY <1>1, <2>1, EndOfRange
  <2>2. CASE start + length > MaxMemory
    <3>1. (start + length) % Word = start + length
      BY <1>1
    <3>2. end = MaxMemory
      BY <1>1, <2>2, <3>1 DEF RangeEnd
    <3> QED
      BY <1>1, <1>2, <3>2
  <2> QED
    BY <1>1, <2>1, <2>2
<1> HIDE DEF end
<1>5. start \div S <= f
  BY <1>1, QuotientUpper
<1>6. f < (end + S - 1) \div S
  <2>1. (f + 1) * S <= end + S - 1 /\ end + S - 1 \in Nat
    BY <1>1, <1>2, <1>4
  <2>2. f + 1 <= (end + S - 1) \div S
    <3>1. f + 1 \in Nat
      BY <1>1
    <3> QED
      BY <1>1, <2>1, <3>1, QuotientLower
  <2>3. (end + S - 1) \div S \in Nat
    BY <1>1, <2>1
  <2> QED
    BY <1>1, <2>2, <2>3
<1> QED
  BY <1>1, <1>3, <1>5, <1>6 DEF ReservedBy, end

\* The first megabyte and the kernel image are among what pmm_init() reserves.
LEMMA ReservesLowAndKernel ==
    /\ LowMemory \subseteq ReservedBy(0, LowFrames * FrameSize)
    /\ KernelImage \subseteq ReservedBy(KernelStart, KernelEnd - KernelStart)
<1>1. FrameSize \in Nat \ {0} /\ MaxFrames \in Nat /\ Word \in Nat /\ LowFrames \in 0 .. MaxFrames
      /\ MaxMemory = FrameSize * MaxFrames /\ MaxMemory < Word
      /\ KernelStart \in Addresses /\ KernelEnd \in Addresses /\ KernelStart < KernelEnd
  BY PmmAssumption DEF MaxMemory
<1>2. ASSUME NEW f \in LowMemory PROVE f \in ReservedBy(0, LowFrames * FrameSize)
  <2> DEFINE length == LowFrames * FrameSize
  <2>1. f \in Nat /\ f + 1 <= LowFrames /\ f \in Frames /\ LowFrames \in Nat
    BY <1>1 DEF LowMemory, Frames
  <2>2. length \in Nat /\ length <= FrameSize * MaxFrames
    BY <1>1, <2>1
  <2>3. (f + 1) * FrameSize <= length /\ (f + 1) * FrameSize = f * FrameSize + FrameSize
        /\ f * FrameSize \in Nat
    BY <1>1, <2>1
  <2> HIDE DEF length
  <2>4. 0 \in Addresses /\ length \in Addresses /\ 0 + length < Word /\ length # 0
    BY <1>1, <2>2, <2>3 DEF Addresses
  <2>5. f * FrameSize < 0 + length /\ 0 < (f + 1) * FrameSize
    BY <1>1, <2>2, <2>3
  <2>6. f \in ReservedBy(0, length)
    BY <2>1, <2>4, <2>5, ReservesAllTouched
  <2> QED
    BY <2>6 DEF length
<1>3. ASSUME NEW f \in KernelImage
      PROVE  f \in ReservedBy(KernelStart, KernelEnd - KernelStart)
  <2>1. f \in Frames /\ f * FrameSize < KernelEnd /\ KernelStart < (f + 1) * FrameSize
    BY DEF KernelImage
  <2>2. KernelEnd - KernelStart \in Addresses /\ KernelEnd - KernelStart # 0
        /\ KernelStart + (KernelEnd - KernelStart) = KernelEnd /\ KernelEnd < Word
    BY <1>1 DEF Addresses
  <2> QED
    BY <1>1, <2>1, <2>2, ReservesAllTouched
<1> QED
  BY <1>2, <1>3

-----------------------------------------------------------------------------
\* While the map is read nothing is held, and what is free so far is memory.
WhileMapping == phase # "ready" => /\ \A c \in Clients : held[c] = {}
                                   /\ phase = "map" => Free \subseteq ram

Inv == PmmTypeOK /\ WhileMapping /\ UsedIsCounted /\ FreeIsUsable /\ HeldOnce

\* The bitmap is finite, and clearing or setting frames is counted exactly.
LEMMA CountClear ==
    ASSUME NEW B \in SUBSET Frames, NEW S \in SUBSET Frames
    PROVE  /\ IsFiniteSet(B) /\ Cardinality(B) \in Nat
           /\ Cardinality(S \cap B) \in Nat /\ Cardinality(S \cap B) <= Cardinality(B)
           /\ Cardinality(B \ S) = Cardinality(B) - Cardinality(S \cap B)
<1>1. IsFiniteSet(Frames)
  BY PmmAssumption, FS_Interval DEF Frames
<1>2. IsFiniteSet(B) /\ IsFiniteSet(S)
  BY <1>1, FS_Subset
<1>3. B \cap S = S \cap B /\ S \cap B \subseteq B
  OBVIOUS
<1>4. Cardinality(S \cap B) <= Cardinality(B)
  BY <1>2, <1>3, FS_Subset
<1>5. Cardinality(B) \in Nat /\ Cardinality(S \cap B) \in Nat
  <2>1. IsFiniteSet(S \cap B)
    BY <1>2, <1>3, FS_Subset
  <2> QED
    BY <1>2, <2>1, FS_CardinalityType
<1>6. Cardinality(B \ S) = Cardinality(B) - Cardinality(B \cap S)
  BY <1>2, FS_Difference
<1> QED
  BY <1>2, <1>3, <1>4, <1>5, <1>6

\* Frames added to a set of frames.
LEMMA CountSet ==
    ASSUME NEW B \in SUBSET Frames, NEW S \in SUBSET Frames
    PROVE  Cardinality(B \cup S) = Cardinality(B) + Cardinality(S \ B)
<1>1. IsFiniteSet(B) /\ IsFiniteSet(S \ B)
  BY CountClear, S \ B \in SUBSET Frames
<1>2. B \cap (S \ B) = {} /\ B \cup (S \ B) = B \cup S
  OBVIOUS
<1>3. Cardinality(B \cup (S \ B))
      = Cardinality(B) + Cardinality(S \ B) - Cardinality(B \cap (S \ B))
  BY <1>1, FS_Union
<1>4. Cardinality(B) \in Nat /\ Cardinality(S \ B) \in Nat
  BY <1>1, FS_CardinalityType
<1>5. Cardinality(B \cap (S \ B)) = 0
  BY <1>2, FS_EmptySet, Zenon
<1>6. Cardinality(B \cup (S \ B)) = Cardinality(B) + Cardinality(S \ B)
  BY <1>3, <1>4, <1>5
<1> QED
  BY <1>2, <1>6

\* Memory before the map is read.
LEMMA PmmStart == Init => Inv
BY DEF Init, Inv, PmmTypeOK, WhileMapping, UsedIsCounted, FreeIsUsable, HeldOnce

\* pmm_init(): everything used, the available regions released, the first megabyte
\* and the kernel reserved.
LEMMA InitSteps == Inv /\ pmm_init => Inv'
<1> SUFFICES ASSUME Inv, pmm_init PROVE Inv'
  OBVIOUS
<1> USE DEF Inv
<1>t. PmmTypeOK /\ MaxFrames \in Nat
  BY PmmAssumption
<1>1. CASE InitMarkAll
  <2>1. Cardinality(Frames) = MaxFrames
    BY <1>t, FS_Interval DEF Frames
  <2>2. \A c \in Clients : held[c] = {}
    BY <1>1 DEF WhileMapping, InitMarkAll
  <2>3. frame_bitmap' = Frames /\ Free' = {} /\ held' = held /\ used_frames' = MaxFrames
    BY <1>1 DEF InitMarkAll, Free
  <2> QED
    BY <1>t, <1>1, <2>1, <2>2, <2>3 DEF InitMarkAll, PmmTypeOK, WhileMapping,
       UsedIsCounted, FreeIsUsable, HeldOnce
<1>2. ASSUME NEW e \in Entries, InitEntry(e) PROVE Inv'
  <2> DEFINE S == IF e.type = 1 /\ e.addr_high = 0
                  THEN ReleasedBy(e.addr_low, e.length_low) ELSE {}
  <2>1. S \subseteq Inside(e) /\ S \subseteq Frames /\ Inside(e) \subseteq Frames
    BY ReleasesOnlyInside DEF ReleasedBy, Inside
  <2>2. phase = "map" /\ phase' = "map" /\ held' = held /\ ram' = ram \cup Inside(e)
        /\ entries' = entries + 1
        /\ frame_bitmap' = frame_bitmap \ S /\ used_frames' = release_range(used_frames, S)
    BY <1>2 DEF InitEntry
  <2> HIDE DEF S
  <2>3. UsedIsCounted'
    BY <1>t, <2>1, <2>2, CountClear DEF UsedIsCounted, release_range, PmmTypeOK
  <2>4. PmmTypeOK'
    <3>1. frame_bitmap \in SUBSET Frames /\ used_frames = Cardinality(frame_bitmap)
      BY <1>t, <2>2 DEF PmmTypeOK, UsedIsCounted
    <3>2. used_frames' \in Nat
      BY <2>1, <2>2, <3>1, CountClear DEF release_range
    <3> QED
      BY <1>t, <2>1, <2>2, <3>2 DEF PmmTypeOK
  <2>5. WhileMapping'
    BY <2>1, <2>2 DEF WhileMapping, Free
  <2> QED
    BY <2>2, <2>3, <2>4, <2>5 DEF FreeIsUsable, HeldOnce, WhileMapping
<1>3. CASE InitReserve
  <2> DEFINE R == ReservedBy(0, LowFrames * FrameSize)
                    \cup ReservedBy(KernelStart, KernelEnd - KernelStart)
  <2>1. R \subseteq Frames /\ LowMemory \subseteq R /\ KernelImage \subseteq R
    BY ReservesLowAndKernel DEF ReservedBy
  <2>2. phase = "map" /\ phase' = "ready" /\ held' = held /\ ram' = ram /\ entries' = entries
        /\ frame_bitmap' = frame_bitmap \cup R /\ used_frames' = reserve_range(used_frames, R)
    BY <1>3 DEF InitReserve
  <2> HIDE DEF R
  <2>3. UsedIsCounted'
    BY <1>t, <2>1, <2>2, CountSet DEF UsedIsCounted, reserve_range, PmmTypeOK
  <2>4. Cardinality(R \ frame_bitmap) \in Nat
    BY <2>1, CountClear
  <2>5. PmmTypeOK'
    BY <1>t, <2>1, <2>2, <2>4 DEF PmmTypeOK, reserve_range
  <2>6. FreeIsUsable'
    BY <2>1, <2>2 DEF WhileMapping, FreeIsUsable, Free, Usable
  <2> QED
    BY <2>2, <2>3, <2>5, <2>6 DEF WhileMapping, HeldOnce
<1> QED
  BY <1>1, <1>2, <1>3 DEF pmm_init

\* Allocation takes a free frame, so nobody holds it, and it is usable.
LEMMA AllocStep == ASSUME NEW c \in Clients, Inv, pmm_alloc_frame(c) PROVE Inv'
<1> USE DEF Inv
<1> DEFINE f == Lowest(Free)
<1>1. f \in Free
  <2>1. Free \in SUBSET Nat /\ Free # {}
    BY PmmAssumption DEF Free, Frames, pmm_alloc_frame
  <2> QED
    BY <2>1, LowestOfSet
<1>2. f \in Frames /\ f \notin frame_bitmap
  BY <1>1 DEF Free
<1>3. phase = "ready" /\ phase' = "ready" /\ ram' = ram /\ entries' = entries
      /\ frame_bitmap' = frame_bitmap \cup {f} /\ used_frames' = used_frames + 1
      /\ held' = [held EXCEPT ![c] = @ \cup {f}]
  BY DEF pmm_alloc_frame
<1> HIDE DEF f
<1>4. PmmTypeOK'
  BY <1>2, <1>3 DEF PmmTypeOK
<1>5. Cardinality(frame_bitmap \cup {f}) = Cardinality(frame_bitmap) + 1
  BY <1>2, CountClear, FS_AddElement DEF PmmTypeOK
<1>6. UsedIsCounted'
  BY <1>3, <1>5 DEF UsedIsCounted
<1>7. f \in Usable /\ Usable' = Usable
  BY <1>1, <1>3 DEF FreeIsUsable, Usable
<1>8. FreeIsUsable'
  BY <1>3, <1>7 DEF FreeIsUsable, Free
<1>9. HeldOnce'
  <2>1. \A d \in Clients : held[d] \in SUBSET Frames /\ f \notin held[d]
    BY <1>2 DEF PmmTypeOK, HeldOnce
  <2>2. \A d \in Clients : held'[d] = IF d = c THEN held[d] \cup {f} ELSE held[d]
    BY <1>3 DEF PmmTypeOK
  <2> QED
    BY <1>3, <1>7, <2>1, <2>2 DEF HeldOnce
<1> QED
  BY <1>3, <1>4, <1>6, <1>8, <1>9 DEF WhileMapping

\* Freeing clears a frame the caller held, which is usable, or changes nothing.
LEMMA FreeStep ==
    ASSUME NEW c \in Clients, NEW address \in Addresses, Inv, pmm_free_frame(c, address)
    PROVE  Inv'
<1> USE DEF Inv
<1> DEFINE F == IF Freeable(address) THEN {address \div FrameSize} ELSE {}
<1>1. F \subseteq Frames /\ F \subseteq held[c] \cup Free
  BY DEF pmm_free_frame, CallerMayFree, Freeable, Free
<1>2. phase = "ready" /\ phase' = "ready" /\ ram' = ram /\ entries' = entries
      /\ frame_bitmap' = frame_bitmap \ F /\ used_frames' = release_range(used_frames, F)
      /\ held' = [held EXCEPT ![c] = @ \ F]
  BY DEF pmm_free_frame
<1> HIDE DEF F
<1>3. UsedIsCounted'
  BY <1>1, <1>2, CountClear DEF UsedIsCounted, release_range, PmmTypeOK
<1>4. \A d \in Clients : held'[d] = IF d = c THEN held[d] \ F ELSE held[d]
  BY <1>2 DEF PmmTypeOK
<1>5. PmmTypeOK'
  BY <1>1, <1>2, CountClear DEF PmmTypeOK, release_range, UsedIsCounted
<1>6. Usable' = Usable /\ held[c] \subseteq Usable /\ Free \subseteq Usable
  BY <1>2 DEF Usable, HeldOnce, FreeIsUsable
<1>7. FreeIsUsable'
  BY <1>1, <1>2, <1>6 DEF FreeIsUsable, Free
<1>8. HeldOnce'
  BY <1>1, <1>2, <1>4, <1>6 DEF HeldOnce, Free
<1> QED
  BY <1>2, <1>3, <1>5, <1>7, <1>8 DEF WhileMapping

\* Every step.
LEMMA PmmStep == Inv /\ [Next]_vars => Inv'
<1> SUFFICES ASSUME Inv, [Next]_vars PROVE Inv'
  OBVIOUS
<1>1. CASE UNCHANGED vars
  BY <1>1 DEF vars, Inv, PmmTypeOK, WhileMapping, UsedIsCounted, FreeIsUsable, HeldOnce,
              Free, Usable
<1> QED
  BY <1>1, InitSteps, AllocStep, FreeStep DEF Next

\* The memory manager's invariant.
LEMMA PmmInvariant == Spec => []Inv
BY PmmStart, PmmStep, PTL DEF Spec

(* For every memory map, kernel position and sequence of calls, used_frames is the
   number of frames marked. *)
THEOREM CountIsExact == Spec => []UsedIsCounted
<1>1. Inv => UsedIsCounted
  BY DEF Inv
<1> QED
  BY <1>1, PmmInvariant, PTL

(* For every memory map, what pmm_alloc_frame() can return is available memory,
   above the first megabyte and outside the kernel. *)
THEOREM FreeMemoryIsUsable == Spec => []FreeIsUsable
<1>1. Inv => FreeIsUsable
  BY DEF Inv
<1> QED
  BY <1>1, PmmInvariant, PTL

(* No frame is in two hands, for any number of clients that free only their own. *)
THEOREM FramesHeldOnce == Spec => []HeldOnce
<1>1. Inv => HeldOnce
  BY DEF Inv
<1> QED
  BY <1>1, PmmInvariant, PTL

-----------------------------------------------------------------------------
(* Arithmetic of the ring *)

\* Multiplication.
LEMMA Times ==
    ASSUME NEW a \in Int, NEW b \in Int, NEW c \in Int
    PROVE  a * b \in Int /\ (a * b) * c = a * (b * c) /\ a * (b + c) = a * b + a * c
OBVIOUS

\* Division with remainder.
LEMMA Divided ==
    ASSUME NEW x \in Int, NEW R \in Nat \ {0}
    PROVE  \E q \in Int, s \in 0 .. R - 1 : x = R * q + s /\ s = x % R
<1>1. x % R = x - R * (x \div R)
  OBVIOUS
<1>2. x % R \in 0 .. R - 1 /\ x \div R \in Int
  OBVIOUS
<1>3. PICK q \in Int : q = x \div R
  BY <1>2
<1>4. PICK s \in 0 .. R - 1 : s = x % R
  BY <1>2
<1>5. R * q \in Int
  OBVIOUS
<1>6. s = x - R * q
  BY <1>1, <1>3, <1>4
<1>7. x = R * q + s
  BY <1>5, <1>6
<1> QED
  BY <1>4, <1>7

\* The remainder is the only one.
LEMMA Remainder ==
    ASSUME NEW x \in Int, NEW R \in Nat \ {0}, NEW q \in Int, NEW s \in 0 .. R - 1,
           x = R * q + s
    PROVE  x % R = s
OBVIOUS

\* Going on by d from a place of the ring.
LEMMA GoesOn ==
    ASSUME NEW a \in Int, NEW d \in Int, NEW R \in Nat \ {0}
    PROVE  ((a % R) + d) % R = (a + d) % R
<1>1. PICK p \in Int, s \in 0 .. R - 1 : a = R * p + s /\ s = a % R
  BY Divided
<1>2. PICK x \in Int : x = s + d
  OBVIOUS
<1>3. PICK q \in Int, t \in 0 .. R - 1 : x = R * q + t /\ t = x % R
  BY Divided
<1>4. PICK u \in Int : u = R * p
  BY Times
<1>5. PICK v \in Int : v = R * q
  BY Times
<1>6. PICK k \in Int : k = p + q /\ R * k = u + v
  BY <1>4, <1>5, Times
<1>7. PICK y \in Int : y = a + d
  OBVIOUS
<1>8. y = u + v + t
  <2>1. a = u + s /\ x = v + t
    BY <1>1, <1>3, <1>4, <1>5, Zenon
  <2> QED
    BY <1>2, <1>7, <2>1
<1>9. y = R * k + t
  BY <1>6, <1>8
<1>10. y % R = t
  BY <1>9, Remainder
<1> QED
  BY <1>1, <1>2, <1>3, <1>7, <1>10

\* Less than a turn further, the place is that much further or a turn back.
LEMMA WithinTurn ==
    ASSUME NEW a \in Int, NEW b \in Int, NEW R \in Nat \ {0}, a <= b, b < a + R
    PROVE  b % R = (a % R) + (b - a) \/ b % R = (a % R) + (b - a) - R
<1>1. PICK p \in Int, s \in 0 .. R - 1 : a = R * p + s /\ s = a % R
  BY Divided
<1>2. PICK d \in 0 .. R - 1 : b = a + d /\ d = b - a
  OBVIOUS
<1>3. R * (p + 1) = R * p + R /\ R * p \in Int /\ p + 1 \in Int
  OBVIOUS
<1>4. CASE s + d < R
  <2>1. s + d \in 0 .. R - 1 /\ b = R * p + (s + d)
    BY <1>1, <1>2, <1>3, <1>4
  <2>2. b % R = s + d
    BY <2>1, Remainder
  <2> QED
    BY <1>1, <1>2, <2>2
<1>5. CASE s + d >= R
  <2>1. s + d - R \in 0 .. R - 1 /\ b = R * (p + 1) + (s + d - R)
    BY <1>1, <1>2, <1>3, <1>5
  <2>2. b % R = s + d - R
    BY <1>3, <2>1, Remainder
  <2> QED
    BY <1>1, <1>2, <2>2
<1> QED
  BY <1>4, <1>5

\* How far b is ahead of a, from their places alone.
LEMMA Ahead ==
    ASSUME NEW a \in Int, NEW b \in Int, NEW R \in Nat \ {0}, a <= b, b < a + R
    PROVE  ((b % R) - (a % R)) % R = b - a
<1>1. PICK s \in 0 .. R - 1 : s = a % R
  OBVIOUS
<1>2. PICK t \in 0 .. R - 1 : t = b % R
  OBVIOUS
<1>3. PICK d \in 0 .. R - 1 : d = b - a
  OBVIOUS
<1>4. t = s + d \/ t = s + d - R
  BY <1>1, <1>2, <1>3, WithinTurn
<1>5. PICK x \in Int : x = t - s
  OBVIOUS
<1>6. R * 0 = 0 /\ R * (-1) = -R
  OBVIOUS
<1>7. x = R * 0 + d \/ x = R * (-1) + d
  BY <1>4, <1>5, <1>6
<1>8. x % R = d
  <2>1. CASE x = R * 0 + d
    BY <2>1, Remainder
  <2>2. CASE x = R * (-1) + d
    <3>1. -1 \in Int
      OBVIOUS
    <3> QED
      BY <2>2, <3>1, Remainder
  <2> QED
    BY <1>7, <2>1, <2>2
<1>9. (b % R) - (a % R) = x
  BY <1>1, <1>2, <1>5
<1>10. ((b % R) - (a % R)) % R = x % R
  BY <1>9, Zenon
<1> QED
  BY <1>3, <1>8, <1>10

\* A turn of the register is a number of turns of the ring.
LEMMA TurnsOfTurn ==
    ASSUME NEW y \in Int, NEW W \in Nat \ {0}, NEW R \in Nat \ {0}, W % R = 0
    PROVE  (y % W) % R = y % R
<1>1. PICK m \in Int, z \in 0 .. R - 1 : W = R * m + z /\ z = W % R
  BY Divided
<1>2. PICK q \in Int, s \in 0 .. W - 1 : y = W * q + s /\ s = y % W
  BY Divided
<1>a. s \in Int
  OBVIOUS
<1>3. PICK p \in Int, t \in 0 .. R - 1 : s = R * p + t /\ t = s % R
  BY <1>a, Divided
<1>4. PICK g \in Int : g = R * m
  BY Times
<1>5. W = g
  <2>1. W = g + z /\ z = 0
    BY <1>1, <1>4, Zenon
  <2> QED
    BY <2>1
<1>6. PICK n \in Int : n = m * q
  BY Times
<1>7. PICK u \in Int : u = R * n
  BY Times
<1>8. PICK v \in Int : v = R * p
  BY Times
<1>9. W * q = u
  BY <1>4, <1>5, <1>6, <1>7, Times
<1>10. PICK k \in Int : k = n + p /\ R * k = u + v
  BY <1>7, <1>8, Times
<1>11. y = u + v + t
  <2>1. y = u + s /\ s = v + t
    BY <1>2, <1>3, <1>8, <1>9, Zenon
  <2> QED
    BY <2>1
<1>12. y = R * k + t
  BY <1>10, <1>11
<1>13. y % R = t
  BY <1>12, Remainder
<1> QED
  BY <1>2, <1>3, <1>13, Zenon

\* Places of the ring are places of words.
LEMMA WordPlace ==
    ASSUME NEW a \in Nat, a % 4 = 0, NEW R \in Nat \ {0}, R % 4 = 0
    PROVE  (a % R) % 4 = 0 /\ a % R \in 0 .. R - 4
<1>a. a \in Int
  OBVIOUS
<1>1. PICK q \in Int, s \in 0 .. R - 1 : a = R * q + s /\ s = a % R
  BY <1>a, Divided
<1>2. PICK m \in Int : R = 4 * m
  OBVIOUS
<1>3. PICK k \in Int : a = 4 * k
  OBVIOUS
<1>4. PICK j \in Int : j = m * q
  BY Times
<1>5. R * q = 4 * j
  BY <1>2, <1>4, Times
<1>6. a = 4 * j + s
  BY <1>1, <1>5, Zenon
<1>7. s % 4 = 0 /\ s \in 0 .. R - 4
  BY <1>2, <1>3, <1>6
<1>8. s = a % R
  BY <1>1
<1> QED
  BY <1>7, <1>8, Zenon

-----------------------------------------------------------------------------
(* The receive ring *)

\* The sizes of a packet.
LEMMA PacketSizes ==
    ASSUME NEW n \in Lengths
    PROVE  /\ n \in Nat /\ n > 4
           /\ Occupies(n) \in Nat /\ Occupies(n) < RingLen /\ Occupies(n) <= Padding + 4
           /\ \E o \in Nat : /\ Occupies(n) = 4 * o /\ Occupies(n) \div 4 = o /\ o > 0
                             /\ FrameWords(n) \in Nat \ {0} /\ FrameWords(n) < o
<1>1. n \in Nat /\ n > 4 /\ Occupies(n) < RingLen /\ Occupies(n) <= Padding + 4
  BY Rtl8139Assumption
<1>2. PICK o \in Nat : o = (4 + n + 3) \div 4
  BY <1>1
<1>3. Occupies(n) = 4 * o
  BY <1>2 DEF Occupies, Align
<1>4. FrameWords(n) \in Nat \ {0} /\ FrameWords(n) < o /\ o > 0
  BY <1>1, <1>2 DEF FrameWords
<1>5. (4 * o) \div 4 = o /\ 4 * o \in Nat
  OBVIOUS
<1> QED
  BY <1>1, <1>3, <1>4, <1>5

\* Where the packets of lengths ls begin, if the ring had no end.
Positions(pos, ls) ==
    /\ pos \in [0 .. Len(ls) -> Nat] /\ pos[0] = 0
    /\ \A i \in 1 .. Len(ls) : pos[i] = pos[i - 1] + Occupies(ls[i])
    /\ \A i, k \in 0 .. Len(ls) : i <= k => pos[i] <= pos[k]
    /\ \A i \in 0 .. Len(ls) : pos[i] % 4 = 0

\* Packet i, of n bytes, is in the memory at `at`.
Holds(buf, at, i, n) ==
    \A j \in 0 .. ((Occupies(n) \div 4) - 1) : buf[(at \div 4) + j] = [id |-> i, part |-> j]

\* All packets after the first r are in the ring.
RingHolds(pos, ls, buf, r) ==
    \A i \in (r + 1) .. Len(ls) : Holds(buf, pos[i - 1] % RingLen, i, ls[i])

\* The memory after packet id arrived at `at`.
Written(buf, at, id, n) ==
    LET first == at \div 4
        final == first + Occupies(n) \div 4 - 1
    IN  [w \in Words |-> IF w \in first .. final THEN [id |-> id, part |-> w - first] ELSE buf[w]]

\* The packet is where the card put it.
LEMMA NewPacketHeld ==
    ASSUME NEW buf, NEW at \in 0 .. RingLen - 4, at % 4 = 0, NEW id, NEW n \in Lengths
    PROVE  Holds(Written(buf, at, id, n), at, id, n)
<1>1. PICK o \in Nat : Occupies(n) = 4 * o /\ Occupies(n) \div 4 = o /\ 4 * o <= Padding + 4
  BY PacketSizes
<1>2. RingLen \in Nat /\ Padding \in Nat /\ RingLen % 4 = 0 /\ Padding % 4 = 0
  BY Rtl8139Assumption
<1>3. PICK f \in Nat : f = at \div 4 /\ at = 4 * f
  BY <1>2
<1>4. ASSUME NEW j \in 0 .. o - 1
      PROVE  f + j \in Words /\ f + j \in f .. (f + o - 1) /\ (f + j) - f = j
  BY <1>1, <1>2, <1>3 DEF Words
<1>5. Written(buf, at, id, n) = [w \in Words |-> IF w \in f .. (f + o - 1)
                                                 THEN [id |-> id, part |-> w - f] ELSE buf[w]]
  BY <1>1, <1>3 DEF Written
<1>6. ASSUME NEW j \in 0 .. o - 1
      PROVE  Written(buf, at, id, n)[f + j] = [id |-> id, part |-> j]
  BY <1>4, <1>5
<1> QED
  BY <1>1, <1>3, <1>6 DEF Holds

\* It overwrites no other that fits into the ring with it.
LEMMA OldPacketHeld ==
    ASSUME NEW buf, NEW p \in Nat, p % 4 = 0, NEW q \in Nat, q % 4 = 0,
           NEW i, NEW m \in Lengths, NEW id, NEW n \in Lengths,
           p + Occupies(m) <= q, q + Occupies(n) < p + RingLen,
           Holds(buf, p % RingLen, i, m)
    PROVE  Holds(Written(buf, q % RingLen, id, n), p % RingLen, i, m)
<1>1. PICK o \in Nat : Occupies(n) = 4 * o /\ Occupies(n) \div 4 = o
  BY PacketSizes
<1>2. PICK h \in Nat : /\ Occupies(m) = 4 * h /\ Occupies(m) \div 4 = h
                       /\ 4 * h <= Padding + 4
  BY PacketSizes
<1>3. RingLen \in Nat \ {0} /\ Padding \in Nat /\ RingLen % 4 = 0 /\ Padding % 4 = 0
  BY Rtl8139Assumption
<1>4. PICK a \in 0 .. RingLen - 4 : a = p % RingLen /\ a % 4 = 0
  BY <1>3, WordPlace
<1>5. PICK b \in 0 .. RingLen - 4 : b = q % RingLen /\ b % 4 = 0
  BY <1>3, WordPlace
<1>6. b = a + (q - p) \/ b = a + (q - p) - RingLen
  <2>1. p \in Int /\ q \in Int /\ p <= q /\ q < p + RingLen
    BY <1>1, <1>2, <1>3
  <2> QED
    BY <1>3, <1>4, <1>5, <2>1, WithinTurn
<1>7. PICK f \in Nat : f = a \div 4 /\ a = 4 * f
  BY <1>3, <1>4
<1>8. PICK g \in Nat : g = b \div 4 /\ b = 4 * g
  BY <1>3, <1>5
<1>9. f + h <= g \/ g + o <= f
  BY <1>1, <1>2, <1>3, <1>6, <1>7, <1>8
<1>10. ASSUME NEW j \in 0 .. h - 1 PROVE f + j \in Words /\ f + j \notin g .. (g + o - 1)
  <2>1. f + j \notin g .. (g + o - 1)
    BY <1>9
  <2>2. f + j \in Words
    BY <1>2, <1>3, <1>7 DEF Words
  <2> QED
    BY <2>1, <2>2
<1>11. Written(buf, b, id, n) = [w \in Words |-> IF w \in g .. (g + o - 1)
                                                 THEN [id |-> id, part |-> w - g] ELSE buf[w]]
  BY <1>1, <1>8 DEF Written
<1>12. ASSUME NEW j \in 0 .. h - 1 PROVE Written(buf, b, id, n)[f + j] = [id |-> i, part |-> j]
  <2>1. buf[f + j] = [id |-> i, part |-> j]
    BY <1>2, <1>4, <1>7 DEF Holds
  <2> QED
    BY <1>10, <1>11, <2>1
<1>13. Holds(Written(buf, b, id, n), a, i, m)
  BY <1>2, <1>7, <1>12 DEF Holds
<1> QED
  BY <1>4, <1>5, <1>13


\* Positions with one packet more.
LEMMA MorePositions ==
    ASSUME NEW ls \in Seq(Lengths), NEW pos, Positions(pos, ls), NEW n \in Lengths
    PROVE  \E q : /\ Positions(q, Append(ls, n))
                  /\ \A i \in 0 .. Len(ls) : q[i] = pos[i]
                  /\ q[Len(ls) + 1] = pos[Len(ls)] + Occupies(n)
<1>1. PICK m \in Nat : m = Len(ls)
  OBVIOUS
<1>2. PICK o \in Nat : Occupies(n) = 4 * o
  BY PacketSizes
<1>3. PICK more \in Seq(Lengths) : more = Append(ls, n)
  <2>1. Append(ls, n) \in Seq(Lengths)
    BY AppendProperties
  <2> QED
    BY <2>1, Zenon
<1>4. Len(more) = m + 1 /\ more[m + 1] = n /\ \A i \in 1 .. m : more[i] = ls[i]
  BY <1>1, <1>3
<1>5. /\ pos \in [0 .. m -> Nat] /\ pos[0] = 0
      /\ \A i \in 1 .. m : pos[i] = pos[i - 1] + Occupies(ls[i])
      /\ \A i, k \in 0 .. m : i <= k => pos[i] <= pos[k]
      /\ \A i \in 0 .. m : pos[i] % 4 = 0
  BY <1>1 DEF Positions
<1>6. PICK z \in Nat : z = pos[m] + Occupies(n) /\ z % 4 = 0 /\ pos[m] <= z
  <2>1. PICK y \in Nat : y = pos[m] /\ y % 4 = 0
    BY <1>5
  <2>2. y + 4 * o \in Nat /\ (y + 4 * o) % 4 = 0 /\ y <= y + 4 * o
    BY <2>1
  <2> QED
    BY <1>2, <2>1, <2>2
<1> DEFINE q == [i \in 0 .. m + 1 |-> IF i = m + 1 THEN z ELSE pos[i]]
<1>7. q \in [0 .. m + 1 -> Nat] /\ q[m + 1] = z /\ \A i \in 0 .. m : q[i] = pos[i]
  BY <1>5
<1> HIDE DEF q
<1>8. q[0] = 0
  BY <1>5, <1>7
<1>9. ASSUME NEW i \in 1 .. m + 1 PROVE q[i] = q[i - 1] + Occupies(more[i])
  <2>1. CASE i = m + 1
    <3>1. i - 1 = m /\ m \in 0 .. m
      BY <2>1
    <3> QED
      BY <1>4, <1>6, <1>7, <2>1, <3>1
  <2>2. CASE i # m + 1
    <3>1. i \in 1 .. m /\ i \in 0 .. m /\ i - 1 \in 0 .. m
      BY <2>2
    <3> QED
      BY <1>4, <1>5, <1>7, <3>1
  <2> QED
    BY <2>1, <2>2
<1>10. ASSUME NEW i \in 0 .. m + 1, NEW k \in 0 .. m + 1, i <= k PROVE q[i] <= q[k]
  <2>1. CASE k = m + 1 /\ i = m + 1
    BY <1>6, <1>7, <2>1
  <2>2. CASE k = m + 1 /\ i # m + 1
    <3>1. i \in 0 .. m /\ m \in 0 .. m /\ i <= m
      BY <2>2
    <3>2. pos[i] <= pos[m] /\ q[i] = pos[i] /\ q[k] = z /\ pos[i] \in Nat /\ pos[m] \in Nat
      BY <1>5, <1>7, <2>2, <3>1
    <3> QED
      BY <1>6, <3>2
  <2>3. CASE k # m + 1
    <3>1. i \in 0 .. m /\ k \in 0 .. m
      BY <1>10, <2>3
    <3>2. q[i] = pos[i] /\ q[k] = pos[k]
      BY <1>7, <3>1
    <3> QED
      BY <1>5, <1>10, <3>1, <3>2
  <2> QED
    BY <2>1, <2>2, <2>3
<1>11. ASSUME NEW i \in 0 .. m + 1 PROVE q[i] % 4 = 0
  <2>1. CASE i = m + 1
    BY <1>6, <1>7, <2>1
  <2>2. CASE i # m + 1
    <3>1. i \in 0 .. m
      BY <2>2
    <3> QED
      BY <1>5, <1>7, <3>1
  <2> QED
    BY <2>1, <2>2
<1>12. Positions(q, more)
  BY <1>4, <1>7, <1>8, <1>9, <1>10, <1>11 DEF Positions
<1> QED
  BY <1>1, <1>3, <1>6, <1>7, <1>12

\* A packet that the card has room for arrives.
LEMMA RingTakes ==
    ASSUME NEW ls \in Seq(Lengths), NEW pos, Positions(pos, ls), NEW buf,
           NEW r \in 0 .. Len(ls), RingHolds(pos, ls, buf, r), NEW n \in Lengths,
           (pos[Len(ls)] - pos[r]) + Occupies(n) < RingLen,
           NEW q, Positions(q, Append(ls, n)), \A i \in 0 .. Len(ls) : q[i] = pos[i]
    PROVE  RingHolds(q, Append(ls, n), Written(buf, pos[Len(ls)] % RingLen, Len(ls) + 1, n), r)
<1>1. PICK m \in Nat : m = Len(ls)
  OBVIOUS
<1>2. PICK more \in Seq(Lengths) : more = Append(ls, n)
  <2>1. Append(ls, n) \in Seq(Lengths)
    BY AppendProperties
  <2> QED
    BY <2>1, Zenon
<1>3. Len(more) = m + 1 /\ more[m + 1] = n /\ \A i \in 1 .. m : more[i] = ls[i]
  BY <1>1, <1>2
<1>4. PICK z \in Nat : z = pos[m] /\ z % 4 = 0
  BY <1>1 DEF Positions
<1>5. RingLen \in Nat \ {0} /\ RingLen % 4 = 0
  BY Rtl8139Assumption
<1>a. /\ pos \in [0 .. m -> Nat]
      /\ \A i \in 1 .. m : pos[i] = pos[i - 1] + Occupies(ls[i])
      /\ \A i, k \in 0 .. m : i <= k => pos[i] <= pos[k]
      /\ \A i \in 0 .. m : pos[i] % 4 = 0
  BY <1>1 DEF Positions
<1>6. PICK at \in 0 .. RingLen - 4 : at = z % RingLen /\ at % 4 = 0
  BY <1>4, <1>5, WordPlace
<1> DEFINE new == Written(buf, at, m + 1, n)
<1>7. Holds(new, at, m + 1, n)
  BY <1>6, NewPacketHeld
<1>8. ASSUME NEW i \in (r + 1) .. m PROVE Holds(new, pos[i - 1] % RingLen, i, ls[i])
  <2>1. i \in 1 .. m /\ i - 1 \in 0 .. m /\ r \in 0 .. m /\ r <= i - 1 /\ i \in 0 .. m /\ m \in 0 .. m
    BY <1>1
  <2>2. PICK p \in Nat : p = pos[i - 1] /\ p % 4 = 0
    BY <1>a, <2>1
  <2>3. PICK len \in Lengths : len = ls[i]
    BY <1>1, <2>1
  <2>4. p + Occupies(len) = pos[i] /\ pos[i] <= z /\ pos[r] <= p /\ pos[r] \in Nat
    <3>1. p + Occupies(len) = pos[i]
      BY <1>a, <2>1, <2>2, <2>3
    <3>2. i <= m /\ pos[i] <= pos[m] /\ pos[r] <= pos[i - 1] /\ pos[r] \in Nat
      BY <1>a, <2>1
    <3> QED
      BY <1>4, <2>2, <3>1, <3>2
  <2>5. Occupies(n) \in Nat /\ (z - pos[r]) + Occupies(n) < RingLen
    BY <1>1, <1>4, PacketSizes
  <2>6. p + Occupies(len) <= z /\ z + Occupies(n) < p + RingLen
    <3>1. PICK b \in Nat : b = pos[r]
      BY <2>4
    <3>2. PICK o \in Nat : o = Occupies(n)
      BY <2>5
    <3>3. b <= p /\ (z - b) + o < RingLen
      BY <2>4, <2>5, <3>1, <3>2
    <3>4. z + o < p + RingLen
      BY <1>5, <3>3
    <3> QED
      BY <2>4, <3>2, <3>4
  <2>7. Holds(buf, p % RingLen, i, len)
    BY <1>1, <2>2, <2>3 DEF RingHolds
  <2>8. Holds(Written(buf, z % RingLen, m + 1, n), p % RingLen, i, len)
    BY <1>4, <2>2, <2>6, <2>7, OldPacketHeld
  <2> QED
    BY <1>6, <2>2, <2>3, <2>8
<1> HIDE DEF new
<1>9. ASSUME NEW i \in (r + 1) .. m + 1 PROVE Holds(new, q[i - 1] % RingLen, i, more[i])
  <2>1. i - 1 \in 0 .. m
    BY <1>1
  <2>2. q[i - 1] = pos[i - 1]
    BY <1>1, <2>1
  <2>3. CASE i = m + 1
    <3>1. i - 1 = m
      BY <2>3
    <3> QED
      BY <1>3, <1>4, <1>6, <1>7, <2>2, <2>3, <3>1
  <2>4. CASE i # m + 1
    <3>1. i \in (r + 1) .. m /\ i \in 1 .. m
      BY <1>1, <2>4
    <3> QED
      BY <1>3, <1>8, <2>2, <3>1
  <2> QED
    BY <2>3, <2>4
<1>10. RingHolds(q, more, new, r)
  BY <1>3, <1>9 DEF RingHolds
<1> QED
  BY <1>1, <1>2, <1>4, <1>6, <1>10 DEF new


-----------------------------------------------------------------------------
(* PacketFrames, each once *)

Cells == [id : Nat, part : Nat]
PacketFrames == Seq(Cells)

\* What packet id of the packets ls carries.
Packet(ls, id) == [i \in 1 .. FrameWords(ls[id]) |-> [id |-> id, part |-> i]]

\* A packet is a frame that begins with its first word.
LEMMA PacketFrame ==
    ASSUME NEW ls \in Seq(Lengths), NEW id \in 1 .. Len(ls)
    PROVE  Packet(ls, id) \in PacketFrames /\ Packet(ls, id)[1].id = id
<1>1. ls[id] \in Lengths
  OBVIOUS
<1>2. PICK n \in Nat \ {0} : n = FrameWords(ls[id])
  BY <1>1, PacketSizes
<1>3. Packet(ls, id) = [i \in 1 .. n |-> [id |-> id, part |-> i]]
  BY <1>2 DEF Packet
<1>4. \A i \in 1 .. n : [id |-> id, part |-> i] \in Cells
  BY DEF Cells
<1>5. Packet(ls, id) \in PacketFrames
  BY <1>3, <1>4 DEF PacketFrames
<1>6. 1 \in 1 .. n
  OBVIOUS
<1>7. Packet(ls, id)[1] = [id |-> id, part |-> 1]
  BY <1>3, <1>6
<1> QED
  BY <1>5, <1>7

\* No two packets are the same frame.
LEMMA PacketsDiffer ==
    ASSUME NEW ls \in Seq(Lengths), NEW i \in 1 .. Len(ls), NEW k \in 1 .. Len(ls),
           Packet(ls, i) = Packet(ls, k)
    PROVE  i = k
<1>1. Packet(ls, i)[1].id = i /\ Packet(ls, k)[1].id = k
  BY PacketFrame
<1> QED
  BY <1>1

\* The frames out are the first packets of ls, each once, in some order.
Once(out, ls) ==
    /\ out \in Seq(PacketFrames) /\ Len(out) <= Len(ls)
    /\ \A k \in 1 .. Len(out) : \E id \in 1 .. Len(out) : out[k] = Packet(ls, id)
    /\ \A id \in 1 .. Len(out) :
          \E k \in 1 .. Len(out) :
             /\ out[k] = Packet(ls, id)
             /\ \A l \in 1 .. Len(out) : out[l] = Packet(ls, id) => l = k

\* The next packet joins them.
LEMMA OnceMore ==
    ASSUME NEW ls \in Seq(Lengths), NEW out, Once(out, ls), Len(out) < Len(ls)
    PROVE  Once(Append(out, Packet(ls, Len(out) + 1)), ls)
<1>1. out \in Seq(PacketFrames)
  BY DEF Once
<1>2. PICK m \in Nat : m = Len(out)
  BY <1>1
<1>3. PICK h \in Nat : h = Len(ls) /\ m < h
  BY <1>2
<1>4. PICK x \in PacketFrames : x = Packet(ls, m + 1)
  <2>1. m + 1 \in 1 .. Len(ls)
    BY <1>3
  <2> QED
    BY <2>1, PacketFrame
<1>5. PICK new \in Seq(PacketFrames) : new = Append(out, x)
  <2>1. Append(out, x) \in Seq(PacketFrames)
    BY <1>1, AppendProperties
  <2> QED
    BY <2>1, Zenon
<1>6. Len(new) = m + 1 /\ new[m + 1] = x /\ \A k \in 1 .. m : new[k] = out[k]
  BY <1>1, <1>2, <1>5
<1>7. \A k \in 1 .. m : \E id \in 1 .. m : out[k] = Packet(ls, id)
  BY <1>2 DEF Once
<1>8. \A i, k \in 1 .. m + 1 : Packet(ls, i) = Packet(ls, k) => i = k
  <2>1. ASSUME NEW i \in 1 .. m + 1, NEW k \in 1 .. m + 1, Packet(ls, i) = Packet(ls, k)
        PROVE  i = k
    <3>1. i \in 1 .. Len(ls) /\ k \in 1 .. Len(ls)
      BY <1>3
    <3> QED
      BY <2>1, <3>1, PacketsDiffer
  <2> QED
    BY <2>1
<1>9. ASSUME NEW k \in 1 .. m + 1 PROVE \E id \in 1 .. m + 1 : new[k] = Packet(ls, id)
  <2>1. CASE k = m + 1
    BY <1>4, <1>6, <2>1
  <2>2. CASE k # m + 1
    <3>1. k \in 1 .. m
      BY <2>2
    <3>2. PICK id \in 1 .. m : out[k] = Packet(ls, id)
      BY <1>7, <3>1
    <3>3. id \in 1 .. m + 1
      OBVIOUS
    <3> QED
      BY <1>6, <3>1, <3>2, <3>3
  <2> QED
    BY <2>1, <2>2
<1>10. ASSUME NEW id \in 1 .. m + 1
       PROVE  \E k \in 1 .. m + 1 :
                 /\ new[k] = Packet(ls, id)
                 /\ \A l \in 1 .. m + 1 : new[l] = Packet(ls, id) => l = k
  <2>1. CASE id = m + 1
    <3>1. ASSUME NEW l \in 1 .. m + 1, new[l] = Packet(ls, id) PROVE l = m + 1
      <4>1. CASE l # m + 1
        <5>1. l \in 1 .. m
          BY <4>1
        <5>2. PICK i \in 1 .. m : out[l] = Packet(ls, i)
          BY <1>7, <5>1
        <5>3. Packet(ls, i) = Packet(ls, m + 1) /\ i \in 1 .. m + 1 /\ m + 1 \in 1 .. m + 1
          BY <1>6, <2>1, <3>1, <5>1, <5>2
        <5>4. i = m + 1
          BY <1>8, <5>3
        <5> QED
          BY <5>4
      <4> QED
        BY <4>1
    <3>2. m + 1 \in 1 .. m + 1 /\ new[m + 1] = Packet(ls, id)
      BY <1>4, <1>6, <2>1
    <3> QED
      BY <3>1, <3>2
  <2>2. CASE id # m + 1
    <3>1. id \in 1 .. m
      BY <2>2
    <3>2. PICK k \in 1 .. m : /\ out[k] = Packet(ls, id)
                              /\ \A l \in 1 .. m : out[l] = Packet(ls, id) => l = k
      BY <1>2, <3>1 DEF Once
    <3>3. ASSUME NEW l \in 1 .. m + 1, new[l] = Packet(ls, id) PROVE l = k
      <4>1. CASE l = m + 1
        <5>1. Packet(ls, m + 1) = Packet(ls, id) /\ m + 1 \in 1 .. m + 1
          BY <1>4, <1>6, <3>3, <4>1
        <5> QED
          BY <1>8, <2>2, <5>1
      <4>2. CASE l # m + 1
        <5>1. l \in 1 .. m
          BY <4>2
        <5> QED
          BY <1>6, <3>2, <3>3, <5>1
      <4> QED
        BY <4>1, <4>2
    <3>4. k \in 1 .. m + 1 /\ new[k] = Packet(ls, id)
      BY <1>6, <3>2
    <3> QED
      BY <3>3, <3>4
  <2> QED
    BY <2>1, <2>2
<1>11. m + 1 <= Len(ls)
  BY <1>3
<1>12. Once(new, ls)
  BY <1>6, <1>9, <1>10, <1>11 DEF Once
<1> QED
  BY <1>2, <1>4, <1>5, <1>12

\* Whichever of the last two comes first.
LEMMA OnceSwapped ==
    ASSUME NEW ls, NEW s \in Seq(PacketFrames), NEW x \in PacketFrames, NEW y \in PacketFrames,
           Once(Append(Append(s, x), y), ls)
    PROVE  Once(Append(Append(s, y), x), ls)
<1>1. PICK m \in Nat : m = Len(s)
  OBVIOUS
<1>2. PICK old : old = Append(Append(s, x), y)
  OBVIOUS
<1>3. PICK new : new = Append(Append(s, y), x)
  OBVIOUS
<1>4. /\ new \in Seq(PacketFrames) /\ Len(new) = m + 2 /\ Len(old) = m + 2
      /\ new[m + 1] = y /\ new[m + 2] = x /\ old[m + 1] = x /\ old[m + 2] = y
      /\ \A k \in 1 .. m : new[k] = old[k]
  <2>1. Append(s, x) \in Seq(PacketFrames) /\ Append(s, y) \in Seq(PacketFrames)
    BY AppendProperties
  <2>2. /\ Len(Append(s, x)) = m + 1 /\ Append(s, x)[m + 1] = x
        /\ \A k \in 1 .. m : Append(s, x)[k] = s[k]
        /\ Len(Append(s, y)) = m + 1 /\ Append(s, y)[m + 1] = y
        /\ \A k \in 1 .. m : Append(s, y)[k] = s[k]
    BY <1>1
  <2>3. new \in Seq(PacketFrames)
    BY <1>3, <2>1, AppendProperties
  <2> QED
    BY <1>2, <1>3, <2>1, <2>2, <2>3
<1> DEFINE turned(k) == IF k = m + 1 THEN m + 2 ELSE IF k = m + 2 THEN m + 1 ELSE k
<1>5. ASSUME NEW k \in 1 .. m + 2
      PROVE  turned(k) \in 1 .. m + 2 /\ turned(turned(k)) = k /\ new[k] = old[turned(k)]
             /\ old[k] = new[turned(k)]
  <2>1. CASE k = m + 1 \/ k = m + 2
    BY <1>4, <2>1
  <2>2. CASE k # m + 1 /\ k # m + 2
    <3>1. k \in 1 .. m
      BY <2>2
    <3> QED
      BY <1>4, <2>2, <3>1
  <2> QED
    BY <2>1, <2>2
<1> HIDE DEF turned
<1>6. /\ m + 2 <= Len(ls)
      /\ \A k \in 1 .. m + 2 : \E id \in 1 .. m + 2 : old[k] = Packet(ls, id)
      /\ \A id \in 1 .. m + 2 :
            \E k \in 1 .. m + 2 :
               /\ old[k] = Packet(ls, id)
               /\ \A l \in 1 .. m + 2 : old[l] = Packet(ls, id) => l = k
  <2>1. Once(old, ls) /\ Len(old) = m + 2
    BY <1>2, <1>4
  <2> QED
    BY <2>1 DEF Once
<1>7. ASSUME NEW k \in 1 .. m + 2 PROVE \E id \in 1 .. m + 2 : new[k] = Packet(ls, id)
  <2>1. turned(k) \in 1 .. m + 2 /\ new[k] = old[turned(k)]
    BY <1>5
  <2>2. PICK id \in 1 .. m + 2 : old[turned(k)] = Packet(ls, id)
    BY <1>6, <2>1
  <2> QED
    BY <2>1, <2>2
<1>8. ASSUME NEW id \in 1 .. m + 2
      PROVE  \E k \in 1 .. m + 2 :
                /\ new[k] = Packet(ls, id)
                /\ \A l \in 1 .. m + 2 : new[l] = Packet(ls, id) => l = k
  <2>1. PICK k \in 1 .. m + 2 :
               /\ old[k] = Packet(ls, id)
               /\ \A l \in 1 .. m + 2 : old[l] = Packet(ls, id) => l = k
    BY <1>6
  <2>2. turned(k) \in 1 .. m + 2 /\ new[turned(k)] = Packet(ls, id)
    BY <1>5, <2>1
  <2>3. ASSUME NEW l \in 1 .. m + 2, new[l] = Packet(ls, id) PROVE l = turned(k)
    <3>1. old[turned(l)] = Packet(ls, id) /\ turned(l) \in 1 .. m + 2
      BY <1>5, <2>3
    <3>2. turned(l) = k
      BY <2>1, <3>1
    <3> QED
      BY <1>5, <3>2
  <2> QED
    BY <2>2, <2>3
<1>9. Once(new, ls)
  BY <1>4, <1>6, <1>7, <1>8 DEF Once
<1> QED
  BY <1>3, <1>9

\* A packet more does not change the ones before it.
LEMMA SamePacket ==
    ASSUME NEW ls \in Seq(Lengths), NEW n \in Lengths, NEW id \in 1 .. Len(ls)
    PROVE  Append(ls, n)[id] = ls[id] /\ Packet(Append(ls, n), id) = Packet(ls, id)
<1>1. Append(ls, n)[id] = ls[id]
  OBVIOUS
<1> QED
  BY <1>1 DEF Packet

\* Nor the frames that are out.
LEMMA OnceLater ==
    ASSUME NEW ls \in Seq(Lengths), NEW n \in Lengths, NEW out, Once(out, ls)
    PROVE  Once(out, Append(ls, n))
<1>1. PICK m \in Nat : m = Len(out)
  BY DEF Once
<1>2. /\ out \in Seq(PacketFrames) /\ m <= Len(ls)
      /\ \A k \in 1 .. m : \E id \in 1 .. m : out[k] = Packet(ls, id)
      /\ \A id \in 1 .. m :
            \E k \in 1 .. m : /\ out[k] = Packet(ls, id)
                              /\ \A l \in 1 .. m : out[l] = Packet(ls, id) => l = k
  BY <1>1 DEF Once
<1>3. PICK more : more = Append(ls, n)
  OBVIOUS
<1>4. Len(more) = Len(ls) + 1
  BY <1>3
<1>5. m <= Len(more)
  BY <1>2, <1>4
<1>6. ASSUME NEW id \in 1 .. m PROVE Packet(more, id) = Packet(ls, id)
  <2>1. id \in 1 .. Len(ls)
    BY <1>2
  <2> QED
    BY <1>3, <2>1, SamePacket
<1>7. ASSUME NEW k \in 1 .. m PROVE \E id \in 1 .. m : out[k] = Packet(more, id)
  <2>1. PICK id \in 1 .. m : out[k] = Packet(ls, id)
    BY <1>2
  <2> QED
    BY <1>6, <2>1
<1>8. ASSUME NEW id \in 1 .. m
      PROVE  \E k \in 1 .. m : /\ out[k] = Packet(more, id)
                               /\ \A l \in 1 .. m : out[l] = Packet(more, id) => l = k
  <2>1. PICK k \in 1 .. m : /\ out[k] = Packet(ls, id)
                            /\ \A l \in 1 .. m : out[l] = Packet(ls, id) => l = k
    BY <1>2
  <2> QED
    BY <1>6, <2>1
<1>9. Once(out, more)
  BY <1>1, <1>2, <1>5, <1>7, <1>8 DEF Once
<1> QED
  BY <1>3, <1>9


-----------------------------------------------------------------------------
(* The driver *)

Places == {"out", "ping", "header", "copy", "advance", "store", "capr", "handle", "again",
           "slot", "next", "pass", "own", "fill", "start"}
PerContext(f) == f = [c \in Contexts |-> f[c]]

\* Packets taken from the ring, as CAPR has it and as rx_offset has it.
Hands(c) == IF pc[c] = "handle" THEN 1 ELSE 0
Taken == Len(handled) + Hands("main") + Hands("irq")
Offset == IF pc["main"] = "capr" \/ pc["irq"] = "capr" THEN Taken + 1 ELSE Taken

\* The card and the driver agree on the ring.
CardState(pos, r, t) ==
    /\ Positions(pos, arrived) /\ r \in 0 .. Len(arrived) /\ t \in 0 .. Len(arrived)
    /\ cbr = pos[Len(arrived)] % RingLen
    /\ capr \in Int /\ ReadPointer = pos[r] % RingLen
    /\ rx_offset = pos[t] % RingLen
    /\ pos[Len(arrived)] - pos[r] < RingLen
    /\ RingHolds(pos, arrived, rx_buffer, r)

\* A ping's receive is on its own as long as the main loop has not moved rx_offset
\* ahead of CAPR.
Alone(c) == c = "irq" => pc["main"] # "capr"

\* The receive of context c is about the packet after the first r.
Reads(c, pos, r) ==
    /\ pc[c] \in Receiving => r + 1 \in 1 .. Len(arrived)
    /\ Alone(c) =>
          /\ pc[c] \in {"copy", "advance"} => packet_length[c] = arrived[r + 1]
          /\ pc[c] \in {"advance", "store"} => frame[c] = Packet(arrived, r + 1)
          /\ pc[c] = "store" => next_offset[c] = pos[r + 1] % RingLen
    /\ pc[c] = "capr" => frame[c] = Packet(arrived, r + 1)

Locals ==
    /\ pc \in [Contexts -> Places]
    /\ PerContext(packet_length) /\ PerContext(next_offset) /\ PerContext(frame)

\* The frames that are out of the ring, but for the one in a ping's hands.
Out == IF pc["main"] = "handle" THEN Append(handled, frame["main"]) ELSE handled

Delivered(r) ==
    /\ handled \in Seq(PacketFrames)
    /\ pc["main"] = "handle" => frame["main"] \in PacketFrames
    /\ pc["irq"] = "handle" => r \in 1 .. Len(arrived) /\ frame["irq"] = Packet(arrived, r)
    /\ Once(Out, arrived)

\* A ping that moved rx_offset did not do so under a receive.
Apart == pc["irq"] \in {"capr", "handle"} => pc["main"] \notin Receiving

Good(pos, r, t) ==
    /\ arrived \in Seq(Lengths) /\ Locals
    /\ r = Taken /\ t = Offset
    /\ CardState(pos, r, t)
    /\ Reads("main", pos, r) /\ Reads("irq", pos, r)
    /\ Apart /\ Delivered(r)

RingInv ==
    /\ overlapped \in BOOLEAN
    /\ ~overlapped => \E pos, r, t : Good(pos, r, t)

\* Updating one context's value.
LEMMA Updated ==
    ASSUME NEW f, PerContext(f), NEW c \in Contexts, NEW v
    PROVE  /\ PerContext([f EXCEPT ![c] = v])
           /\ [f EXCEPT ![c] = v][c] = v
           /\ \A d \in Contexts : d # c => [f EXCEPT ![c] = v][d] = f[d]
<1>1. DOMAIN f = Contexts
  BY DEF PerContext
<1>2. [f EXCEPT ![c] = v] = [x \in Contexts |-> IF x = c THEN v ELSE f[x]]
  BY <1>1
<1> QED
  BY <1>2 DEF PerContext

\* The card's side is as it was.
LEMMA CardIdle ==
    ASSUME NEW pos, NEW r, NEW t, CardState(pos, r, t),
           UNCHANGED <<rx_buffer, rx_offset, cbr, capr, arrived>>
    PROVE  CardState(pos, r, t)'
BY DEF CardState, ReadPointer

\* The context that does not move.
Still(d) ==
    /\ pc'[d] = pc[d] /\ packet_length'[d] = packet_length[d]
    /\ next_offset'[d] = next_offset[d] /\ frame'[d] = frame[d]

\* The other context's receive is still about the same packet.
LEMMA OtherStill ==
    ASSUME NEW c \in Contexts, NEW d \in Contexts, d # c, c = "irq" \/ pc["irq"] = "out",
           NEW pos, NEW r, Reads(d, pos, r), Still(d), arrived' = arrived
    PROVE  Reads(d, pos, r)'
<1>1. CASE c = "irq"
  <2>1. d = "main"
    BY <1>1 DEF Contexts
  <2> QED
    BY <2>1 DEF Reads, Alone, Still
<1>2. CASE c = "main"
  <2>1. d = "irq" /\ pc["irq"] = "out" /\ pc'["irq"] = "out"
    BY <1>2 DEF Contexts, Still
  <2> QED
    BY <2>1 DEF Reads, Receiving
<1> QED
  BY <1>1, <1>2 DEF Contexts

\* A step of a receive that moves neither the ring nor a frame out of it.
LEMMA LocalStep ==
    ASSUME NEW pos, NEW r, NEW t, Good(pos, r, t), NEW c \in Contexts,
           c = "irq" \/ pc["irq"] = "out",
           NEW p \in Places \ {"capr", "handle"}, pc[c] \notin {"capr", "handle"},
           pc' = [pc EXCEPT ![c] = p], Locals',
           \A d \in Contexts : d # c => Still(d),
           UNCHANGED <<rx_buffer, rx_offset, cbr, capr, arrived, handled>>,
           Reads(c, pos, r)'
    PROVE  Good(pos, r, t)'
<1>0. Contexts = {"main", "irq"} /\ pc \in [Contexts -> Places]
  BY DEF Contexts, Good, Locals
<1>1. pc'[c] = p /\ \A d \in Contexts : d # c => pc'[d] = pc[d]
  BY <1>0
<1>2. \A d \in Contexts : (pc'[d] = "handle" <=> pc[d] = "handle")
                          /\ (pc'[d] = "capr" <=> pc[d] = "capr")
  BY <1>1
<1>3. Taken' = Taken /\ Offset' = Offset
  <2>1. \A d \in Contexts : Hands(d)' = Hands(d)
    BY <1>2 DEF Hands
  <2>2. Taken' = Taken
    BY <1>0, <2>1 DEF Taken
  <2> QED
    BY <1>0, <1>2, <2>2 DEF Offset
<1>4. CardState(pos, r, t)'
  BY CardIdle DEF Good
<1>5. \A d \in Contexts : d # c => Reads(d, pos, r)'
  <2>1. \A d \in Contexts : Reads(d, pos, r)
    BY <1>0 DEF Good
  <2> QED
    BY <2>1, OtherStill
<1>6. Reads("main", pos, r)' /\ Reads("irq", pos, r)'
  BY <1>0, <1>5
<1>7. Apart'
  <2>1. CASE c = "irq"
    BY <1>0, <1>1, <2>1 DEF Apart
  <2>2. CASE c = "main"
    BY <1>0, <1>1, <2>2 DEF Apart
  <2> QED
    BY <1>0, <2>1, <2>2
<1>8. \A d \in Contexts : pc'[d] = "handle" => frame'[d] = frame[d]
  BY <1>1 DEF Still
<1>9. Delivered(r)'
  <2>1. Out' = Out
    BY <1>0, <1>2, <1>8 DEF Out
  <2> QED
    BY <1>0, <1>2, <1>8, <2>1 DEF Delivered, Good
<1> QED
  BY <1>3, <1>4, <1>6, <1>7, <1>9 DEF Good


\* What a step of context c may count on.
LEMMA Moving ==
    ASSUME NEW pos, NEW r, NEW t, Good(pos, r, t), NEW c \in Contexts, NEW p, Runs(c, p)
    PROVE  /\ c = "irq" \/ pc["irq"] = "out"
           /\ pc[c] = p /\ ~overlapped
           /\ Reads(c, pos, r) /\ arrived \in Seq(Lengths)
           /\ PerContext(pc) /\ PerContext(packet_length) /\ PerContext(next_offset)
           /\ PerContext(frame) /\ pc \in [Contexts -> Places]
BY DEF Good, Runs, Contexts, Locals, PerContext

\* Where the context moved to, and that the other one did not.
LEMMA Moved1 ==
    ASSUME NEW c \in Contexts, NEW p \in Places, pc \in [Contexts -> Places],
           pc' = [pc EXCEPT ![c] = p]
    PROVE  /\ pc' \in [Contexts -> Places] /\ pc'[c] = p
           /\ \A d \in Contexts : d # c => pc'[d] = pc[d]
           /\ Alone(c)' <=> Alone(c)
<1>1. pc' \in [Contexts -> Places] /\ pc'[c] = p /\ \A d \in Contexts : d # c => pc'[d] = pc[d]
  OBVIOUS
<1>2. "main" \in Contexts
  BY DEF Contexts
<1> QED
  BY <1>1, <1>2 DEF Alone

\* BUFE is clear only when there is a packet.
LEMMA PacketWaits ==
    ASSUME NEW pos, NEW r, NEW t, Good(pos, r, t), ~BufferEmpty
    PROVE  r + 1 \in 1 .. Len(arrived)
<1>1. Len(arrived) \in Nat /\ r \in 0 .. Len(arrived)
  BY DEF Good, CardState
<1>2. r # Len(arrived)
  BY DEF Good, CardState, BufferEmpty
<1> QED
  BY <1>1, <1>2

\* net_poll() begins.
LEMMA PollBeginsKeeps ==
    ASSUME NEW pos, NEW r, NEW t, Good(pos, r, t), NEW c \in Contexts, PollBegins(c)
    PROVE  Good(pos, r, t)'
<1>1. Runs(c, IF c = "irq" THEN "ping" ELSE "out") /\ ~BufferEmpty
      /\ pc' = [pc EXCEPT ![c] = "header"]
      /\ UNCHANGED <<rx_buffer, rx_offset, cbr, capr, arrived, packet_length, next_offset,
                     frame, handled>>
  BY DEF PollBegins, Goto
<1>2. /\ c = "irq" \/ pc["irq"] = "out"
      /\ pc[c] \notin {"capr", "handle"} /\ pc \in [Contexts -> Places]
  BY <1>1, Moving
<1>3. "header" \in Places \ {"capr", "handle"}
  BY DEF Places
<1>4. pc' \in [Contexts -> Places] /\ pc'[c] = "header"
      /\ \A d \in Contexts : d # c => pc'[d] = pc[d]
  BY <1>1, <1>2, <1>3, Moved1
<1>5. Locals' /\ \A d \in Contexts : d # c => Still(d)
  BY <1>1, <1>4 DEF Locals, Still, PerContext, Good
<1>6. Reads(c, pos, r)'
  BY <1>1, <1>4, PacketWaits DEF Reads
<1> QED
  BY <1>1, <1>2, <1>3, <1>5, <1>6, LocalStep

\* net_poll() goes on or returns.
LEMMA PollAgainKeeps ==
    ASSUME NEW pos, NEW r, NEW t, Good(pos, r, t), NEW c \in Contexts, PollAgain(c)
    PROVE  Good(pos, r, t)'
<1>1. Runs(c, "again")
      /\ UNCHANGED <<rx_buffer, rx_offset, cbr, capr, arrived, packet_length, next_offset,
                     frame, handled>>
  BY DEF PollAgain
<1>2. PICK p : /\ pc' = [pc EXCEPT ![c] = p] /\ p \in Places \ {"capr", "handle"}
               /\ p \in Receiving => ~BufferEmpty /\ p = "header"
  <2>1. CASE polled[c] < PerCall /\ ~BufferEmpty
    BY <2>1 DEF PollAgain, Goto, Places
  <2>2. CASE ~(polled[c] < PerCall /\ ~BufferEmpty)
    BY <2>2 DEF PollAgain, Goto, Return, Places, Receiving
  <2> QED
    BY <2>1, <2>2
<1>3. /\ c = "irq" \/ pc["irq"] = "out"
      /\ pc[c] \notin {"capr", "handle"} /\ pc \in [Contexts -> Places]
  BY <1>1, Moving
<1>4. pc' \in [Contexts -> Places] /\ pc'[c] = p /\ \A d \in Contexts : d # c => pc'[d] = pc[d]
  BY <1>2, <1>3, Moved1
<1>5. Locals' /\ \A d \in Contexts : d # c => Still(d)
  BY <1>1, <1>4 DEF Locals, Still, PerContext, Good
<1>6. Reads(c, pos, r)'
  <2>1. p \in {"copy", "advance", "store", "capr"} => p \in Receiving
    BY DEF Receiving
  <2> QED
    BY <1>1, <1>2, <1>4, <2>1, PacketWaits DEF Reads
<1> QED
  BY <1>1, <1>2, <1>3, <1>5, <1>6, LocalStep

\* The word at rx_offset is the header of the next packet.
LEMMA HeaderIs ==
    ASSUME NEW pos, NEW r, NEW t, Good(pos, r, t), t = r, r + 1 \in 1 .. Len(arrived)
    PROVE  /\ rx_buffer[rx_offset \div 4] = [id |-> r + 1, part |-> 0]
           /\ HeaderReads(rx_buffer[rx_offset \div 4]) = {arrived[r + 1]}
           /\ arrived[r + 1] \in Lengths /\ arrived[r + 1] # Bad
<1>1. arrived \in Seq(Lengths) /\ Len(arrived) \in Nat /\ r \in Nat
  BY DEF Good, CardState
<1>2. PICK n \in Lengths : n = arrived[r + 1]
  BY <1>1
<1>3. PICK o \in Nat : Occupies(n) \div 4 = o /\ o > 0 /\ n > 4 /\ n \in Nat
  BY PacketSizes
<1>4. (r + 1) - 1 = r /\ r + 1 \in (r + 1) .. Len(arrived)
  BY <1>1
<1>5. Holds(rx_buffer, pos[r] % RingLen, r + 1, n)
  BY <1>2, <1>4 DEF Good, CardState, RingHolds
<1>6. rx_offset = pos[r] % RingLen
  BY DEF Good, CardState
<1>7. 0 \in 0 .. o - 1
  BY <1>3
<1>8. rx_buffer[(rx_offset \div 4) + 0] = [id |-> r + 1, part |-> 0]
  BY <1>3, <1>5, <1>6, <1>7 DEF Holds
<1>9. rx_offset \div 4 \in Int
  <2>1. pos[r] \in Nat /\ RingLen \in Nat \ {0}
    BY Rtl8139Assumption DEF Good, CardState, Positions
  <2> QED
    BY <1>6, <2>1
<1>10. (rx_offset \div 4) + 0 = rx_offset \div 4
  BY <1>9
<1>11. rx_buffer[rx_offset \div 4] = [id |-> r + 1, part |-> 0]
  BY <1>8, <1>10
<1>12. [id |-> r + 1, part |-> 0] # Zero
  BY <1>1 DEF Zero
<1> QED
  BY <1>2, <1>3, <1>11, <1>12 DEF HeaderReads, Bad

\* The header is read.
LEMMA ReadHeaderKeeps ==
    ASSUME NEW pos, NEW r, NEW t, Good(pos, r, t), NEW c \in Contexts, ReadHeader(c)
    PROVE  Good(pos, r, t)'
<1>1. Runs(c, "header")
      /\ UNCHANGED <<rx_buffer, rx_offset, cbr, capr, arrived, next_offset, frame, handled>>
  BY DEF ReadHeader
<1>2. /\ c = "irq" \/ pc["irq"] = "out"
      /\ pc[c] = "header" /\ pc \in [Contexts -> Places] /\ Reads(c, pos, r)
      /\ PerContext(packet_length)
  BY <1>1, Moving
<1>3. r + 1 \in 1 .. Len(arrived)
  BY <1>2 DEF Reads, Receiving
<1>4. ASSUME Alone(c)
      PROVE  /\ HeaderReads(rx_buffer[rx_offset \div 4]) = {arrived[r + 1]}
             /\ arrived[r + 1] # Bad
  <2>1. t = r
    BY <1>2, <1>4 DEF Good, Offset, Alone, Contexts
  <2> QED
    BY <1>3, <2>1, HeaderIs
<1>5. PICK n \in HeaderReads(rx_buffer[rx_offset \div 4]) :
         IF n = Bad \/ n > MaxLength THEN Return(c) /\ UNCHANGED packet_length
         ELSE packet_length' = [packet_length EXCEPT ![c] = n] /\ Goto(c, "copy")
  BY DEF ReadHeader
<1>6. PICK p : /\ pc' = [pc EXCEPT ![c] = p] /\ p \in Places \ {"capr", "handle"}
               /\ IF n = Bad \/ n > MaxLength THEN p \in {"ping", "out"} ELSE p = "copy"
  BY <1>5 DEF Return, Goto, Places
<1>7. pc' \in [Contexts -> Places] /\ pc'[c] = p /\ (Alone(c)' <=> Alone(c))
      /\ \A d \in Contexts : d # c => pc'[d] = pc[d]
  BY <1>2, <1>6, Moved1
<1>8. /\ PerContext(packet_length)'
      /\ \A d \in Contexts : d # c => packet_length'[d] = packet_length[d]
      /\ ~(n = Bad \/ n > MaxLength) => packet_length'[c] = n
  <2>1. CASE n = Bad \/ n > MaxLength
    BY <1>2, <1>5, <2>1 DEF PerContext
  <2>2. CASE ~(n = Bad \/ n > MaxLength)
    BY <1>2, <1>5, <2>2, Updated DEF PerContext
  <2> QED
    BY <2>1, <2>2
<1>9. Locals' /\ \A d \in Contexts : d # c => Still(d)
  BY <1>1, <1>7, <1>8 DEF Locals, Still, PerContext, Good
<1>10. Reads(c, pos, r)'
  <2>1. CASE n = Bad \/ n > MaxLength
    BY <1>6, <1>7, <2>1 DEF Reads, Receiving
  <2>2. CASE ~(n = Bad \/ n > MaxLength)
    BY <1>1, <1>3, <1>4, <1>6, <1>7, <1>8, <2>2 DEF Reads
  <2> QED
    BY <2>1, <2>2
<1> QED
  BY <1>1, <1>2, <1>6, <1>9, <1>10, LocalStep


\* The copy loop copies the next packet, word by word.
LEMMA CopyIs ==
    ASSUME NEW pos, NEW r, NEW t, Good(pos, r, t), t = r, r + 1 \in 1 .. Len(arrived)
    PROVE  [i \in 1 .. FrameWords(arrived[r + 1]) |->
                rx_buffer[(rx_offset \div 4 + i) % Cardinality(Words)]] = Packet(arrived, r + 1)
<1>1. arrived \in Seq(Lengths) /\ Len(arrived) \in Nat /\ r \in Nat
  BY DEF Good, CardState
<1>2. PICK n \in Lengths : n = arrived[r + 1]
  BY <1>1
<1>3. PICK o \in Nat : /\ Occupies(n) \div 4 = o /\ Occupies(n) = 4 * o
                       /\ Occupies(n) <= Padding + 4
                       /\ FrameWords(n) \in Nat /\ FrameWords(n) < o
  BY PacketSizes
<1>4. (r + 1) - 1 = r /\ r + 1 \in (r + 1) .. Len(arrived)
  BY <1>1
<1>5. Holds(rx_buffer, pos[r] % RingLen, r + 1, n)
  BY <1>2, <1>4 DEF Good, CardState, RingHolds
<1>6. /\ RingLen \in Nat \ {0} /\ Padding \in Nat /\ RingLen % 4 = 0 /\ Padding % 4 = 0
      /\ pos[r] \in Nat /\ pos[r] % 4 = 0 /\ rx_offset = pos[r] % RingLen
  BY Rtl8139Assumption DEF Good, CardState, Positions
<1>7. PICK a \in 0 .. RingLen - 4 : a = rx_offset /\ a % 4 = 0
  BY <1>6, WordPlace
<1>8. PICK f \in Nat : f = a \div 4 /\ a = 4 * f
  <2>1. a \in Nat /\ a % 4 = 0
    <3>1. RingLen \in Nat
      BY <1>6
    <3> QED
      BY <1>7, <3>1
  <2> QED
    BY <2>1
<1>9. PICK g \in Nat \ {0} : g = (RingLen + Padding) \div 4 /\ f + o <= g
  BY <1>3, <1>6, <1>8
<1>10. Cardinality(Words) = g
  <2>1. Words = 0 .. (g - 1)
    BY <1>9 DEF Words
  <2>2. 0 \in Int /\ g - 1 \in Int
    OBVIOUS
  <2>3. Cardinality(0 .. (g - 1)) = IF 0 > g - 1 THEN 0 ELSE (g - 1) - 0 + 1
    BY <2>2, FS_Interval
  <2> QED
    BY <2>1, <2>3
<1>11. ASSUME NEW i \in 1 .. FrameWords(n)
       PROVE  rx_buffer[(f + i) % g] = [id |-> r + 1, part |-> i]
  <2>1. f + i \in 0 .. g - 1 /\ i \in 0 .. o - 1
    BY <1>3, <1>9
  <2>2. (f + i) % g = f + i
    <3>1. PICK k \in 0 .. g - 1 : k = f + i
      BY <2>1
    <3>2. k \in Int /\ k = g * 0 + k /\ 0 \in Int
      OBVIOUS
    <3>3. k % g = k
      BY <3>2, Remainder
    <3> QED
      BY <3>1, <3>3
  <2>3. rx_buffer[f + i] = [id |-> r + 1, part |-> i]
    BY <1>3, <1>5, <1>6, <1>7, <1>8, <2>1 DEF Holds
  <2> QED
    BY <2>2, <2>3
<1> QED
  BY <1>2, <1>7, <1>8, <1>10, <1>11 DEF Packet

\* The frame is copied.
LEMMA CopyFrameKeeps ==
    ASSUME NEW pos, NEW r, NEW t, Good(pos, r, t), NEW c \in Contexts, CopyFrame(c)
    PROVE  Good(pos, r, t)'
<1>1. Runs(c, "copy") /\ pc' = [pc EXCEPT ![c] = "advance"]
      /\ UNCHANGED <<rx_buffer, rx_offset, cbr, capr, arrived, packet_length, next_offset, handled>>
  BY DEF CopyFrame, Goto
<1>2. /\ c = "irq" \/ pc["irq"] = "out"
      /\ pc[c] = "copy" /\ pc \in [Contexts -> Places] /\ Reads(c, pos, r)
      /\ PerContext(frame)
  BY <1>1, Moving
<1>3. r + 1 \in 1 .. Len(arrived)
  BY <1>2 DEF Reads, Receiving
<1>4. PICK x : /\ x = [i \in 1 .. FrameWords(packet_length[c]) |->
                          rx_buffer[(rx_offset \div 4 + i) % Cardinality(Words)]]
               /\ frame' = [frame EXCEPT ![c] = x]
  BY DEF CopyFrame
<1>5. ASSUME Alone(c) PROVE x = Packet(arrived, r + 1) /\ packet_length[c] = arrived[r + 1]
  <2>1. t = r
    BY <1>2, <1>5 DEF Good, Offset, Alone, Contexts
  <2>2. packet_length[c] = arrived[r + 1]
    BY <1>2, <1>5 DEF Reads
  <2>3. [i \in 1 .. FrameWords(arrived[r + 1]) |->
            rx_buffer[(rx_offset \div 4 + i) % Cardinality(Words)]] = Packet(arrived, r + 1)
    BY <1>3, <2>1, CopyIs
  <2> QED
    BY <1>4, <2>2, <2>3
<1>6. "advance" \in Places \ {"capr", "handle"}
  BY DEF Places
<1>7. pc' \in [Contexts -> Places] /\ pc'[c] = "advance" /\ (Alone(c)' <=> Alone(c))
      /\ \A d \in Contexts : d # c => pc'[d] = pc[d]
  BY <1>1, <1>2, <1>6, Moved1
<1>8. /\ PerContext(frame)' /\ frame'[c] = x
      /\ \A d \in Contexts : d # c => frame'[d] = frame[d]
  BY <1>2, <1>4, Updated DEF PerContext
<1>9. Locals' /\ \A d \in Contexts : d # c => Still(d)
  BY <1>1, <1>7, <1>8 DEF Locals, Still, PerContext, Good
<1>10. Reads(c, pos, r)'
  BY <1>1, <1>3, <1>5, <1>7, <1>8 DEF Reads
<1> QED
  BY <1>1, <1>2, <1>6, <1>9, <1>10, LocalStep

\* The next offset is where the next packet begins.
LEMMA NextIs ==
    ASSUME NEW pos, NEW r, NEW t, Good(pos, r, t), t = r, r + 1 \in 1 .. Len(arrived)
    PROVE  Align(rx_offset + 4 + arrived[r + 1]) % RingLen = pos[r + 1] % RingLen
<1>1. arrived \in Seq(Lengths) /\ Len(arrived) \in Nat /\ r \in Nat
  BY DEF Good, CardState
<1>2. PICK n \in Lengths : n = arrived[r + 1]
  BY <1>1
<1>3. n \in Nat /\ Occupies(n) \in Nat
  BY PacketSizes
<1>4. /\ RingLen \in Nat \ {0} /\ RingLen % 4 = 0
      /\ pos[r] \in Nat /\ pos[r] % 4 = 0 /\ rx_offset = pos[r] % RingLen
  BY Rtl8139Assumption DEF Good, CardState, Positions
<1>5. PICK b \in Nat : b = pos[r] /\ b % 4 = 0
  BY <1>4
<1>6. PICK a \in 0 .. RingLen - 4 : a = b % RingLen /\ a % 4 = 0
  BY <1>4, <1>5, WordPlace
<1>7. Align(a + 4 + n) = a + Occupies(n)
  <2>1. RingLen \in Nat
    BY <1>4
  <2>2. PICK k \in Nat : a = 4 * k
    <3>1. a \in Nat /\ a % 4 = 0
      BY <1>6, <2>1
    <3> QED
      BY <3>1
  <2> QED
    BY <1>3, <2>2 DEF Align, Occupies
<1>8. (r + 1) - 1 = r
  BY <1>1
<1>9. pos[r + 1] = b + Occupies(n)
  BY <1>2, <1>5, <1>8 DEF Good, CardState, Positions
<1>10. b \in Int /\ Occupies(n) \in Int
  BY <1>3
<1>11. ((b % RingLen) + Occupies(n)) % RingLen = (b + Occupies(n)) % RingLen
  BY <1>4, <1>10, GoesOn
<1>12. rx_offset = a
  BY <1>4, <1>5, <1>6
<1> QED
  BY <1>2, <1>6, <1>7, <1>9, <1>11, <1>12, Zenon

\* The next offset is computed.
LEMMA AdvanceKeeps ==
    ASSUME NEW pos, NEW r, NEW t, Good(pos, r, t), NEW c \in Contexts, Advance(c)
    PROVE  Good(pos, r, t)'
<1>1. Runs(c, "advance") /\ pc' = [pc EXCEPT ![c] = "store"]
      /\ packet_length' = [packet_length EXCEPT ![c] = 0]
      /\ UNCHANGED <<rx_buffer, rx_offset, cbr, capr, arrived, frame, handled>>
  BY DEF Advance, Goto
<1>2. /\ c = "irq" \/ pc["irq"] = "out"
      /\ pc[c] = "advance" /\ pc \in [Contexts -> Places] /\ Reads(c, pos, r)
      /\ PerContext(frame) /\ PerContext(packet_length) /\ PerContext(next_offset)
  BY <1>1, Moving
<1>3. r + 1 \in 1 .. Len(arrived)
  BY <1>2 DEF Reads, Receiving
<1>4. PICK x : /\ x = Align(rx_offset + 4 + packet_length[c]) % RingLen
               /\ next_offset' = [next_offset EXCEPT ![c] = x]
  BY DEF Advance
<1>5. ASSUME Alone(c) PROVE x = pos[r + 1] % RingLen /\ frame[c] = Packet(arrived, r + 1)
  <2>1. t = r
    BY <1>2, <1>5 DEF Good, Offset, Alone, Contexts
  <2>2. packet_length[c] = arrived[r + 1] /\ frame[c] = Packet(arrived, r + 1)
    BY <1>2, <1>5 DEF Reads
  <2>3. Align(rx_offset + 4 + arrived[r + 1]) % RingLen = pos[r + 1] % RingLen
    BY <1>3, <2>1, NextIs
  <2> QED
    BY <1>4, <2>2, <2>3, Zenon
<1>6. "store" \in Places \ {"capr", "handle"}
  BY DEF Places
<1>7. pc' \in [Contexts -> Places] /\ pc'[c] = "store" /\ (Alone(c)' <=> Alone(c))
      /\ \A d \in Contexts : d # c => pc'[d] = pc[d]
  BY <1>1, <1>2, <1>6, Moved1
<1>8. /\ PerContext(next_offset)' /\ next_offset'[c] = x
      /\ \A d \in Contexts : d # c => next_offset'[d] = next_offset[d]
  BY <1>2, <1>4, Updated DEF PerContext
<1>9. /\ PerContext(packet_length)'
      /\ \A d \in Contexts : d # c => packet_length'[d] = packet_length[d]
  BY <1>1, <1>2, Updated DEF PerContext
<1>10. Locals' /\ \A d \in Contexts : d # c => Still(d)
  BY <1>1, <1>2, <1>7, <1>8, <1>9 DEF Locals, Still, PerContext
<1>11. Reads(c, pos, r)'
  BY <1>1, <1>3, <1>5, <1>7, <1>8 DEF Reads
<1> QED
  BY <1>1, <1>2, <1>6, <1>10, <1>11, LocalStep


\* The main loop's rtl8139_send() takes nothing from the ring.
LEMMA MainSendsReceive ==
    ASSUME NEW pos, NEW r, NEW t, Good(pos, r, t), MainSends
    PROVE  Good(pos, r, t)'
<1>1. PICK p \in {"next", "pass", "own", "fill", "start", "again"} : pc' = [pc EXCEPT !["main"] = p]
  BY DEF MainSends, TakeSlot, ReadNext, StoreNext, WaitOwn, FillBuffer, StartSend, SendStep, Goto
<1>2. /\ UNCHANGED <<rx_buffer, rx_offset, cbr, capr, arrived, packet_length, next_offset, frame,
                     handled>>
      /\ pc["irq"] = "out" /\ pc["main"] \notin {"capr", "handle"}
  BY DEF MainSends, TakeSlot, ReadNext, StoreNext, WaitOwn, FillBuffer, StartSend, SendStep, Runs
<1>3. pc \in [Contexts -> Places] /\ "main" \in Contexts /\ p \in Places \ {"capr", "handle"}
  BY DEF Good, Locals, Contexts, Places
<1>4. pc' \in [Contexts -> Places] /\ pc'["main"] = p
      /\ \A d \in Contexts : d # "main" => pc'[d] = pc[d]
  BY <1>1, <1>3, Moved1
<1>5. Locals' /\ \A d \in Contexts : d # "main" => Still(d)
  BY <1>2, <1>4 DEF Locals, Still, PerContext, Good
<1>6. Reads("main", pos, r)'
  BY <1>4 DEF Reads, Receiving
<1> QED
  BY <1>1, <1>2, <1>3, <1>5, <1>6, LocalStep

\* A ping begins or ends.
LEMMA PingKeeps ==
    ASSUME NEW pos, NEW r, NEW t, Good(pos, r, t), PingBegins \/ PingEnds
    PROVE  Good(pos, r, t)'
<1>1. PICK p \in {"ping", "out"} : /\ pc' = [pc EXCEPT !["irq"] = p]
                                   /\ pc["irq"] \in {"out", "ping"}
  BY DEF PingBegins, PingEnds, Goto
<1>2. UNCHANGED <<rx_buffer, rx_offset, cbr, capr, arrived, packet_length, next_offset, frame,
                  handled>>
  BY DEF PingBegins, PingEnds
<1>3. pc \in [Contexts -> Places] /\ "irq" \in Contexts /\ p \in Places \ {"capr", "handle"}
  BY DEF Good, Locals, Contexts, Places
<1>4. pc' \in [Contexts -> Places] /\ pc'["irq"] = p
      /\ \A d \in Contexts : d # "irq" => pc'[d] = pc[d]
  BY <1>1, <1>3, Moved1
<1>5. Locals' /\ \A d \in Contexts : d # "irq" => Still(d)
  BY <1>2, <1>4 DEF Locals, Still, PerContext, Good
<1>6. Reads("irq", pos, r)'
  BY <1>4 DEF Reads, Receiving
<1> QED
  BY <1>1, <1>2, <1>3, <1>5, <1>6, LocalStep

\* rx_offset moves to the packet after the next.
LEMMA StoreOffsetKeeps ==
    ASSUME NEW pos, NEW r, NEW t, Good(pos, r, t), NEW c \in Contexts, StoreOffset(c), ~overlapped'
    PROVE  Good(pos, r, r + 1)'
<1>1. Runs(c, "store") /\ pc' = [pc EXCEPT ![c] = "capr"] /\ rx_offset' = next_offset[c]
      /\ next_offset' = [next_offset EXCEPT ![c] = 0]
      /\ UNCHANGED <<rx_buffer, cbr, capr, arrived, packet_length, frame, handled>>
      /\ ~(c = "irq" /\ pc["main"] \in Receiving)
  BY DEF StoreOffset, Goto
<1>2. /\ c = "irq" \/ pc["irq"] = "out"
      /\ pc[c] = "store" /\ pc \in [Contexts -> Places] /\ Reads(c, pos, r)
      /\ PerContext(frame) /\ PerContext(packet_length) /\ PerContext(next_offset)
  BY <1>1, Moving
<1>3. r + 1 \in 1 .. Len(arrived) /\ r \in Nat
  BY <1>2 DEF Reads, Receiving, Good, CardState
<1>4. Alone(c)
  BY <1>1 DEF Alone, Receiving
<1>5. next_offset[c] = pos[r + 1] % RingLen /\ frame[c] = Packet(arrived, r + 1)
  BY <1>2, <1>4 DEF Reads
<1>6. pc' \in [Contexts -> Places] /\ pc'[c] = "capr"
      /\ \A d \in Contexts : d # c => pc'[d] = pc[d]
  <2>1. "capr" \in Places
    BY DEF Places
  <2> QED
    BY <1>1, <1>2, <2>1, Moved1
<1>7. /\ PerContext(next_offset)'
      /\ \A d \in Contexts : d # c => next_offset'[d] = next_offset[d]
  BY <1>1, <1>2, Updated DEF PerContext
<1>8. Locals' /\ \A d \in Contexts : d # c => Still(d)
  BY <1>1, <1>2, <1>6, <1>7 DEF Locals, Still, PerContext
<1>9. Contexts = {"main", "irq"}
  BY DEF Contexts
<1>10. \A d \in Contexts : pc'[d] = "handle" <=> pc[d] = "handle"
  BY <1>2, <1>6
<1>11. Taken' = Taken /\ Offset' = Taken + 1 /\ r = Taken
  <2>1. \A d \in Contexts : Hands(d)' = Hands(d)
    BY <1>10 DEF Hands
  <2>2. Taken' = Taken
    BY <1>1, <1>9, <2>1 DEF Taken
  <2> QED
    BY <1>6, <1>9, <2>2 DEF Offset, Good
<1>12. CardState(pos, r, r + 1)'
  <2>1. r + 1 \in 0 .. Len(arrived)
    BY <1>3
  <2> QED
    BY <1>1, <1>5, <2>1 DEF Good, CardState, ReadPointer
<1>13. Reads(c, pos, r)'
  BY <1>1, <1>3, <1>5, <1>6 DEF Reads
<1>14. \A d \in Contexts : d # c => Reads(d, pos, r)'
  <2>1. \A d \in Contexts : Reads(d, pos, r)
    BY <1>9 DEF Good
  <2> QED
    BY <1>1, <1>2, <1>8, <2>1, OtherStill
<1>15. Reads("main", pos, r)' /\ Reads("irq", pos, r)'
  BY <1>9, <1>13, <1>14
<1>16. Apart'
  BY <1>1, <1>2, <1>6, <1>9 DEF Apart
<1>17. Delivered(r)'
  <2>1. Out' = Out
    BY <1>1, <1>9, <1>10 DEF Out
  <2> QED
    BY <1>1, <1>9, <1>10, <2>1 DEF Delivered, Good
<1> QED
  BY <1>1, <1>8, <1>11, <1>12, <1>15, <1>16, <1>17 DEF Good

\* What the card makes of the value written to CAPR.
LEMMA BiasUndone ==
    ASSUME NEW x \in Int
    PROVE  (((x - 16) % RegWidth) + 16) % RingLen = x % RingLen
<1>1. RingLen \in Nat \ {0} /\ RegWidth \in Nat \ {0} /\ RegWidth % RingLen = 0
  BY Rtl8139Assumption DEF RegWidth
<1>2. PICK y \in Int : y = x - 16
  OBVIOUS
<1>3. PICK z \in Int : z = y % RegWidth
  BY <1>1
<1>4. z % RingLen = y % RingLen
  BY <1>1, <1>3, TurnsOfTurn
<1>a. RingLen \in Nat \ {0} /\ 16 \in Int
  BY <1>1
<1>5. ((z % RingLen) + 16) % RingLen = (z + 16) % RingLen
  BY <1>a, GoesOn, Zenon
<1>6. ((y % RingLen) + 16) % RingLen = (y + 16) % RingLen
  BY <1>a, GoesOn, Zenon
<1>7. y + 16 = x
  BY <1>2
<1>8. (z + 16) % RingLen = x % RingLen
  BY <1>4, <1>5, <1>6, <1>7, Zenon
<1> QED
  BY <1>2, <1>3, <1>8, Zenon

\* CAPR follows.
LEMMA WriteCaprKeeps ==
    ASSUME NEW pos, NEW r, NEW t, Good(pos, r, t), NEW c \in Contexts, WriteCapr(c)
    PROVE  Good(pos, r + 1, r + 1)'
<1>1. Runs(c, "capr") /\ pc' = [pc EXCEPT ![c] = "handle"]
      /\ capr' = (rx_offset - 16) % RegWidth
      /\ UNCHANGED <<rx_buffer, rx_offset, cbr, arrived, packet_length, next_offset, frame, handled>>
  BY DEF WriteCapr, Goto
<1>2. /\ c = "irq" \/ pc["irq"] = "out"
      /\ pc[c] = "capr" /\ pc \in [Contexts -> Places] /\ Reads(c, pos, r)
      /\ PerContext(frame) /\ PerContext(packet_length) /\ PerContext(next_offset)
  BY <1>1, Moving
<1>3. r + 1 \in 1 .. Len(arrived) /\ r \in Nat /\ frame[c] = Packet(arrived, r + 1)
      /\ arrived \in Seq(Lengths) /\ Len(arrived) \in Nat
  BY <1>2 DEF Reads, Receiving, Good, CardState
<1>4. Contexts = {"main", "irq"}
  BY DEF Contexts
<1>5. \A d \in Contexts : d # c => pc[d] \notin Receiving
  <2>1. CASE c = "irq"
    BY <1>2, <1>4, <2>1 DEF Apart, Good
  <2>2. CASE c = "main"
    BY <1>2, <1>4, <2>2 DEF Receiving
  <2> QED
    BY <1>4, <2>1, <2>2
<1>6. pc' \in [Contexts -> Places] /\ pc'[c] = "handle"
      /\ \A d \in Contexts : d # c => pc'[d] = pc[d]
  <2>1. "handle" \in Places
    BY DEF Places
  <2> QED
    BY <1>1, <1>2, <2>1, Moved1
<1>7. Locals'
  BY <1>1, <1>6 DEF Locals, Good, PerContext
<1>8. t = r + 1 /\ r = Taken
  BY <1>2, <1>4 DEF Good, Offset
<1>9. Taken' = r + 1 /\ Offset' = r + 1
  <2>0. Len(handled) \in Nat
    BY DEF Good, Delivered
  <2>1. Hands(c) = 0 /\ Hands(c)' = 1 /\ \A d \in Contexts : d # c => Hands(d)' = Hands(d)
    BY <1>2, <1>6 DEF Hands
  <2>2. \A d \in Contexts : Hands(d) \in Nat
    BY DEF Hands
  <2>3. Taken' = Taken + 1
    BY <1>1, <1>4, <2>0, <2>1, <2>2 DEF Taken
  <2>4. \A d \in Contexts : pc'[d] # "capr"
    BY <1>5, <1>6 DEF Receiving
  <2> QED
    BY <1>4, <1>8, <2>3, <2>4 DEF Offset
<1>10. CardState(pos, r + 1, r + 1)'
  <2>1. rx_offset = pos[r + 1] % RingLen /\ pos[r + 1] \in Nat /\ pos[r] \in Nat
        /\ RingLen \in Nat \ {0} /\ pos[Len(arrived)] \in Nat
        /\ pos[r] <= pos[r + 1] /\ pos[Len(arrived)] - pos[r] < RingLen
    <3>1. r \in 0 .. Len(arrived) /\ r + 1 \in 0 .. Len(arrived) /\ Len(arrived) \in 0 .. Len(arrived)
          /\ r <= r + 1
      BY <1>3
    <3> QED
      BY <1>8, <3>1, Rtl8139Assumption DEF Good, CardState, Positions
  <2>2. PICK x \in Int : x = rx_offset
    BY <2>1
  <2>3. ((((x - 16) % RegWidth) + 16) % RingLen) = x % RingLen
    BY <2>2, BiasUndone
  <2>4. PICK b \in Nat : b = pos[r + 1]
    BY <2>1
  <2>5. x % RingLen = b % RingLen
    <3>1. x = b % RingLen /\ b \in Int /\ 0 \in Int /\ RingLen \in Nat \ {0}
      BY <2>1, <2>2, <2>4
    <3>2. ((b % RingLen) + 0) % RingLen = (b + 0) % RingLen
      BY <3>1, GoesOn
    <3>3. x + 0 = x /\ b + 0 = b
      OBVIOUS
    <3> QED
      BY <3>1, <3>2, <3>3, Zenon
  <2>6. ReadPointer' = pos[r + 1] % RingLen
    <3>1. capr' = (x - 16) % RegWidth
      BY <1>1, <2>2
    <3>2. ReadPointer' = (capr' + 16) % RingLen
      BY DEF ReadPointer
    <3> QED
      BY <2>3, <2>4, <2>5, <3>1, <3>2, Zenon
  <2>7. capr' \in Int
    BY <1>1, <2>2 DEF RegWidth
  <2>8. RingHolds(pos, arrived, rx_buffer, r + 1)
    <3>1. \A i \in ((r + 1) + 1) .. Len(arrived) : i \in (r + 1) .. Len(arrived)
      BY <1>3
    <3> QED
      BY <3>1 DEF Good, CardState, RingHolds
  <2>9. pos[Len(arrived)] - pos[r + 1] < RingLen
    BY <2>1
  <2>10. r + 1 \in 0 .. Len(arrived)
    BY <1>3
  <2>11. rx_offset = pos[r + 1] % RingLen
    BY <2>1
  <2> QED
    BY <1>1, <2>6, <2>7, <2>8, <2>9, <2>10, <2>11 DEF Good, CardState
<1>11. \A d \in Contexts : pc'[d] \notin Receiving
  BY <1>5, <1>6 DEF Receiving
<1>12. Reads("main", pos, r + 1)' /\ Reads("irq", pos, r + 1)'
  BY <1>4, <1>11 DEF Reads, Receiving
<1>13. Apart'
  BY <1>4, <1>11 DEF Apart
<1>14. Delivered(r + 1)'
  <2>1. Packet(arrived, r + 1) \in PacketFrames
    BY <1>3, PacketFrame
  <2>2. CASE c = "irq"
    <3>1. Out' = Out
      BY <1>1, <1>4, <1>6, <2>2 DEF Out
    <3> QED
      BY <1>1, <1>3, <1>4, <1>6, <2>2, <3>1 DEF Delivered, Good
  <2>3. CASE c = "main"
    <3>1. pc["irq"] = "out" /\ pc'["irq"] = "out" /\ pc["main"] = "capr" /\ pc'["main"] = "handle"
      BY <1>2, <1>4, <1>6, <2>3
    <3>2. Out = handled /\ Out' = Append(handled, Packet(arrived, r + 1))
      BY <1>1, <1>3, <2>3, <3>1 DEF Out
    <3>3. handled \in Seq(PacketFrames) /\ Once(handled, arrived)
      BY <3>2 DEF Good, Delivered
    <3>4. r = Len(handled)
      <4>1. Hands("main") = 0 /\ Hands("irq") = 0 /\ Len(handled) \in Nat
        BY <3>1, <3>3 DEF Hands
      <4> QED
        BY <1>8, <4>1 DEF Taken
    <3>5. Len(handled) < Len(arrived)
      BY <1>3, <3>4
    <3>6. PICK s : s = handled
      OBVIOUS
    <3>7. PICK ls \in Seq(Lengths) : ls = arrived
      BY <1>3
    <3>8. Once(Append(s, Packet(ls, Len(s) + 1)), ls)
      BY <3>3, <3>5, <3>6, <3>7, OnceMore
    <3>9. Once(Out', arrived')
      BY <1>1, <3>2, <3>4, <3>6, <3>7, <3>8
    <3>10. frame'["main"] \in PacketFrames /\ handled' \in Seq(PacketFrames)
      BY <1>1, <1>3, <2>1, <2>3, <3>3
    <3> QED
      BY <3>1, <3>9, <3>10 DEF Delivered
  <2> QED
    BY <1>4, <2>2, <2>3
<1> QED
  BY <1>1, <1>3, <1>7, <1>9, <1>10, <1>12, <1>13, <1>14 DEF Good


\* The frame goes to eth_handle_frame().
LEMMA HandleFrameKeeps ==
    ASSUME NEW pos, NEW r, NEW t, Good(pos, r, t), NEW c \in Contexts, HandleFrame(c)
    PROVE  Good(pos, r, t)'
<1>0. PICK p \in {"again", "slot"} : pc' = [pc EXCEPT ![c] = p]
  BY DEF HandleFrame, Goto
<1>1. Runs(c, "handle") /\ pc' = [pc EXCEPT ![c] = p]
      /\ handled' = Append(handled, frame[c]) /\ frame' = [frame EXCEPT ![c] = <<>>]
      /\ UNCHANGED <<rx_buffer, rx_offset, cbr, capr, arrived, packet_length, next_offset>>
  BY <1>0 DEF HandleFrame
<1>2. /\ c = "irq" \/ pc["irq"] = "out"
      /\ pc[c] = "handle" /\ pc \in [Contexts -> Places] /\ Reads(c, pos, r)
      /\ PerContext(frame) /\ PerContext(packet_length) /\ PerContext(next_offset)
      /\ arrived \in Seq(Lengths)
  BY <1>1, Moving
<1>3. Contexts = {"main", "irq"} /\ Len(arrived) \in Nat /\ handled \in Seq(PacketFrames)
      /\ Len(handled) \in Nat
  BY <1>2 DEF Contexts, Good, Delivered
<1>4. pc' \in [Contexts -> Places] /\ pc'[c] = p
      /\ \A d \in Contexts : d # c => pc'[d] = pc[d]
  <2>1. p \in Places
    BY DEF Places
  <2> QED
    BY <1>1, <1>2, <2>1, Moved1
<1>5. PerContext(frame)' /\ \A d \in Contexts : d # c => frame'[d] = frame[d]
  BY <1>1, <1>2, Updated DEF PerContext
<1>6. Locals' /\ \A d \in Contexts : d # c => Still(d)
  BY <1>1, <1>2, <1>4, <1>5 DEF Locals, Still, PerContext
<1>7. frame[c] \in PacketFrames
  <2>1. CASE c = "main"
    BY <1>2, <2>1 DEF Good, Delivered
  <2>2. CASE c = "irq"
    <3>1. r \in 1 .. Len(arrived) /\ frame["irq"] = Packet(arrived, r)
      BY <1>2, <2>2 DEF Good, Delivered
    <3> QED
      BY <1>2, <2>2, <3>1, PacketFrame
  <2> QED
    BY <1>3, <2>1, <2>2
<1>8. PICK x \in PacketFrames : x = frame[c]
  BY <1>7
<1>9. PICK s \in Seq(PacketFrames) : s = handled
  BY <1>3
<1>10. PICK ls \in Seq(Lengths) : ls = arrived
  BY <1>2
<1>11. Append(s, x) \in Seq(PacketFrames) /\ Len(Append(s, x)) = Len(s) + 1 /\ handled' = Append(s, x)
  BY <1>1, <1>8, <1>9, AppendProperties
<1>12. Taken' = Taken /\ Offset' = Offset
  <2>1. Hands(c) = 1 /\ Hands(c)' = 0 /\ \A d \in Contexts : d # c => Hands(d)' = Hands(d)
    BY <1>2, <1>4 DEF Hands
  <2>2. \A d \in Contexts : Hands(d) \in Nat
    BY DEF Hands
  <2>3. Len(handled') = Len(handled) + 1
    BY <1>9, <1>11
  <2>4. Taken' = Taken
    <3>1. PICK h \in Nat : h = Len(handled)
      BY <1>3
    <3>2. CASE c = "main"
      <4>1. PICK k \in Nat : k = Hands("irq")
        BY <1>3, <2>2
      <4>2. Hands("main") = 1 /\ Hands("main")' = 0 /\ Hands("irq")' = k
        BY <1>3, <2>1, <3>2, <4>1
      <4> QED
        BY <2>3, <3>1, <4>1, <4>2 DEF Taken
    <3>3. CASE c = "irq"
      <4>1. PICK k \in Nat : k = Hands("main")
        BY <1>3, <2>2
      <4>2. Hands("irq") = 1 /\ Hands("irq")' = 0 /\ Hands("main")' = k
        BY <1>3, <2>1, <3>3, <4>1
      <4> QED
        BY <2>3, <3>1, <4>1, <4>2 DEF Taken
    <3> QED
      BY <1>3, <3>2, <3>3
  <2>5. \A d \in Contexts : pc'[d] = "capr" <=> pc[d] = "capr"
    BY <1>2, <1>4
  <2> QED
    BY <1>3, <2>4, <2>5 DEF Offset
<1>13. CardState(pos, r, t)'
  BY <1>1, CardIdle DEF Good
<1>14. Reads(c, pos, r)'
  BY <1>4 DEF Reads, Receiving
<1>15. \A d \in Contexts : d # c => Reads(d, pos, r)'
  <2>1. \A d \in Contexts : Reads(d, pos, r)
    BY <1>3 DEF Good
  <2> QED
    BY <1>1, <1>2, <1>6, <2>1, OtherStill
<1>16. Reads("main", pos, r)' /\ Reads("irq", pos, r)'
  BY <1>3, <1>14, <1>15
<1>17. Apart'
  <2>1. CASE c = "irq"
    BY <1>3, <1>4, <2>1 DEF Apart
  <2>2. CASE c = "main"
    BY <1>2, <1>3, <1>4, <2>2 DEF Apart
  <2> QED
    BY <1>3, <2>1, <2>2
<1>18. Delivered(r)'
  <2>1. CASE c = "main"
    <3>1. pc'["irq"] = "out" /\ pc["main"] = "handle" /\ pc'["main"] # "handle"
      BY <1>2, <1>3, <1>4, <2>1
    <3>2. Out' = Out
      BY <1>1, <2>1, <3>1 DEF Out
    <3> QED
      BY <1>1, <1>11, <3>1, <3>2 DEF Good, Delivered
  <2>2. CASE c = "irq"
    <3>1. r \in 1 .. Len(ls) /\ x = Packet(ls, r) /\ Once(Out, ls)
      BY <1>2, <1>8, <1>10, <2>2 DEF Good, Delivered
    <3>2. pc["irq"] = "handle" /\ pc'["irq"] # "handle" /\ pc'["main"] = pc["main"]
          /\ frame'["main"] = frame["main"]
      BY <1>2, <1>3, <1>4, <1>5, <2>2
    <3>3. CASE pc["main"] = "handle"
      <4>1. PICK y \in PacketFrames : y = frame["main"]
        BY <3>3 DEF Good, Delivered
      <4>2. Out = Append(s, y) /\ Out' = Append(Append(s, x), y)
        BY <1>9, <1>11, <3>2, <3>3, <4>1 DEF Out
      <4>3. r = Len(Append(s, y)) + 1
        <5>1. Hands("main") = 1 /\ Hands("irq") = 1 /\ r = Taken
          BY <3>2, <3>3 DEF Hands, Good
        <5>2. Len(Append(s, y)) = Len(s) + 1 /\ Len(s) \in Nat
          OBVIOUS
        <5> QED
          BY <1>9, <5>1, <5>2 DEF Taken
      <4>4. PICK u \in Seq(PacketFrames) : u = Append(s, y)
        <5>1. Append(s, y) \in Seq(PacketFrames)
          BY AppendProperties
        <5> QED
          BY <5>1, Zenon
      <4>5. Once(u, ls) /\ Len(u) < Len(ls) /\ r = Len(u) + 1
        <5>1. Len(u) \in Nat /\ Len(ls) \in Nat
          OBVIOUS
        <5>2. r = Len(u) + 1 /\ Once(u, ls)
          BY <3>1, <4>2, <4>3, <4>4
        <5> QED
          BY <3>1, <5>1, <5>2
      <4>6. Once(Append(u, Packet(ls, Len(u) + 1)), ls)
        BY <4>5, OnceMore
      <4>7. Once(Append(Append(s, y), x), ls)
        BY <3>1, <4>4, <4>5, <4>6
      <4>8. Once(Append(Append(s, x), y), ls)
        BY <4>7, OnceSwapped
      <4> QED
        BY <1>1, <1>10, <1>11, <3>2, <3>3, <4>1, <4>2, <4>8 DEF Delivered
    <3>4. CASE pc["main"] # "handle"
      <4>1. Out = s /\ Out' = Append(s, x)
        BY <1>9, <1>11, <3>2, <3>4 DEF Out
      <4>2. r = Len(s) + 1
        <5>1. Hands("main") = 0 /\ Hands("irq") = 1 /\ r = Taken /\ Len(s) \in Nat
          BY <3>2, <3>4 DEF Hands, Good
        <5> QED
          BY <1>9, <5>1 DEF Taken
      <4>3. Len(s) < Len(ls)
        <5>1. Len(s) \in Nat /\ Len(ls) \in Nat
          OBVIOUS
        <5> QED
          BY <3>1, <4>2, <5>1
      <4>4. Once(Append(s, Packet(ls, Len(s) + 1)), ls)
        BY <3>1, <4>1, <4>3, OnceMore
      <4>5. Once(Append(s, x), ls)
        BY <3>1, <4>2, <4>4
      <4> QED
        BY <1>1, <1>10, <1>11, <3>2, <3>4, <4>1, <4>5 DEF Delivered
    <3> QED
      BY <3>3, <3>4
  <2> QED
    BY <1>3, <2>1, <2>2
<1> QED
  BY <1>1, <1>2, <1>6, <1>12, <1>13, <1>16, <1>17, <1>18 DEF Good

\* A packet arrives.
LEMMA ArrivalKeeps ==
    ASSUME NEW pos, NEW r, NEW t, Good(pos, r, t), NEW n \in Lengths, PacketArrives(n)
    PROVE  \E q : Good(q, r, t)'
<1>1. /\ Occupies(n) < RingLen - Unread
      /\ rx_buffer' = Written(rx_buffer, cbr, Len(arrived) + 1, n)
      /\ arrived' = Append(arrived, n) /\ cbr' = (cbr + Occupies(n)) % RingLen
      /\ UNCHANGED <<rx_offset, capr, pc, packet_length, next_offset, frame, handled>>
  BY DEF PacketArrives, Written
<1>2. PICK ls \in Seq(Lengths) : ls = arrived
  BY DEF Good
<1>3. PICK m \in Nat : m = Len(ls)
  OBVIOUS
<1>4. /\ Positions(pos, ls) /\ r \in 0 .. m /\ t \in 0 .. m
      /\ cbr = pos[m] % RingLen /\ capr \in Int /\ ReadPointer = pos[r] % RingLen
      /\ rx_offset = pos[t] % RingLen /\ pos[m] - pos[r] < RingLen
      /\ RingHolds(pos, ls, rx_buffer, r)
  BY <1>2, <1>3 DEF Good, CardState
<1>5. RingLen \in Nat \ {0} /\ Occupies(n) \in Nat
  BY Rtl8139Assumption, PacketSizes
<1>6. PICK a \in Nat : a = pos[r]
  BY <1>3, <1>4 DEF Positions
<1>7. PICK b \in Nat : b = pos[m]
  BY <1>3, <1>4 DEF Positions
<1>8. a <= b /\ b - a < RingLen
  <2>1. m \in 0 .. m /\ r <= m
    BY <1>4
  <2> QED
    BY <1>3, <1>4, <1>6, <1>7, <2>1 DEF Positions
<1>9. Unread = b - a
  <2>1. a \in Int /\ b \in Int /\ b < a + RingLen
    BY <1>5, <1>8
  <2>2. ((b % RingLen) - (a % RingLen)) % RingLen = b - a
    BY <1>5, <1>8, <2>1, Ahead
  <2>3. cbr = b % RingLen /\ ReadPointer = a % RingLen
    BY <1>4, <1>6, <1>7
  <2> QED
    BY <2>2, <2>3, Zenon DEF Unread
<1>10. (b - a) + Occupies(n) < RingLen
  <2>1. PICK o \in Nat : o = Occupies(n)
    BY <1>5
  <2>2. o < RingLen - (b - a)
    BY <1>1, <1>9, <2>1
  <2> QED
    BY <1>5, <2>1, <2>2
<1>11. PICK q : /\ Positions(q, Append(ls, n)) /\ \A i \in 0 .. m : q[i] = pos[i]
                /\ q[m + 1] = b + Occupies(n)
  BY <1>3, <1>4, <1>7, MorePositions
<1>12. PICK more \in Seq(Lengths) : more = Append(ls, n)
  <2>1. Append(ls, n) \in Seq(Lengths)
    BY AppendProperties
  <2> QED
    BY <2>1, Zenon
<1>13. Len(more) = m + 1 /\ more = arrived'
  BY <1>1, <1>2, <1>3, <1>12
<1>14. RingHolds(q, more, rx_buffer', r)
  <2>1. PICK buf : buf = rx_buffer
    OBVIOUS
  <2>2. RingHolds(q, Append(ls, n), Written(buf, pos[Len(ls)] % RingLen, Len(ls) + 1, n), r)
    BY <1>3, <1>4, <1>6, <1>7, <1>10, <1>11, <2>1, RingTakes
  <2>3. rx_buffer' = Written(buf, pos[Len(ls)] % RingLen, Len(ls) + 1, n)
    BY <1>1, <1>2, <1>3, <1>4, <2>1
  <2> QED
    BY <1>12, <2>2, <2>3
<1>15. q[r] = a /\ q[t] = pos[t] /\ r \in 0 .. m + 1 /\ t \in 0 .. m + 1
  BY <1>4, <1>6, <1>11
<1>16. cbr' = q[m + 1] % RingLen
  <2>1. b \in Int /\ Occupies(n) \in Int
    BY <1>5
  <2>2. ((b % RingLen) + Occupies(n)) % RingLen = (b + Occupies(n)) % RingLen
    BY <1>5, <2>1, GoesOn
  <2>3. cbr = b % RingLen
    BY <1>4, <1>7
  <2> QED
    BY <1>1, <1>11, <2>2, <2>3, Zenon
<1>17. CardState(q, r, t)'
  <2>1. ReadPointer' = q[r] % RingLen
    BY <1>1, <1>4, <1>6, <1>15 DEF ReadPointer
  <2>2. rx_offset' = q[t] % RingLen /\ capr' \in Int
    BY <1>1, <1>4, <1>15
  <2>3. q[m + 1] - q[r] < RingLen
    <3>1. PICK o \in Nat : o = Occupies(n)
      BY <1>5
    <3>2. q[m + 1] = b + o /\ q[r] = a /\ (b - a) + o < RingLen
      BY <1>10, <1>11, <1>15, <3>1
    <3>3. (b + o) - a < RingLen
      BY <1>5, <3>2
    <3> QED
      BY <3>2, <3>3
  <2> QED
    BY <1>11, <1>12, <1>13, <1>14, <1>15, <1>16, <2>1, <2>2, <2>3 DEF CardState
<1>18. ASSUME NEW c \in Contexts, Reads(c, pos, r) PROVE Reads(c, q, r)'
  <2>1. CASE pc[c] \notin Receiving
    BY <1>1, <2>1 DEF Reads, Receiving
  <2>2. CASE pc[c] \in Receiving
    <3>1. r + 1 \in 1 .. Len(ls) /\ r + 1 \in 0 .. m /\ r + 1 \in 1 .. m + 1
      BY <1>2, <1>3, <1>4, <1>18, <2>2 DEF Reads
    <3>2. arrived'[r + 1] = arrived[r + 1] /\ Packet(arrived', r + 1) = Packet(arrived, r + 1)
      BY <1>1, <1>2, <3>1, SamePacket
    <3>3. q[r + 1] = pos[r + 1]
      BY <1>11, <3>1
    <3> QED
      BY <1>1, <1>13, <1>18, <3>1, <3>2, <3>3 DEF Reads, Alone
  <2> QED
    BY <2>1, <2>2
<1>19. Reads("main", q, r)' /\ Reads("irq", q, r)'
  BY <1>18 DEF Good, Contexts
<1>20. Locals' /\ Apart'
  BY <1>1 DEF Good, Locals, PerContext, Apart
<1>21. Taken' = Taken /\ Offset' = Offset
  BY <1>1 DEF Taken, Offset, Hands
<1>22. Delivered(r)'
  <2>1. Out' = Out
    BY <1>1 DEF Out
  <2>2. PICK out : out = Out
    OBVIOUS
  <2>3. Once(out, Append(ls, n))
    BY <1>2, <2>2, OnceLater DEF Good, Delivered
  <2>4. Once(Out', arrived')
    BY <1>1, <1>2, <2>1, <2>2, <2>3
  <2>5. ASSUME pc["irq"] = "handle"
        PROVE  r \in 1 .. m + 1 /\ frame["irq"] = Packet(arrived', r)
    <3>1. r \in 1 .. Len(ls) /\ frame["irq"] = Packet(ls, r)
      BY <1>2, <2>5 DEF Good, Delivered
    <3>2. Packet(Append(ls, n), r) = Packet(ls, r)
      BY <3>1, SamePacket
    <3> QED
      BY <1>1, <1>2, <1>3, <3>1, <3>2
  <2> QED
    BY <1>1, <1>13, <2>4, <2>5 DEF Good, Delivered
<1>23. Good(q, r, t)'
  BY <1>13, <1>17, <1>19, <1>20, <1>21, <1>22 DEF Good
<1> QED
  BY <1>23


\* The card has just been reset.
LEMMA RingStarts ==
    ASSUME RtlInit
    PROVE  RingInv
<1>1. /\ rx_offset = 0 /\ cbr = 0 /\ capr = RegWidth - 16 /\ arrived = <<>>
      /\ pc = [c \in Contexts |-> "out"] /\ handled = <<>> /\ overlapped = FALSE
      /\ packet_length = [c \in Contexts |-> 0] /\ next_offset = [c \in Contexts |-> 0]
      /\ frame = [c \in Contexts |-> <<>>]
  BY DEF RtlInit
<1>2. Contexts = {"main", "irq"} /\ pc["main"] = "out" /\ pc["irq"] = "out"
  BY <1>1 DEF Contexts
<1>3. RingLen \in Nat \ {0} /\ RegWidth % RingLen = 0 /\ RegWidth \in Nat
  BY Rtl8139Assumption DEF RegWidth
<1>4. 0 % RingLen = 0
  <2>1. 0 \in Int /\ 0 \in 0 .. RingLen - 1 /\ 0 = RingLen * 0 + 0
    BY <1>3
  <2> QED
    BY <1>3, <2>1, Remainder
<1> DEFINE pos == [i \in 0 .. 0 |-> 0]
<1>5. pos \in [0 .. 0 -> Nat] /\ pos[0] = 0
  OBVIOUS
<1> HIDE DEF pos
<1>6. Len(arrived) = 0 /\ arrived \in Seq(Lengths) /\ handled \in Seq(PacketFrames) /\ Len(handled) = 0
  BY <1>1
<1>7. Positions(pos, arrived)
  <2>1. \A i \in 1 .. 0 : FALSE
    OBVIOUS
  <2>2. \A i \in 0 .. 0 : i = 0
    OBVIOUS
  <2> QED
    BY <1>5, <1>6, <2>1, <2>2 DEF Positions
<1>8. CardState(pos, 0, 0)
  <2>1. \A i \in (0 + 1) .. 0 : FALSE
    OBVIOUS
  <2>2. RingHolds(pos, arrived, rx_buffer, 0)
    BY <1>6, <2>1 DEF RingHolds
  <2>3. ReadPointer = 0 /\ capr \in Int
    <3>1. capr + 16 = RegWidth /\ capr \in Int
      BY <1>1, <1>3
    <3> QED
      BY <1>3, <3>1 DEF ReadPointer
  <2> QED
    BY <1>1, <1>3, <1>4, <1>5, <1>6, <1>7, <2>2, <2>3 DEF CardState
<1>9. Locals
  BY <1>1 DEF Locals, PerContext, Places
<1>10. Taken = 0 /\ Offset = 0
  BY <1>2, <1>6 DEF Taken, Offset, Hands
<1>11. Reads("main", pos, 0) /\ Reads("irq", pos, 0) /\ Apart
  BY <1>2 DEF Reads, Apart, Receiving
<1>12. Delivered(0)
  <2>1. Out = <<>> /\ <<>> \in Seq(PacketFrames) /\ Len(<<>>) = 0 /\ \A i \in 1 .. 0 : FALSE
    BY <1>1, <1>2 DEF Out
  <2>2. Once(<<>>, arrived)
    BY <1>6, <2>1 DEF Once
  <2> QED
    BY <1>2, <1>6, <2>1, <2>2 DEF Delivered
<1>13. Good(pos, 0, 0)
  BY <1>6, <1>8, <1>9, <1>10, <1>11, <1>12 DEF Good
<1> QED
  BY <1>1, <1>13 DEF RingInv

\* Nothing of the receive side changes.
LEMMA RingIdle == RingInv /\ UNCHANGED rxVars => RingInv'
<1> SUFFICES ASSUME RingInv, UNCHANGED rxVars PROVE RingInv'
  OBVIOUS
<1>1. UNCHANGED <<rx_buffer, rx_offset, cbr, capr, arrived, pc, packet_length, next_offset,
                  frame, handled, overlapped>>
  BY DEF rxVars
<1>2. ASSUME ~overlapped PROVE \E pos, r, t : Good(pos, r, t)'
  <2>1. PICK pos, r, t : Good(pos, r, t)
    BY <1>2 DEF RingInv
  <2>2. CardState(pos, r, t)'
    BY <1>1, <2>1, CardIdle DEF Good
  <2>3. Locals' /\ Apart' /\ Reads("main", pos, r)' /\ Reads("irq", pos, r)'
    BY <1>1, <2>1 DEF Good, Locals, PerContext, Apart, Reads, Alone
  <2>4. Taken' = Taken /\ Offset' = Offset
    BY <1>1 DEF Taken, Offset, Hands
  <2>5. Delivered(r)'
    <3>1. Out' = Out
      BY <1>1 DEF Out
    <3> QED
      BY <1>1, <2>1, <3>1 DEF Good, Delivered
  <2>6. Good(pos, r, t)'
    BY <1>1, <2>1, <2>2, <2>3, <2>4, <2>5 DEF Good
  <2> QED
    BY <2>6
<1> QED
  BY <1>1, <1>2 DEF RingInv

\* Every step of the card and of net_poll().
LEMMA RingStep == RingInv /\ RtlNext => RingInv'
<1> SUFFICES ASSUME RingInv, RtlNext PROVE RingInv'
  OBVIOUS
<1>1. overlapped \in BOOLEAN
  BY DEF RingInv
<1>2. CASE \E n \in Lengths : PacketArrives(n)
  <2>1. PICK n \in Lengths : PacketArrives(n)
    BY <1>2
  <2>2. ~overlapped /\ overlapped' = overlapped
    BY <2>1 DEF PacketArrives
  <2>3. PICK pos, r, t : Good(pos, r, t)
    BY <2>2 DEF RingInv
  <2>4. \E q : Good(q, r, t)'
    BY <2>1, <2>3, ArrivalKeeps
  <2> QED
    BY <1>1, <2>2, <2>4 DEF RingInv
<1>3. CASE \E s \in TxSlot : TransmitDone(s)
  BY <1>3, RingIdle DEF TransmitDone
<1>4. CASE PingSends
  BY <1>4, RingIdle DEF PingSends
<1>5. CASE PingBegins \/ PingEnds
  <2>1. overlapped' = overlapped
    BY <1>5 DEF PingBegins, PingEnds
  <2>2. ASSUME ~overlapped PROVE \E pos, r, t : Good(pos, r, t)'
    <3>1. PICK pos, r, t : Good(pos, r, t)
      BY <2>2 DEF RingInv
    <3>2. Good(pos, r, t)'
      BY <1>5, <3>1, PingKeeps
    <3> QED
      BY <3>2
  <2> QED
    BY <1>1, <2>1, <2>2 DEF RingInv
<1>6. CASE \E c \in Contexts : net_poll(c)
  <2>1. PICK c \in Contexts : net_poll(c)
    BY <1>6
  <2>2. ~overlapped /\ overlapped' \in BOOLEAN
    BY <1>1, <2>1 DEF net_poll, PollBegins, ReadHeader, CopyFrame, Advance, StoreOffset,
       WriteCapr, HandleFrame, PollAgain, Runs, MainSends, TakeSlot, ReadNext, StoreNext, WaitOwn,
       FillBuffer, StartSend, SendStep
  <2>3. PICK pos, r, t : Good(pos, r, t)
    BY <2>2 DEF RingInv
  <2>4. ASSUME ~overlapped' PROVE \E p, k, l : Good(p, k, l)'
    <3>1. CASE StoreOffset(c)
      BY <2>3, <2>4, <3>1, StoreOffsetKeeps
    <3>2. CASE WriteCapr(c)
      BY <2>3, <3>2, WriteCaprKeeps
    <3>3. CASE PollBegins(c) \/ ReadHeader(c) \/ CopyFrame(c) \/ Advance(c)
               \/ HandleFrame(c) \/ PollAgain(c) \/ MainSends
      <4>1. Good(pos, r, t)'
        BY <2>3, <3>3, PollBeginsKeeps, ReadHeaderKeeps, CopyFrameKeeps, AdvanceKeeps,
           HandleFrameKeeps, PollAgainKeeps, MainSendsReceive
      <4> QED
        BY <4>1
    <3> QED
      BY <2>1, <3>1, <3>2, <3>3 DEF net_poll
  <2> QED
    BY <2>2, <2>4 DEF RingInv
<1> QED
  BY <1>2, <1>3, <1>4, <1>5, <1>6 DEF RtlNext

\* What is out of the ring is out once.
LEMMA OutOnce == RingInv => FramesOnce
<1> SUFFICES ASSUME RingInv, ~overlapped
             PROVE  LET out == handled \o InHand
                    IN  \A id \in 1 .. Len(out) :
                           /\ id <= Len(arrived)
                           /\ Cardinality({k \in 1 .. Len(out) : out[k] = Sent(id)}) = 1
  BY DEF FramesOnce
<1>1. PICK pos, r, t : Good(pos, r, t)
  BY DEF RingInv
<1>2. handled \in Seq(PacketFrames) /\ Once(Out, arrived) /\ arrived \in Seq(Lengths)
      /\ (pc["main"] = "handle" => frame["main"] \in PacketFrames)
  BY <1>1 DEF Good, Delivered
<1>3. handled \o InHand = Out
  <2>1. CASE pc["main"] = "handle"
    <3>1. PICK x \in PacketFrames : x = frame["main"]
      BY <1>2, <2>1
    <3>2. handled \o <<x>> = Append(handled, x)
      BY <1>2
    <3> QED
      BY <2>1, <3>1, <3>2 DEF InHand, Out
  <2>2. CASE pc["main"] # "handle"
    <3>1. handled \o <<>> = handled
      BY <1>2
    <3> QED
      BY <2>2, <3>1 DEF InHand, Out
  <2> QED
    BY <2>1, <2>2
<1>4. PICK out : out = handled \o InHand /\ Once(out, arrived)
  BY <1>2, <1>3
<1>5. \A id : Sent(id) = Packet(arrived, id)
  BY DEF Sent, Packet
<1>6. ASSUME NEW id \in 1 .. Len(out)
      PROVE  id <= Len(arrived) /\ Cardinality({k \in 1 .. Len(out) : out[k] = Sent(id)}) = 1
  <2>1. id <= Len(arrived)
    <3>1. PICK m \in Nat : m = Len(arrived)
      BY <1>2
    <3>2. Len(out) <= m /\ id \in 1 .. Len(out)
      BY <1>4, <3>1, Zenon DEF Once
    <3>3. PICK n \in Nat : n = Len(out)
      BY <1>2, <1>3, <1>4 DEF Once
    <3>4. n <= m /\ id \in 1 .. n
      BY <3>2, <3>3, Zenon
    <3>5. id <= m
      BY <3>4
    <3> QED
      BY <3>1, <3>5, Zenon
  <2>2. PICK k \in 1 .. Len(out) :
              /\ out[k] = Packet(arrived, id)
              /\ \A l \in 1 .. Len(out) : out[l] = Packet(arrived, id) => l = k
    BY <1>4 DEF Once
  <2>3. {l \in 1 .. Len(out) : out[l] = Sent(id)} = {k}
    BY <1>5, <2>2
  <2>4. Cardinality({k}) = 1
    BY FS_Singleton
  <2>5. Cardinality({l \in 1 .. Len(out) : out[l] = Sent(id)}) = 1
    BY <2>3, <2>4, Zenon
  <2> QED
    BY <2>1, <2>5, Zenon
<1> QED
  BY <1>4, <1>6

-----------------------------------------------------------------------------
(* The transmit descriptors *)

Waiting == {s \in TxSlot : ~own[s]}

\* The descriptor the main loop has found free is still free, and then filled.
MainHasSlot ==
    ~circled => /\ pc["main"] \in {"fill", "start"} => own[tx_slot]
                /\ pc["main"] = "start" => tx_buffer[tx_slot] = tx_frame
TxShape ==
    /\ PerContext(pc)
    /\ own \in [TxSlot -> BOOLEAN] /\ DOMAIN tx_buffer = TxSlot /\ circled \in BOOLEAN
    /\ tx_next \in TxSlot /\ tx_slot \in TxSlot /\ tx_after \in TxSlot
TxInv == TxShape /\ MainHasSlot /\ TransmitsAll

\* The next slot, and slot 0.
LEMMA SlotAfter == 0 \in TxSlot /\ \A s \in TxSlot : (s + 1) % TxSlots \in TxSlot
BY Rtl8139Assumption DEF TxSlot

\* A frame goes into a free descriptor and the card gets it.
LEMMA Filled ==
    ASSUME TxShape, NEW s \in TxSlot, NEW id,
           own[s], accepted = wire \cup {tx_buffer[x] : x \in Waiting},
           tx_buffer' = [tx_buffer EXCEPT ![s] = id] \/ (tx_buffer' = tx_buffer /\ tx_buffer[s] = id),
           own' = [own EXCEPT ![s] = FALSE], accepted' = accepted \cup {id}, wire' = wire
    PROVE  accepted' = wire' \cup {tx_buffer'[x] : x \in Waiting'}
<1>1. Waiting' = Waiting \cup {s} /\ s \notin Waiting /\ Waiting \subseteq TxSlot
  BY DEF Waiting, TxShape
<1>2. tx_buffer'[s] = id /\ \A x \in Waiting : tx_buffer'[x] = tx_buffer[x]
  BY <1>1 DEF TxShape
<1>3. {tx_buffer'[x] : x \in Waiting'} = {tx_buffer[x] : x \in Waiting} \cup {id}
  BY <1>1, <1>2
<1> QED
  BY <1>3

\* A ping's rtl8139_send() takes a descriptor only when the card has given it back.
LEMMA SendKeeps ==
    ASSUME TxInv, rtl8139_send, PerContext(pc)', pc'["main"] = pc["main"]
    PROVE  TxInv'
<1>1. TxShape /\ tx_next \in TxSlot
  BY DEF TxInv, TxShape
<1>2. /\ tx_next' = (tx_next + 1) % TxSlots
      /\ UNCHANGED <<tx_slot, tx_after, tx_frame, wire>>
  BY DEF rtl8139_send
<1>3. tx_next' \in TxSlot
  BY <1>1, <1>2, SlotAfter
<1>4. CASE own[tx_next]
  <2>1. /\ tx_buffer' = [tx_buffer EXCEPT ![tx_next] = sends + 1]
        /\ own' = [own EXCEPT ![tx_next] = FALSE] /\ accepted' = accepted \cup {sends + 1}
        /\ circled' = (circled \/ (pc["main"] \in {"fill", "start"} /\ tx_slot = tx_next))
    BY <1>4 DEF rtl8139_send
  <2>2. TxShape'
    BY <1>1, <1>2, <1>3, <2>1 DEF TxShape
  <2>3. ASSUME ~circled'
        PROVE  /\ ~circled /\ ~(pc["main"] \in {"fill", "start"} /\ tx_slot = tx_next)
    BY <2>1, <2>3
  <2>4. MainHasSlot'
    BY <1>1, <1>2, <2>1, <2>3 DEF MainHasSlot, TxInv, TxShape
  <2>5. ASSUME ~circled' PROVE accepted' = wire' \cup {tx_buffer'[x] : x \in Waiting'}
    <3>1. accepted = wire \cup {tx_buffer[x] : x \in Waiting}
      BY <2>3, <2>5 DEF TxInv, TransmitsAll, Waiting
    <3> QED
      BY <1>1, <1>2, <1>4, <2>1, <3>1, Filled
  <2> QED
    BY <2>2, <2>4, <2>5 DEF TxInv, TransmitsAll, Waiting
<1>5. CASE ~own[tx_next]
  <2>1. UNCHANGED <<tx_buffer, own, accepted, circled>>
    BY <1>5 DEF rtl8139_send
  <2> QED
    BY <1>1, <1>2, <1>3, <2>1 DEF TxInv, TxShape, MainHasSlot, TransmitsAll
<1> QED
  BY <1>4, <1>5

\* The steps of the main loop's rtl8139_send().
LEMMA MainSendsKeep ==
    ASSUME TxInv, MainSends
    PROVE  TxInv'
<1>1. TxShape /\ MainHasSlot /\ TransmitsAll
  BY DEF TxInv
<1>2. /\ UNCHANGED <<wire, circled>>
      /\ \E q : pc' = [pc EXCEPT !["main"] = q]
  BY DEF MainSends, TakeSlot, ReadNext, StoreNext, WaitOwn, FillBuffer, StartSend, SendStep, Goto
<1>3. PerContext(pc)' /\ \A q : pc' = [pc EXCEPT !["main"] = q] => pc'["main"] = q
  BY <1>1, <1>2, Updated DEF TxShape, PerContext, Contexts
<1>4. CASE TakeSlot
  <2>1. pc'["main"] = "next" /\ tx_slot' = tx_next
        /\ UNCHANGED <<tx_next, own, tx_buffer, tx_after, tx_frame, accepted>>
    BY <1>3, <1>4 DEF TakeSlot, SendStep, Goto
  <2> QED
    BY <1>1, <1>2, <1>3, <2>1 DEF TxInv, TxShape, MainHasSlot, TransmitsAll
<1>5. CASE ReadNext
  <2>1. pc'["main"] = "pass" /\ tx_after' = (tx_next + 1) % TxSlots
        /\ UNCHANGED <<tx_next, own, tx_buffer, tx_slot, tx_frame, accepted>>
    BY <1>3, <1>5 DEF ReadNext, SendStep, Goto
  <2>2. tx_after' \in TxSlot
    BY <1>1, <2>1, SlotAfter DEF TxShape
  <2> QED
    BY <1>1, <1>2, <1>3, <2>1, <2>2 DEF TxInv, TxShape, MainHasSlot, TransmitsAll
<1>6. CASE StoreNext
  <2>1. pc'["main"] = "own" /\ tx_next' = tx_after /\ tx_after' = 0
        /\ UNCHANGED <<own, tx_buffer, tx_slot, tx_frame, accepted>>
    BY <1>3, <1>6 DEF StoreNext, SendStep, Goto
  <2> QED
    BY <1>1, <1>2, <1>3, <2>1, SlotAfter DEF TxInv, TxShape, MainHasSlot, TransmitsAll
<1>7. CASE WaitOwn
  <2>1. UNCHANGED <<tx_next, own, tx_buffer, tx_after, accepted>>
    BY <1>7 DEF WaitOwn
  <2>2. CASE own[tx_slot]
    <3>1. pc'["main"] = "fill" /\ UNCHANGED <<tx_slot, tx_frame>>
      BY <1>3, <1>7, <2>2 DEF WaitOwn, SendStep, Goto
    <3> QED
      BY <1>1, <1>2, <1>3, <2>1, <2>2, <3>1 DEF TxInv, TxShape, MainHasSlot, TransmitsAll
  <2>3. CASE ~own[tx_slot]
    <3>1. pc'["main"] = "again" /\ tx_slot' = 0
      BY <1>3, <1>7, <2>3 DEF WaitOwn, SendStep, Goto
    <3> QED
      BY <1>1, <1>2, <1>3, <2>1, <3>1, SlotAfter DEF TxInv, TxShape, MainHasSlot, TransmitsAll
  <2> QED
    BY <2>2, <2>3
<1>8. CASE FillBuffer
  <2>1. /\ pc["main"] = "fill" /\ pc'["main"] = "start"
        /\ tx_buffer' = [tx_buffer EXCEPT ![tx_slot] = tx_frame]
        /\ UNCHANGED <<tx_next, own, tx_slot, tx_after, tx_frame, accepted>>
    BY <1>3, <1>8 DEF FillBuffer, SendStep, Goto, Runs
  <2>2. TxShape' /\ MainHasSlot'
    BY <1>1, <1>2, <1>3, <2>1 DEF TxShape, MainHasSlot
  <2>3. ASSUME ~circled PROVE {tx_buffer'[x] : x \in Waiting'} = {tx_buffer[x] : x \in Waiting}
    <3>1. tx_slot \notin Waiting /\ Waiting' = Waiting
      BY <1>1, <2>1, <2>3 DEF MainHasSlot, Waiting
    <3> QED
      BY <1>1, <2>1, <3>1 DEF TxShape, Waiting
  <2> QED
    BY <1>1, <1>2, <2>1, <2>2, <2>3 DEF TxInv, TransmitsAll, Waiting
<1>9. CASE StartSend
  <2>1. /\ pc["main"] = "start" /\ pc'["main"] = "again" /\ tx_slot' = 0
        /\ own' = [own EXCEPT ![tx_slot] = FALSE] /\ accepted' = accepted \cup {tx_frame}
        /\ UNCHANGED <<tx_next, tx_buffer, tx_after>>
    BY <1>3, <1>9 DEF StartSend, SendStep, Goto, Runs
  <2>2. TxShape' /\ MainHasSlot'
    BY <1>1, <1>2, <1>3, <2>1, SlotAfter DEF TxShape, MainHasSlot
  <2>3. ASSUME ~circled PROVE accepted' = wire' \cup {tx_buffer'[x] : x \in Waiting'}
    <3>1. own[tx_slot] /\ tx_buffer[tx_slot] = tx_frame /\ tx_slot \in TxSlot
      BY <1>1, <2>1, <2>3 DEF MainHasSlot, TxShape
    <3>2. accepted = wire \cup {tx_buffer[x] : x \in Waiting}
      BY <1>1, <2>3 DEF TransmitsAll, Waiting
    <3> QED
      BY <1>1, <1>2, <2>1, <3>1, <3>2, Filled
  <2> QED
    BY <1>2, <2>2, <2>3 DEF TxInv, TransmitsAll, Waiting
<1> QED
  BY <1>4, <1>5, <1>6, <1>7, <1>8, <1>9 DEF MainSends

\* The main loop stands where it stood, or away from its send, and nothing is sent.
LEMMA TxIdle ==
    ASSUME TxInv, UNCHANGED <<tx_next, own, tx_buffer, tx_slot, tx_after, accepted, wire, circled>>,
           PerContext(pc)',
           \/ pc'["main"] = pc["main"] /\ tx_frame' = tx_frame
           \/ pc'["main"] \notin {"fill", "start"}
    PROVE  TxInv'
BY DEF TxInv, TxShape, MainHasSlot, TransmitsAll

\* Every step of the driver and the card.
LEMMA TxStep == TxInv /\ RtlNext => TxInv'
<1> SUFFICES ASSUME TxInv, RtlNext PROVE TxInv'
  OBVIOUS
<1>0. PerContext(pc) /\ Contexts = {"main", "irq"} /\ TxShape
  BY DEF TxInv, TxShape, Contexts
<1>1. ASSUME UNCHANGED txVars, NEW c \in Contexts, NEW q, pc' = [pc EXCEPT ![c] = q],
             q \notin {"fill", "start"}
      PROVE  TxInv'
  <2>1. PerContext(pc)' /\ pc'[c] = q /\ \A d \in Contexts : d # c => pc'[d] = pc[d]
    BY <1>0, <1>1, Updated DEF PerContext
  <2>2. pc'["main"] = pc["main"] \/ pc'["main"] \notin {"fill", "start"}
    BY <1>0, <1>1, <2>1
  <2> QED
    BY <1>1, <2>1, <2>2, TxIdle DEF txVars
<1>2. CASE \E s \in TxSlot : TransmitDone(s)
  <2>1. PICK s \in TxSlot : TransmitDone(s)
    BY <1>2
  <2>2. /\ ~own[s] /\ own' = [own EXCEPT ![s] = TRUE] /\ wire' = wire \cup {tx_buffer[s]}
        /\ UNCHANGED <<pc, tx_next, tx_buffer, tx_slot, tx_after, tx_frame, accepted, circled>>
    BY <2>1 DEF TransmitDone, rxVars
  <2>3. TxShape' /\ MainHasSlot'
    BY <2>2 DEF TxInv, TxShape, MainHasSlot, PerContext
  <2>4. Waiting' = Waiting \ {s} /\ s \in Waiting
    BY <1>0, <2>2 DEF Waiting, TxShape
  <2>5. {tx_buffer[x] : x \in Waiting} = {tx_buffer'[x] : x \in Waiting'} \cup {tx_buffer[s]}
    BY <2>2, <2>4
  <2> QED
    BY <2>2, <2>3, <2>5 DEF TxInv, TransmitsAll, Waiting
<1>3. CASE PingSends
  <2>1. rtl8139_send /\ pc' = pc
    BY <1>3 DEF PingSends, rxVars
  <2> QED
    BY <1>0, <2>1, SendKeeps DEF PerContext
<1>4. CASE PingBegins \/ PingEnds
  <2>1. PICK q \in {"ping", "out"} : pc' = [pc EXCEPT !["irq"] = q]
    BY <1>4 DEF PingBegins, PingEnds, Goto
  <2>2. UNCHANGED txVars
    BY <1>4 DEF PingBegins, PingEnds
  <2> QED
    BY <1>0, <1>1, <2>1, <2>2
<1>5. CASE \E n \in Lengths : PacketArrives(n)
  <2>1. UNCHANGED txVars /\ pc' = pc
    BY <1>5 DEF PacketArrives
  <2> QED
    BY <1>0, <2>1, TxIdle DEF txVars, PerContext
<1>6. CASE \E c \in Contexts : net_poll(c)
  <2>1. PICK c \in Contexts : net_poll(c)
    BY <1>6
  <2>2. CASE HandleFrame(c)
    <3>1. PICK q \in {"again", "slot"} : pc' = [pc EXCEPT ![c] = q]
      BY <2>2 DEF HandleFrame, Goto
    <3>2. PerContext(pc)' /\ pc'[c] = q /\ \A d \in Contexts : d # c => pc'[d] = pc[d]
      BY <1>0, <3>1, Updated DEF PerContext
    <3>3. CASE UNCHANGED txVars
      BY <1>1, <3>1, <3>3
    <3>4. CASE c = "irq" /\ rtl8139_send
      BY <1>0, <3>2, <3>4, SendKeeps
    <3>5. CASE c = "main" /\ MainSendBegins
      BY <3>2, <3>5, TxIdle DEF MainSendBegins
    <3> QED
      BY <2>2, <3>3, <3>4, <3>5 DEF HandleFrame
  <2>3. CASE MainSends
    BY <2>3, MainSendsKeep
  <2>4. CASE \/ PollBegins(c) \/ ReadHeader(c) \/ CopyFrame(c) \/ Advance(c)
             \/ StoreOffset(c) \/ WriteCapr(c) \/ PollAgain(c)
    <3>1. PICK q \in {"header", "copy", "advance", "store", "capr", "handle", "ping", "out"} :
               pc' = [pc EXCEPT ![c] = q]
      BY <2>4 DEF PollBegins, ReadHeader, CopyFrame, Advance, StoreOffset, WriteCapr, PollAgain,
         Goto, Return
    <3>2. UNCHANGED txVars
      BY <2>4 DEF PollBegins, ReadHeader, CopyFrame, Advance, StoreOffset, WriteCapr, PollAgain
    <3> QED
      BY <1>1, <3>1, <3>2
  <2> QED
    BY <2>1, <2>2, <2>3, <2>4 DEF net_poll
<1> QED
  BY <1>2, <1>3, <1>4, <1>5, <1>6 DEF RtlNext

\* All descriptors are the driver's at first.
LEMMA TxStarts == RtlInit => TxInv
<1> SUFFICES ASSUME RtlInit PROVE TxInv
  OBVIOUS
<1>1. /\ tx_next = 0 /\ own = [s \in TxSlot |-> TRUE] /\ tx_buffer = [s \in TxSlot |-> 0]
      /\ tx_slot = 0 /\ tx_after = 0 /\ accepted = {} /\ wire = {} /\ circled = FALSE
      /\ pc = [c \in Contexts |-> "out"]
  BY DEF RtlInit
<1>2. TxShape
  BY <1>1, SlotAfter DEF TxShape, PerContext
<1>3. MainHasSlot
  BY <1>1 DEF MainHasSlot, Contexts
<1>4. {t \in TxSlot : ~own[t]} = {}
  BY <1>1
<1> QED
  BY <1>1, <1>2, <1>3, <1>4 DEF TxInv, TransmitsAll

-----------------------------------------------------------------------------
NetworkInv == RingInv /\ TxInv

\* The network card under the specification of the two drivers.
LEMMA NetworkInvariant == FairSpec => []NetworkInv
<1>1. DriversInit => NetworkInv
  BY RingStarts, TxStarts DEF DriversInit, NetworkInv
<1>2. NetworkInv /\ [DriversNext]_driversVars => NetworkInv'
  <2> SUFFICES ASSUME NetworkInv, [DriversNext]_driversVars PROVE NetworkInv'
    OBVIOUS
  <2>1. CASE RtlNext
    BY <2>1, RingStep, TxStep DEF NetworkInv
  <2>2. CASE UNCHANGED rtlVars
    <3>1. UNCHANGED rxVars /\ UNCHANGED txVars
      BY <2>2 DEF rtlVars
    <3>2. pc' = pc /\ PerContext(pc)
      BY <3>1 DEF rxVars, NetworkInv, TxInv, TxShape
    <3>3. TxInv'
      BY <3>1, <3>2, TxIdle DEF NetworkInv, txVars, PerContext
    <3> QED
      BY <3>1, <3>3, RingIdle DEF NetworkInv
  <2> QED
    BY <2>1, <2>2 DEF DriversNext, UsesNetwork, driversVars
<1> QED
  BY <1>1, <1>2, PTL DEF FairSpec

(* Whatever the ring's size and the packets' lengths, and wherever the wrap falls:
   as long as no ping's receive cuts into one of the main loop, rtl8139_poll_receive()
   hands every packet on once and whole, in a ring that is never overwritten. *)
THEOREM FramesComeOnce == FairSpec => []FramesOnce
<1>1. NetworkInv => FramesOnce
  BY OutOnce DEF NetworkInv
<1> QED
  BY <1>1, NetworkInvariant, PTL

(* With any number of descriptors, and with pings that send between any two steps of
   the main loop's rtl8139_send(): every frame that was accepted has been transmitted or
   waits in a descriptor, unless a ping's sends came round to the one that the main
   loop had found free. *)
THEOREM NothingUnsent == FairSpec => []TransmitsAll
<1>1. NetworkInv => TransmitsAll
  BY DEF NetworkInv, TxInv
<1> QED
  BY <1>1, NetworkInvariant, PTL

-----------------------------------------------------------------------------
(* The disk *)

Callers == {"main", "irq"}
Mounted == stage \notin {"off", "probe"}

\* A text as it lies in a sector of a disk with this superblock.
Under(reserved, lba, text) ==
    [text |-> text, reserved |-> NoReserved,
     pads |-> IF reserved[0] = Magic THEN {<<SeedOf(reserved), NonceOf(reserved), lba>>} ELSE {}]

CallShape ==
    /\ DOMAIN call = Callers
    /\ \A c \in Callers :
          /\ DOMAIN call[c] = {"at", "ok", "cut", "does"}
          /\ DOMAIN call[c].does = {"op", "lba", "data"}
          /\ call[c].does.lba \in Sectors
          /\ call[c].at \in {"out", "low", "high", "command", "drq", "data", "busy", "status",
                             "returned"}
DriveShape ==
    /\ DOMAIN regs = {"low", "high"} /\ regs.low \in {0, 1} /\ regs.high \in {0, 1}
    /\ DOMAIN drive = {"state", "does"} /\ DOMAIN drive.does = {"op", "lba", "data"}
    /\ drive.state \in {"idle", "busy", "drq", "error"} /\ drive.does.lba \in Sectors
KnownDevices == [name : {"ata0", "ram0", "cenc0", "fsenc0"}, slot : Nat]
DiskShape ==
    /\ CallShape /\ DriveShape
    /\ stage \in {"off", "probe", "format", "save", "ready", "halted"}
    /\ DOMAIN platter = Sectors /\ DOMAIN last = FileSectors
    /\ devices \in Seq(KnownDevices) /\ DOMAIN slots = 0 .. (CryptoSlots - 1)

\* The file system's device has the keys of the superblock, and none without.
DeviceFits ==
    /\ stage # "off" => Len(devices) > 0 /\ devices[1].name = "ata0"
    /\ stage \in {"format", "save", "ready"} =>
          LET device == devices[fs_disk_device_id + 1] IN
          IF superblock[0] = Magic
          THEN /\ device.name # "ata0"
               /\ slots[device.slot].key = SeedOf(superblock)
               /\ slots[device.slot].nonce = NonceOf(superblock)
          ELSE device.name = "ata0"

\* Until the superblock is read, the drive has nothing to store.
BootQuiet ==
    /\ stage \in {"off", "probe"} => drive.state # "error" /\ ~HasData
    /\ stage = "off" => drive.state = "idle"

\* What is written goes into its sector under the keys of the superblock.
WriteFits(w) ==
    w.op = "write" =>
        IF w.lba = 0 THEN stage = "save" /\ w.data = Content("super", superblock)
        ELSE /\ stage \in {"format", "ready"} /\ w.data.text \notin {"unknown", "super"}
             /\ w.data = Under(superblock, w.lba, w.data.text)

\* Which calls there are at each stage.
CallsFit ==
    /\ call["irq"].at # "out" =>
          /\ stage = "ready"
          /\ call["main"].cut \/ call["main"].at \in {"out", "low"}
    /\ ~call["irq"].cut
    /\ stage \in {"off", "halted"} => call["main"].at = "out"
    /\ stage = "ready" => call["main"].at # "returned" /\ call["irq"].at # "returned"
    /\ call["main"].cut => stage = "ready" /\ call["main"].at \notin {"out", "low"}
    /\ stage = "probe" =>
          /\ call["main"].at # "out" /\ call["main"].does.op = "read"
          /\ call["main"].does.lba = 0
          /\ call["main"].at = "returned" => call["main"].ok
    /\ stage = "save" => call["main"].at # "out" /\ call["main"].does.lba = 0
                         /\ call["main"].does.op = "write"
    /\ stage = "format" /\ call["main"].at # "out" => call["main"].does.op = "write"
    /\ \A c \in Callers : /\ call[c].at = "out" => call[c].does.op = "none"
                          /\ call[c].at # "out" => call[c].does.op \in {"read", "write"}
                          /\ WriteFits(call[c].does)

\* The drive does what a call that nothing cut into has asked for.
Doing(w) == drive.does.op = w.op /\ drive.does.lba = w.lba
Follows(c) ==
    /\ call[c].at = "high" => ~Busy /\ regs.low = call[c].does.lba % 2
    /\ call[c].at = "command" =>
          ~Busy /\ regs.low = call[c].does.lba % 2 /\ regs.high = call[c].does.lba \div 2
    /\ call[c].at = "drq" =>
          drive.state # "idle" /\ Doing(call[c].does) /\ drive.does.data.text = "unknown"
    /\ call[c].at = "data" =>
          drive.state = "drq" /\ Doing(call[c].does) /\ drive.does.data.text = "unknown"
    /\ call[c].at = "busy" =>
          /\ call[c].does.op = "write"
          /\ \/ drive.state = "error"
             \/ Busy /\ Doing(call[c].does) /\ drive.does.data = call[c].does.data
             \/ ~Busy /\ platter[call[c].does.lba] = call[c].does.data
    /\ call[c].at = "status" =>
          ~Busy /\ (drive.state = "error" \/ platter[call[c].does.lba] = call[c].does.data)
    /\ call[c].at = "returned" /\ call[c].ok =>
          ~Busy /\ platter[call[c].does.lba] = call[c].does.data
InControl(c) == ~call[c].cut /\ (c = "irq" \/ call["irq"].at = "out")
CallsFollow == \A c \in Callers : InControl(c) => Follows(c)

\* A call that was cut into reaches suspect sectors only, whatever it finds in the
\* registers and in the drive when it goes on.
GoesOnWith == \/ call["irq"].at \notin {"low", "high", "command"}
              \/ call["irq"].at = "low" /\ Busy
CutFits ==
    call["main"].cut =>
        /\ call["main"].does.lba \in suspect
        /\ call["irq"].at # "out" =>
              Mixed(call["irq"].does.lba, call["main"].does.lba) \subseteq suspect
        /\ GoesOnWith =>
           /\ call["main"].at \in {"high", "command"} =>
                 /\ 2 * regs.high + regs.low \in suspect
                 /\ 2 * (call["main"].does.lba \div 2) + regs.low \in suspect
                 /\ Busy => drive.does.lba \in suspect
           /\ call["main"].at \in {"drq", "data"} /\ drive.state \in {"busy", "drq"} =>
                 drive.does.lba \in suspect

\* What the drive is storing is right for its sector, or the sector is suspect.
StoreFits ==
    Busy /\ HasData =>
        /\ Mounted
        /\ IF drive.does.lba = 0
           THEN \/ drive.does.data = Content("super", superblock) /\ stage \in {"save", "halted"}
                \/ 0 \in suspect /\ drive.does.data.text # "super"
           ELSE \/ drive.does.lba \in suspect
                \/ /\ drive.does.data.text \in last[drive.does.lba]
                   /\ drive.does.data =
                         Under(superblock, drive.does.lba, drive.does.data.text)

\* What is on the disk.
Kept(lba, reserved) ==
    "unknown" \in last[lba] \/ \E t \in last[lba] : platter[lba] = Under(reserved, lba, t)
InForce == IF Mounted THEN superblock ELSE platter[0].reserved
PlatterFits ==
    /\ misread = FALSE
    /\ platter[0].text = "super" => platter[0] = Content("super", InForce)
    /\ Mounted \/ platter[0].text = "super" =>
          \A lba \in FileSectors \ suspect : Kept(lba, InForce)
    /\ stage = "ready" /\ 0 \notin suspect => platter[0].text = "super"

DiskInv == /\ DiskShape /\ DeviceFits /\ BootQuiet /\ CallsFit /\ CallsFollow
           /\ CutFits /\ StoreFits /\ PlatterFits

-----------------------------------------------------------------------------
(* Addresses and keystreams *)

\* The two registers make up the address.
LEMMA AddressOf ==
    ASSUME NEW a \in Sectors
    PROVE  /\ a % 2 \in {0, 1} /\ a \div 2 \in {0, 1} /\ 2 * (a \div 2) + (a % 2) = a
           /\ a \in Int
BY DEF Sectors

\* Whatever the registers hold is an address.
LEMMA AddressIn ==
    ASSUME NEW h \in {0, 1}, NEW l \in {0, 1}
    PROVE  2 * h + l \in Sectors
BY DEF Sectors

\* Half of one address and half of another.
LEMMA MixedHas ==
    ASSUME NEW a \in Sectors, NEW m \in Sectors
    PROVE  {a, m, 2 * (m \div 2) + (a % 2)} \subseteq Mixed(a, m)
<1>1. \A h, l \in {a, m} : 2 * (h \div 2) + (l % 2) \in Mixed(a, m)
  BY SMT DEF Mixed
<1>2. 2 * (a \div 2) + (a % 2) = a /\ 2 * (m \div 2) + (m % 2) = m
  BY AddressOf
<1> QED
  BY <1>1, <1>2, Zenon

\* A written text passes through the file system's device.
LEMMA ThroughWrites ==
    ASSUME DeviceFits, stage \in {"format", "save", "ready"}, NEW lba, NEW text
    PROVE  ThroughDevice(lba, Plain(text)) = Under(superblock, lba, text)
<1> DEFINE device == devices[fs_disk_device_id + 1]
<1>1. CASE superblock[0] = Magic
  <2>1. /\ device.name # "ata0"
        /\ slots[device.slot].key = SeedOf(superblock)
        /\ slots[device.slot].nonce = NonceOf(superblock)
    BY <1>1 DEF DeviceFits
  <2>2. PICK pad : pad = <<SeedOf(superblock), NonceOf(superblock), lba>>
    OBVIOUS
  <2>3. ThroughDevice(lba, Plain(text)) =
            [Plain(text) EXCEPT !.pads = (@ \ {pad}) \cup ({pad} \ @)]
    BY <2>1, <2>2, Zenon DEF ThroughDevice, Trampoline, blockdev_get, crypto_xor_sector
  <2>4. [Plain(text) EXCEPT !.pads = (@ \ {pad}) \cup ({pad} \ @)] =
            [text |-> text, reserved |-> NoReserved, pads |-> {pad}]
    <3>1. Plain(text) = [text |-> text, reserved |-> NoReserved, pads |-> {}]
      BY DEF Plain, Content
    <3>2. ({} \ {pad}) \cup ({pad} \ {}) = {pad}
      OBVIOUS
    <3> QED
      BY <3>1, <3>2
  <2> QED
    BY <1>1, <2>2, <2>3, <2>4, Zenon DEF Under
<1>2. CASE superblock[0] # Magic
  <2>1. device.name = "ata0"
    BY <1>2 DEF DeviceFits
  <2> QED
    BY <1>2, <2>1, Zenon DEF ThroughDevice, blockdev_get, Under, Plain, Content
<1> QED
  BY <1>1, <1>2

\* Twice the same keystream cancels.
LEMMA XorBack ==
    ASSUME NEW slot, NEW reserved, NEW lba, NEW text, reserved[0] = Magic,
           slot.key = SeedOf(reserved), slot.nonce = NonceOf(reserved)
    PROVE  /\ crypto_xor_sector(slot, lba, Under(reserved, lba, text)).text = text
           /\ crypto_xor_sector(slot, lba, Under(reserved, lba, text)).pads = {}
<1>1. PICK pad : pad = <<SeedOf(reserved), NonceOf(reserved), lba>>
  OBVIOUS
<1>2. PICK u : u = [text |-> text, reserved |-> NoReserved, pads |-> {pad}]
  OBVIOUS
<1>3. Under(reserved, lba, text) = u
  BY <1>1, <1>2, Zenon DEF Under
<1>4. crypto_xor_sector(slot, lba, u) = [u EXCEPT !.pads = (@ \ {pad}) \cup ({pad} \ @)]
  BY <1>1, Zenon DEF crypto_xor_sector
<1>5. ({pad} \ {pad}) \cup ({pad} \ {pad}) = {}
  OBVIOUS
<1>6. [u EXCEPT !.pads = (@ \ {pad}) \cup ({pad} \ @)] =
          [text |-> text, reserved |-> NoReserved, pads |-> {}]
  BY <1>2, <1>5
<1> QED
  BY <1>3, <1>4, <1>6

\* What lies in a sector as it was written reads as it was written.
LEMMA ThroughReads ==
    ASSUME DeviceFits, stage \in {"format", "save", "ready"}, NEW lba, NEW text
    PROVE  /\ ThroughDevice(lba, Under(superblock, lba, text)).text = text
           /\ ThroughDevice(lba, Under(superblock, lba, text)).pads = {}
<1> DEFINE device == devices[fs_disk_device_id + 1]
<1>1. CASE superblock[0] = Magic
  <2>1. /\ device.name # "ata0"
        /\ slots[device.slot].key = SeedOf(superblock)
        /\ slots[device.slot].nonce = NonceOf(superblock)
    BY <1>1 DEF DeviceFits
  <2>2. PICK slot : slot = slots[device.slot]
    OBVIOUS
  <2>3. ThroughDevice(lba, Under(superblock, lba, text)) =
            crypto_xor_sector(slot, lba, Under(superblock, lba, text))
    BY <2>1, <2>2, Zenon DEF ThroughDevice, Trampoline, blockdev_get
  <2>4. PICK r : r = superblock
    OBVIOUS
  <2>5. slot.key = SeedOf(r) /\ slot.nonce = NonceOf(r) /\ r[0] = Magic
    BY <1>1, <2>1, <2>2, <2>4, Zenon
  <2>6. /\ crypto_xor_sector(slot, lba, Under(r, lba, text)).text = text
        /\ crypto_xor_sector(slot, lba, Under(r, lba, text)).pads = {}
    BY <2>5, XorBack
  <2> QED
    BY <2>3, <2>4, <2>6, Zenon
<1>2. CASE superblock[0] # Magic
  <2>1. device.name = "ata0"
    BY <1>2 DEF DeviceFits
  <2>2. ThroughDevice(lba, Under(superblock, lba, text)) = Under(superblock, lba, text)
    BY <2>1, Zenon DEF ThroughDevice, blockdev_get
  <2>3. Under(superblock, lba, text) = [text |-> text, reserved |-> NoReserved, pads |-> {}]
    BY <1>2, Zenon DEF Under
  <2> QED
    BY <2>2, <2>3
<1> QED
  BY <1>1, <1>2

\* The invariant is what the property needs.
LEMMA DiskInvKept == DiskInv => SectorsKept
<1> SUFFICES ASSUME DiskInv PROVE SectorsKept
  OBVIOUS
<1>1. /\ ~misread
      /\ platter[0].text = "super" => platter[0] = Content("super", InForce)
      /\ platter[0].text = "super" => \A lba \in FileSectors \ suspect : Kept(lba, InForce)
      /\ stage = "ready" /\ 0 \notin suspect => platter[0].text = "super"
  BY DEF DiskInv, PlatterFits
<1>2. ASSUME 0 \notin suspect, stage = "ready" PROVE platter[0] = Content("super", superblock)
  BY <1>1, <1>2 DEF InForce, Mounted
<1>3. ASSUME platter[0].text = "super", NEW lba \in FileSectors \ suspect
      PROVE  Right(lba, AtNextBoot(lba))
  <2>1. PICK r : r = platter[0].reserved
    OBVIOUS
  <2>2. r = InForce
    <3>1. platter[0] = [text |-> "super", reserved |-> InForce, pads |-> {}]
      BY <1>1, <1>3, Zenon DEF Content
    <3> QED
      BY <2>1, <3>1
  <2>3. Kept(lba, r)
    BY <1>1, <1>3, <2>2, Zenon
  <2>4. CASE "unknown" \in last[lba]
    BY <2>4 DEF Right
  <2>5. ASSUME NEW t \in last[lba], platter[lba] = Under(r, lba, t)
        PROVE  Right(lba, AtNextBoot(lba))
    <3>1. CASE r[0] = Magic
      <4>1. PICK slot : slot = [key |-> SeedOf(r), nonce |-> NonceOf(r)]
        OBVIOUS
      <4>2. slot.key = SeedOf(r) /\ slot.nonce = NonceOf(r)
        BY <4>1
      <4>3. AtNextBoot(lba) = crypto_xor_sector(slot, lba, Under(r, lba, t))
        BY <2>1, <2>5, <3>1, <4>1, Zenon DEF AtNextBoot
      <4>5. /\ crypto_xor_sector(slot, lba, Under(r, lba, t)).text = t
            /\ crypto_xor_sector(slot, lba, Under(r, lba, t)).pads = {}
        BY <3>1, <4>2, XorBack
      <4>4. AtNextBoot(lba).text = t /\ AtNextBoot(lba).pads = {}
        BY <4>3, <4>5, Zenon
      <4> QED
        BY <2>5, <4>4, Zenon DEF Right
    <3>2. CASE r[0] # Magic
      <4>1. AtNextBoot(lba) = Under(r, lba, t)
        BY <2>1, <2>5, <3>2, Zenon DEF AtNextBoot
      <4>2. Under(r, lba, t) = [text |-> t, reserved |-> NoReserved, pads |-> {}]
        BY <3>2, Zenon DEF Under
      <4>3. AtNextBoot(lba).text = t /\ AtNextBoot(lba).pads = {}
        BY <4>1, <4>2
      <4> QED
        BY <2>5, <4>3, Zenon DEF Right
    <3> QED
      BY <3>1, <3>2
  <2> QED
    BY <2>3, <2>4, <2>5, Zenon DEF Kept
<1> QED
  BY <1>1, <1>2, <1>3, Zenon DEF SectorsKept

-----------------------------------------------------------------------------
(* A call *)

Midway == {"high", "command", "drq", "data", "busy", "status"}
\* Caller c has gone on to another place of its call, and the other one has not.
Goes(c, at) ==
    /\ CallShape'
    /\ call'[c].at = at /\ call'[c].cut = call[c].cut /\ call'[c].ok = call[c].ok
    /\ call'[c].does.op = call[c].does.op /\ call'[c].does.lba = call[c].does.lba
    /\ call[c].does.op = "write" => call'[c].does.data = call[c].does.data
    /\ \A d \in Callers \ {c} : call'[d] = call[d]
Acts(c) == /\ stage # "off" /\ call[c].at # "out"
           /\ c = "irq" \/ call["irq"].at = "out"

\* What CallGoes() does to the record of the call.
LEMMA GoesTo ==
    ASSUME CallShape, NEW c \in Callers, NEW at \in Midway, CallGoes(c, at)
    PROVE  Goes(c, at) /\ call'[c].does = call[c].does
<1>1. DOMAIN call = Callers /\ DOMAIN call[c] = {"at", "ok", "cut", "does"}
  BY DEF CallShape
<1>2. call' = [call EXCEPT ![c] = [call[c] EXCEPT !.at = at]]
  BY DEF CallGoes
<1>3. PICK r : r = [call[c] EXCEPT !.at = at]
  OBVIOUS
<1>4. /\ DOMAIN r = {"at", "ok", "cut", "does"} /\ r.at = at /\ r.cut = call[c].cut
      /\ r.ok = call[c].ok /\ r.does = call[c].does
  BY <1>1, <1>3
<1>5. DOMAIN call' = Callers /\ call'[c] = r /\ \A d \in Callers \ {c} : call'[d] = call[d]
  BY <1>1, <1>2, <1>3
<1>6. CallShape'
  BY <1>4, <1>5 DEF CallShape, Midway
<1> QED
  BY <1>4, <1>5, <1>6 DEF Goes

\* A call goes on: who calls stays as it was.
LEMMA CallsGoOn ==
    ASSUME DiskInv, UNCHANGED memoryVars, NEW c \in Callers, Acts(c), NEW at \in Midway, Goes(c, at)
    PROVE  CallsFit'
<1>1. UNCHANGED <<stage, superblock>>
  BY DEF memoryVars
<1>2. CallsFit
  BY DEF DiskInv
<1>3. at \notin {"out", "low", "returned"}
  BY DEF Midway
<1>4. ASSUME NEW d \in Callers
      PROVE  /\ call'[d].at = "out" => call'[d].does.op = "none"
             /\ call'[d].at # "out" => call'[d].does.op \in {"read", "write"}
             /\ WriteFits(call[d].does)'
  <2>1. /\ call[d].at = "out" => call[d].does.op = "none"
        /\ call[d].at # "out" => call[d].does.op \in {"read", "write"}
        /\ WriteFits(call[d].does)
    BY <1>2 DEF CallsFit
  <2>2. CASE d = c
    BY <1>1, <1>3, <2>1, <2>2 DEF Goes, Acts, WriteFits
  <2>3. CASE d # c
    BY <1>1, <2>1, <2>3 DEF Goes, WriteFits
  <2> QED
    BY <2>2, <2>3
<1>5. CASE c = "main"
  <2>1. call'["irq"] = call["irq"] /\ call["irq"].at = "out"
    BY <1>5 DEF Goes, Acts, Callers
  <2>2. /\ call'["main"].at = at /\ call'["main"].cut = call["main"].cut
        /\ call'["main"].does.op = call["main"].does.op
        /\ call'["main"].does.lba = call["main"].does.lba
        /\ call["main"].at # "out"
    BY <1>5 DEF Goes, Acts
  <2> QED
    BY <1>1, <1>2, <1>3, <1>4, <2>1, <2>2 DEF CallsFit
<1>6. CASE c = "irq"
  <2>1. call'["main"] = call["main"]
    BY <1>6 DEF Goes, Callers
  <2>2. call'["irq"].at = at /\ call'["irq"].cut = call["irq"].cut /\ call["irq"].at # "out"
    BY <1>6 DEF Goes, Acts
  <2> QED
    BY <1>1, <1>2, <1>3, <1>4, <2>1, <2>2 DEF CallsFit
<1> QED
  BY <1>5, <1>6 DEF Callers

\* Only the call that goes on has to be looked at.
LEMMA FollowsOne ==
    ASSUME DiskInv, NEW c \in Callers, Acts(c), \A d \in Callers \ {c} : call'[d] = call[d],
           ~call'[c].cut => Follows(c)'
    PROVE  CallsFollow'
<1> SUFFICES ASSUME NEW d \in Callers, InControl(d)' PROVE Follows(d)'
  BY DEF CallsFollow
<1>1. CASE d = c
  BY <1>1 DEF InControl
<1>2. CASE d # c
  <2>1. call'[d] = call[d]
    BY <1>2
  <2>2. call[d].at \in {"out", "low"}
    <3>1. CASE d = "irq"
      BY <1>2, <3>1 DEF Callers, Acts
    <3>2. CASE d = "main"
      <4>1. c = "irq" /\ call["irq"].at # "out" /\ ~call["main"].cut
        BY <1>2, <2>1, <3>2 DEF Callers, Acts, InControl
      <4> QED
        BY <3>2, <4>1 DEF DiskInv, CallsFit
    <3> QED
      BY <3>1, <3>2 DEF Callers
  <2> QED
    BY <2>1, <2>2 DEF Follows
<1> QED
  BY <1>1, <1>2

\* The parts that a step leaves alone.
LEMMA DeviceStays == DeviceFits /\ UNCHANGED memoryVars => DeviceFits'
BY DEF DeviceFits, memoryVars
\* The same for what the drive is storing.
LEMMA StoreStays ==
    StoreFits /\ UNCHANGED memoryVars /\ UNCHANGED drive /\ UNCHANGED pastVars => StoreFits'
BY DEF StoreFits, memoryVars, pastVars, Busy, HasData, Mounted
\* The same for what is on the disk.
LEMMA PlatterStays ==
    PlatterFits /\ UNCHANGED memoryVars /\ UNCHANGED platter /\ UNCHANGED pastVars => PlatterFits'
BY DEF PlatterFits, memoryVars, pastVars, Mounted, InForce, Kept
\* The same for the drive at boot.
LEMMA QuietStays == BootQuiet /\ UNCHANGED memoryVars /\ UNCHANGED drive => BootQuiet'
BY DEF BootQuiet, memoryVars, HasData
\* The same for the types.
LEMMA ShapeStays ==
    DiskShape /\ CallShape' /\ DriveShape' /\ UNCHANGED memoryVars /\ UNCHANGED platter
              /\ DOMAIN last' = DOMAIN last => DiskShape'
BY DEF DiskShape, memoryVars

-----------------------------------------------------------------------------
(* ata_select() *)

\* The low half of the address; a call that was cut into is not here.
LEMMA SelectLowKeeps ==
    ASSUME DiskInv, NEW c \in Callers, SelectLow(c)
    PROVE  DiskInv'
<1>1. /\ Acts(c) /\ call[c].at = "low" /\ ~Busy /\ CallGoes(c, "high")
      /\ regs' = [regs EXCEPT !.low = call[c].does.lba % 2]
      /\ UNCHANGED memoryVars /\ UNCHANGED <<drive, platter>> /\ UNCHANGED pastVars
  BY DEF SelectLow, CallAt, Acts, CallUnchanged
<1>2. CallShape /\ DriveShape /\ call[c].does.lba \in Sectors
  BY DEF DiskInv, DiskShape, CallShape
<1>3. Goes(c, "high") /\ call'[c].does = call[c].does
  BY <1>1, <1>2, GoesTo DEF Midway
<1>4. PICK low \in {0, 1} : low = call[c].does.lba % 2
  BY <1>2, AddressOf
<1>5. regs'.low = low /\ regs'.high = regs.high /\ DriveShape'
  <2>1. regs' = [regs EXCEPT !.low = low]
    BY <1>1, <1>4, Zenon
  <2> QED
    BY <1>1, <1>2, <2>1 DEF DriveShape
<1>6. CallsFit'
  BY <1>1, <1>3, CallsGoOn DEF Midway
<1>7. Follows(c)'
  BY <1>1, <1>3, <1>4, <1>5 DEF Goes, Follows, Busy
<1>8. CallsFollow'
  BY <1>1, <1>3, <1>7, FollowsOne DEF Goes
<1>9. CutFits'
  <2>1. CASE c = "main"
    <3>1. ~call["main"].cut
      BY <1>1, <2>1 DEF DiskInv, CallsFit
    <3> QED
      BY <1>3, <2>1, <3>1 DEF Goes, CutFits
  <2>2. CASE c = "irq"
    <3>1. /\ call'["main"] = call["main"] /\ call'["irq"].at = "high"
          /\ call'["irq"].does = call["irq"].does /\ call["irq"].at = "low"
      BY <1>1, <1>3, <2>2 DEF Goes, Callers
    <3>2. CutFits /\ UNCHANGED suspect
      BY <1>1 DEF DiskInv, pastVars
    <3> QED
      BY <3>1, <3>2 DEF CutFits, GoesOnWith
  <2> QED
    BY <2>1, <2>2 DEF Callers
<1> QED
  BY <1>1, <1>3, <1>5, <1>6, <1>8, <1>9, DeviceStays, StoreStays, PlatterStays, QuietStays,
     ShapeStays DEF DiskInv, Goes, pastVars

\* The high half; a call that was cut into makes a mixed address.
LEMMA SelectHighKeeps ==
    ASSUME DiskInv, NEW c \in Callers, SelectHigh(c)
    PROVE  DiskInv'
<1>1. /\ Acts(c) /\ call[c].at = "high" /\ CallGoes(c, "command")
      /\ regs' = IF Busy THEN regs ELSE [regs EXCEPT !.high = call[c].does.lba \div 2]
      /\ UNCHANGED memoryVars /\ UNCHANGED <<drive, platter>> /\ UNCHANGED pastVars
  BY DEF SelectHigh, CallAt, Acts, CallUnchanged
<1>2. CallShape /\ DriveShape /\ call[c].does.lba \in Sectors
  BY DEF DiskInv, DiskShape, CallShape
<1>3. Goes(c, "command") /\ call'[c].does = call[c].does
  BY <1>1, <1>2, GoesTo DEF Midway
<1>4. PICK high \in {0, 1} : high = call[c].does.lba \div 2
  BY <1>2, AddressOf
<1>5. /\ regs'.low = regs.low /\ regs'.high = IF Busy THEN regs.high ELSE high
      /\ DriveShape'
  <2>1. regs' = IF Busy THEN regs ELSE [regs EXCEPT !.high = high]
    BY <1>1, <1>4, Zenon
  <2> QED
    BY <1>1, <1>2, <2>1 DEF DriveShape
<1>6. CallsFit'
  BY <1>1, <1>3, CallsGoOn DEF Midway
<1>7. ASSUME ~call'[c].cut PROVE Follows(c)'
  <2>1. Follows(c)
    BY <1>1, <1>3, <1>7 DEF DiskInv, CallsFollow, InControl, Acts, Goes
  <2>2. ~Busy /\ regs.low = call[c].does.lba % 2
    BY <1>1, <2>1 DEF Follows
  <2> QED
    BY <1>1, <1>3, <1>4, <1>5, <2>2, Zenon DEF Goes, Follows, Busy
<1>8. CallsFollow'
  BY <1>1, <1>3, <1>7, FollowsOne DEF Goes
<1>9. CutFits'
  <2>0. CutFits /\ UNCHANGED suspect
    BY <1>1 DEF DiskInv, pastVars
  <2>1. CASE c = "main"
    <3> SUFFICES ASSUME call'["main"].cut PROVE CutFits'
      BY DEF CutFits
    <3>1. /\ call["main"].cut /\ call["irq"].at = "out" /\ call'["irq"] = call["irq"]
          /\ call'["main"].at = "command" /\ call["main"].at = "high"
          /\ call'["main"].does = call["main"].does
      BY <1>1, <1>3, <2>1 DEF Goes, Acts, Callers
    <3>2. PICK m : m = call["main"].does.lba
      OBVIOUS
    <3>3. /\ m \in suspect /\ 2 * regs.high + regs.low \in suspect
          /\ 2 * (m \div 2) + regs.low \in suspect
          /\ Busy => drive.does.lba \in suspect
      BY <2>0, <3>1, <3>2 DEF CutFits, GoesOnWith
    <3>4. 2 * regs'.high + regs'.low \in suspect
      <4>1. CASE Busy
        BY <1>5, <3>3, <4>1
      <4>2. CASE ~Busy
        BY <1>4, <1>5, <2>1, <3>2, <3>3, <4>2
      <4> QED
        BY <4>1, <4>2
    <3>5. 2 * (m \div 2) + regs'.low \in suspect
      BY <1>5, <3>3
    <3>6. call'["main"].does.lba = m
      BY <3>1, <3>2
    <3> QED
      BY <1>1, <2>0, <3>1, <3>3, <3>4, <3>5, <3>6, Zenon DEF CutFits, Busy
  <2>2. CASE c = "irq"
    <3>1. /\ call'["main"] = call["main"] /\ call'["irq"].at = "command"
          /\ call'["irq"].does = call["irq"].does /\ call["irq"].at = "high"
      BY <1>1, <1>3, <2>2 DEF Goes, Callers
    <3> QED
      BY <2>0, <3>1 DEF CutFits, GoesOnWith
  <2> QED
    BY <2>1, <2>2 DEF Callers
<1> QED
  BY <1>1, <1>3, <1>5, <1>6, <1>8, <1>9, DeviceStays, StoreStays, PlatterStays, QuietStays,
     ShapeStays DEF DiskInv, Goes, pastVars

-----------------------------------------------------------------------------
(* A call that ends *)

Leaves(c, ok) ==
    /\ CallShape'
    /\ stage = "ready" => call'[c] = NoCall
    /\ stage # "ready" => /\ call'[c].at = "returned" /\ call'[c].ok = ok
                          /\ call'[c].cut = call[c].cut /\ call'[c].does = call[c].does
    /\ \A d \in Callers \ {c} : call'[d] = call[d]

\* What Returned() does to the record of the call.
LEMMA LeavesTo ==
    ASSUME CallShape, NEW c \in Callers, NEW ok, call' = Returned(c, ok)
    PROVE  Leaves(c, ok)
<1>1. DOMAIN call = Callers /\ DOMAIN call[c] = {"at", "ok", "cut", "does"}
  BY DEF CallShape
<1>2. PICK r : r = IF stage = "ready" THEN NoCall
                   ELSE [call[c] EXCEPT !.at = "returned", !.ok = ok]
  OBVIOUS
<1>3. call' = [call EXCEPT ![c] = r]
  BY <1>2 DEF Returned
<1>4. DOMAIN call' = Callers /\ call'[c] = r /\ \A d \in Callers \ {c} : call'[d] = call[d]
  BY <1>1, <1>3
<1>5. CASE stage = "ready"
  <2>1. r = [at |-> "out", ok |-> FALSE, cut |-> FALSE, does |-> Nowhere]
    BY <1>2, <1>5 DEF NoCall
  <2>2. DOMAIN Nowhere = {"op", "lba", "data"} /\ Nowhere.lba = 0 /\ 0 \in Sectors
    BY DEF Nowhere, Sectors
  <2>3. /\ DOMAIN r = {"at", "ok", "cut", "does"} /\ r.at = "out"
        /\ DOMAIN r.does = {"op", "lba", "data"} /\ r.does.lba \in Sectors
    BY <2>1, <2>2
  <2>4. CallShape'
    BY <1>4, <2>3 DEF CallShape
  <2> QED
    BY <1>2, <1>4, <1>5, <2>4 DEF Leaves
<1>6. CASE stage # "ready"
  <2>1. r = [call[c] EXCEPT !.at = "returned", !.ok = ok]
    BY <1>2, <1>6
  <2>2. /\ DOMAIN r = {"at", "ok", "cut", "does"} /\ r.at = "returned" /\ r.ok = ok
        /\ r.cut = call[c].cut /\ r.does = call[c].does
    BY <1>1, <2>1
  <2>3. CallShape'
    BY <1>4, <2>2 DEF CallShape
  <2> QED
    BY <1>4, <1>6, <2>2, <2>3 DEF Leaves
<1> QED
  BY <1>5, <1>6

\* The fields of no call.
LEMMA NoCallIs ==
    NoCall.at = "out" /\ NoCall.cut = FALSE /\ NoCall.does.op = "none" /\ NoCall.does.lba = 0
BY DEF NoCall, Nowhere

\* A call ends: who calls.
LEMMA CallsLeave ==
    ASSUME DiskInv, UNCHANGED memoryVars, NEW c \in Callers, Acts(c), NEW ok, Leaves(c, ok),
           stage = "probe" => ok
    PROVE  CallsFit'
<1>1. UNCHANGED <<stage, superblock>>
  BY DEF memoryVars
<1>2. CallsFit
  BY DEF DiskInv
<1>4. ASSUME NEW d \in Callers
      PROVE  /\ call'[d].at = "out" => call'[d].does.op = "none"
             /\ call'[d].at # "out" => call'[d].does.op \in {"read", "write"}
             /\ WriteFits(call[d].does)'
  <2>1. /\ call[d].at = "out" => call[d].does.op = "none"
        /\ call[d].at # "out" => call[d].does.op \in {"read", "write"}
        /\ WriteFits(call[d].does)
    BY <1>2 DEF CallsFit
  <2>2. CASE d = c /\ stage = "ready"
    <3>1. call'[d].at = "out" /\ call'[d].does.op = "none"
      BY <2>2, NoCallIs DEF Leaves
    <3> QED
      BY <3>1 DEF WriteFits
  <2>3. CASE d = c /\ stage # "ready"
    BY <1>1, <2>1, <2>3 DEF Leaves, Acts, WriteFits
  <2>4. CASE d # c
    BY <1>1, <2>1, <2>4 DEF Leaves, WriteFits
  <2> QED
    BY <2>2, <2>3, <2>4
<1>5. CASE c = "main"
  <2>1. call'["irq"] = call["irq"] /\ call["irq"].at = "out" /\ call["main"].at # "out"
    BY <1>5 DEF Leaves, Acts, Callers
  <2>2. CASE stage = "ready"
    <3>1. call'["main"].at = "out" /\ ~call'["main"].cut
      BY <1>5, <2>2, NoCallIs DEF Leaves
    <3> QED
      BY <1>1, <1>2, <1>4, <2>1, <2>2, <3>1 DEF CallsFit
  <2>3. CASE stage # "ready"
    <3>1. /\ call'["main"].at = "returned" /\ call'["main"].ok = ok
          /\ call'["main"].cut = call["main"].cut /\ call'["main"].does = call["main"].does
      BY <1>5, <2>3 DEF Leaves
    <3> QED
      BY <1>1, <1>2, <1>4, <2>1, <2>3, <3>1 DEF CallsFit
  <2> QED
    BY <2>2, <2>3
<1>6. CASE c = "irq"
  <2>1. call'["main"] = call["main"] /\ stage = "ready"
    BY <1>2, <1>6 DEF Leaves, Callers, Acts, CallsFit
  <2>2. call'["irq"].at = "out" /\ ~call'["irq"].cut
    BY <1>6, <2>1, NoCallIs DEF Leaves
  <2> QED
    BY <1>1, <1>2, <1>4, <2>1, <2>2 DEF CallsFit
<1> QED
  BY <1>5, <1>6 DEF Callers

\* The call that was cut into finds what the other one has left.
LEMMA CutLeaves ==
    ASSUME DiskInv, NEW c \in Callers, Acts(c), NEW ok, Leaves(c, ok), c = "irq" => GoesOnWith,
           UNCHANGED <<regs, drive>>, UNCHANGED suspect
    PROVE  CutFits'
<1>1. CASE c = "main"
  <2>1. ~call'["main"].cut
    BY <1>1, NoCallIs DEF Leaves, DiskInv, CallsFit
  <2> QED
    BY <2>1 DEF CutFits
<1>2. CASE c = "irq"
  <2>1. call'["main"] = call["main"] /\ stage = "ready"
    BY <1>2 DEF Leaves, Callers, Acts, CallsFit, DiskInv
  <2>2. call'["irq"].at = "out"
    BY <1>2, <2>1, NoCallIs DEF Leaves
  <2>3. CutFits /\ GoesOnWith
    BY <1>2 DEF DiskInv
  <2> QED
    BY <2>1, <2>2, <2>3 DEF CutFits, Busy
<1> QED
  BY <1>1, <1>2 DEF Callers

\* A call that fails, with nothing changed on the way.
LEMMA FailureKeeps ==
    ASSUME DiskInv, NEW c \in Callers, Acts(c), call' = Returned(c, FALSE), stage # "probe",
           c = "irq" => GoesOnWith, UNCHANGED memoryVars, UNCHANGED driveVars, UNCHANGED pastVars
    PROVE  DiskInv'
<1>1. CallShape /\ DriveShape
  BY DEF DiskInv, DiskShape
<1>2. Leaves(c, FALSE)
  BY <1>1, LeavesTo
<1>3. CallsFit'
  BY <1>2, CallsLeave
<1>4. UNCHANGED <<regs, drive>> /\ UNCHANGED platter /\ UNCHANGED suspect
  BY DEF driveVars, pastVars
<1>5. CutFits'
  BY <1>2, <1>4, CutLeaves
<1>6. Follows(c)'
  <2>1. CASE stage = "ready"
    <3>1. call'[c].at = "out"
      BY <1>2, <2>1, NoCallIs DEF Leaves
    <3> QED
      BY <3>1 DEF Follows
  <2>2. CASE stage # "ready"
    <3>1. call'[c].at = "returned" /\ ~call'[c].ok
      BY <1>2, <2>2 DEF Leaves
    <3> QED
      BY <3>1 DEF Follows
  <2> QED
    BY <2>1, <2>2
<1>7. CallsFollow'
  BY <1>2, <1>6, FollowsOne DEF Leaves
<1>8. DriveShape'
  BY <1>1, <1>4 DEF DriveShape
<1> QED
  BY <1>2, <1>3, <1>4, <1>5, <1>7, <1>8, DeviceStays, StoreStays, PlatterStays, QuietStays,
     ShapeStays DEF DiskInv, Leaves, pastVars

\* A wait that ends too early leaves the drive at its work.
LEMMA TimesOutKeeps ==
    ASSUME DiskInv, ~SuperReadMayFail, NEW c \in Callers, TimesOut(c)
    PROVE  DiskInv'
<1>1. /\ Acts(c) /\ stage # "probe" /\ call' = Returned(c, FALSE)
      /\ call[c].at \in {"drq", "busy"} \/ (call[c].at = "low" /\ Busy)
      /\ UNCHANGED memoryVars /\ UNCHANGED driveVars /\ UNCHANGED pastVars
  BY DEF TimesOut, CallAt, Acts, CallUnchanged
<1>2. c = "irq" => GoesOnWith
  BY <1>1 DEF GoesOnWith
<1> QED
  BY <1>1, <1>2, FailureKeeps

-----------------------------------------------------------------------------
(* Command and data *)

\* The command, for the address in the registers.
LEMMA IssueCommandKeeps ==
    ASSUME DiskInv, NEW c \in Callers, IssueCommand(c)
    PROVE  DiskInv'
<1>1. /\ Acts(c) /\ call[c].at = "command" /\ CallGoes(c, "drq")
      /\ drive' = IF Busy THEN drive
                  ELSE [state |-> "busy",
                        does |-> [Nowhere EXCEPT !.op = call[c].does.op,
                                                 !.lba = 2 * regs.high + regs.low]]
      /\ UNCHANGED memoryVars /\ UNCHANGED <<regs, platter>> /\ UNCHANGED pastVars
  BY DEF IssueCommand, CallAt, Acts, CallUnchanged
<1>2. CallShape /\ DriveShape /\ call[c].does.lba \in Sectors
  BY DEF DiskInv, DiskShape, CallShape
<1>3. Goes(c, "drq") /\ call'[c].does = call[c].does
  BY <1>1, <1>2, GoesTo DEF Midway
<1>4. PICK a \in Sectors : a = 2 * regs.high + regs.low
  BY <1>2, AddressIn DEF DriveShape
<1>5. /\ Busy => drive' = drive
      /\ ~Busy => /\ DOMAIN drive' = {"state", "does"} /\ drive'.state = "busy"
                  /\ DOMAIN drive'.does = {"op", "lba", "data"}
                  /\ drive'.does.op = call[c].does.op /\ drive'.does.lba = a
                  /\ drive'.does.data.text = "unknown"
  <2>1. CASE Busy
    BY <1>1, <2>1
  <2>2. CASE ~Busy
    <3>1. PICK w : w = [Nowhere EXCEPT !.op = call[c].does.op, !.lba = a]
      OBVIOUS
    <3>2. drive' = [state |-> "busy", does |-> w]
      BY <1>1, <1>4, <2>2, <3>1, Zenon
    <3>3. Nowhere = [op |-> "none", lba |-> 0, data |-> Plain("unknown")]
      BY DEF Nowhere
    <3>4. w = [op |-> call[c].does.op, lba |-> a, data |-> Plain("unknown")]
      BY <3>1, <3>3
    <3>5. Plain("unknown").text = "unknown"
      BY DEF Plain, Content
    <3> QED
      BY <2>2, <3>2, <3>4, <3>5
  <2> QED
    BY <2>1, <2>2
<1>6. DriveShape'
  BY <1>1, <1>2, <1>5 DEF DriveShape
<1>7. CallsFit'
  BY <1>1, <1>3, CallsGoOn DEF Midway
<1>8. ASSUME ~call'[c].cut PROVE Follows(c)' /\ ~Busy /\ a = call[c].does.lba /\ Follows(c)
  <2>1. Follows(c)
    BY <1>1, <1>3, <1>8 DEF DiskInv, CallsFollow, InControl, Acts, Goes
  <2>2. ~Busy /\ regs.low = call[c].does.lba % 2 /\ regs.high = call[c].does.lba \div 2
    BY <1>1, <2>1 DEF Follows
  <2>3. a = call[c].does.lba
    BY <1>2, <1>4, <2>2, AddressOf
  <2> QED
    BY <1>1, <1>3, <1>5, <2>1, <2>2, <2>3 DEF Goes, Follows, Doing
<1>9. CallsFollow'
  BY <1>1, <1>3, <1>8, FollowsOne DEF Goes
<1>10. BootQuiet'
  <2>1. BootQuiet /\ stage # "off" /\ UNCHANGED stage
    BY <1>1 DEF DiskInv, Acts, memoryVars
  <2> QED
    BY <1>5, <2>1 DEF BootQuiet, HasData
<1>11. StoreFits'
  <2>1. CASE Busy
    BY <1>1, <1>5, <2>1, StoreStays DEF DiskInv
  <2>2. CASE ~Busy
    BY <1>5, <2>2 DEF StoreFits, HasData
  <2> QED
    BY <2>1, <2>2
<1>12. CutFits'
  <2>0. CutFits /\ UNCHANGED suspect /\ UNCHANGED regs
    BY <1>1 DEF DiskInv, pastVars
  <2> SUFFICES ASSUME call'["main"].cut PROVE CutFits'
    BY DEF CutFits
  <2>1. CASE c = "main"
    <3>1. /\ call["main"].cut /\ call["irq"].at = "out" /\ call'["irq"] = call["irq"]
          /\ call'["main"].at = "drq" /\ call["main"].at = "command"
          /\ call'["main"].does = call["main"].does
      BY <1>1, <1>3, <2>1 DEF Goes, Acts, Callers
    <3>2. call["main"].does.lba \in suspect /\ a \in suspect /\ (Busy => drive.does.lba \in suspect)
      BY <1>4, <2>0, <3>1 DEF CutFits, GoesOnWith
    <3>3. drive'.does.lba \in suspect
      BY <1>5, <3>2
    <3> QED
      BY <2>0, <3>1, <3>2, <3>3 DEF CutFits
  <2>2. CASE c = "irq"
    <3>1. /\ call'["main"] = call["main"] /\ call["main"].cut /\ ~call'["irq"].cut
          /\ call'["irq"].does = call["irq"].does /\ call["irq"].at = "command"
      BY <1>1, <1>3, <1>7, <2>2 DEF Goes, Callers, CallsFit
    <3>2. ~Busy /\ a = call["irq"].does.lba /\ Follows("irq")
      BY <1>8, <2>2, <3>1
    <3>3. PICK m \in Sectors : m = call["main"].does.lba
      BY <1>2 DEF CallShape, Callers
    <3>4. Mixed(a, m) \subseteq suspect /\ m \in suspect
      BY <2>0, <3>1, <3>2, <3>3 DEF CutFits
    <3>5. a \in suspect /\ 2 * (m \div 2) + (a % 2) \in suspect
      BY <3>4, MixedHas
    <3>6. regs.low = a % 2
      BY <3>1, <3>2 DEF Follows
    <3>7. 2 * regs'.high + regs'.low \in suspect /\ 2 * (m \div 2) + regs'.low \in suspect
      <4>1. regs' = regs
        BY <2>0
      <4> QED
        BY <1>4, <3>5, <3>6, <4>1, Zenon
    <3>8. drive'.does.lba \in suspect
      BY <1>5, <3>2, <3>5
    <3>9. /\ call'["main"].does.lba = m /\ call'["irq"].does.lba = a
      BY <3>1, <3>2, <3>3
    <3> QED
      BY <2>0, <3>4, <3>7, <3>8, <3>9, Zenon DEF CutFits
  <2> QED
    BY <2>1, <2>2 DEF Callers
<1> QED
  BY <1>1, <1>3, <1>6, <1>7, <1>9, <1>10, <1>11, <1>12, DeviceStays, PlatterStays, ShapeStays
     DEF DiskInv, Goes, pastVars

\* The drive is ready for the data, or has failed.
LEMMA WaitDrqKeeps ==
    ASSUME DiskInv, NEW c \in Callers, ata_wait_drq(c)
    PROVE  DiskInv'
<1>1. /\ Acts(c) /\ call[c].at = "drq" /\ drive.state \in {"drq", "error"}
      /\ drive.state = "drq" => CallGoes(c, "data")
      /\ drive.state = "error" => call' = Returned(c, FALSE)
      /\ UNCHANGED memoryVars /\ UNCHANGED driveVars /\ UNCHANGED pastVars
  BY DEF ata_wait_drq, CallAt, Acts, CallUnchanged
<1>2. CallShape /\ DriveShape
  BY DEF DiskInv, DiskShape
<1>3. CASE drive.state = "error"
  <2>1. stage # "probe"
    BY <1>3 DEF DiskInv, BootQuiet
  <2>2. GoesOnWith \/ c # "irq"
    BY <1>1 DEF GoesOnWith
  <2> QED
    BY <1>1, <1>3, <2>1, <2>2, FailureKeeps
<1>4. CASE drive.state = "drq"
  <2>1. Goes(c, "data") /\ call'[c].does = call[c].does
    BY <1>1, <1>2, <1>4, GoesTo DEF Midway
  <2>2. CallsFit'
    BY <1>1, <2>1, CallsGoOn DEF Midway
  <2>3. UNCHANGED regs /\ UNCHANGED drive /\ UNCHANGED platter /\ UNCHANGED suspect
    BY <1>1 DEF driveVars, pastVars
  <2>4. ASSUME ~call'[c].cut PROVE Follows(c)'
    <3>1. Follows(c)
      BY <1>1, <2>1, <2>4 DEF DiskInv, CallsFollow, InControl, Acts, Goes
    <3> QED
      BY <1>1, <1>4, <2>1, <2>3, <3>1 DEF Goes, Follows, Doing
  <2>5. CallsFollow'
    BY <1>1, <2>1, <2>4, FollowsOne DEF Goes
  <2>6. CutFits'
    <3>0. CutFits
      BY DEF DiskInv
    <3>1. CASE c = "main"
      <4>1. /\ call'["main"].cut = call["main"].cut /\ call'["irq"] = call["irq"]
            /\ call["irq"].at = "out" /\ call'["main"].at = "data" /\ call["main"].at = "drq"
            /\ call'["main"].does = call["main"].does
        BY <1>1, <2>1, <3>1 DEF Goes, Acts, Callers
      <4> QED
        BY <2>3, <3>0, <4>1 DEF CutFits, GoesOnWith
    <3>2. CASE c = "irq"
      <4>1. /\ call'["main"] = call["main"] /\ call["irq"].at = "drq"
            /\ call'["irq"].does = call["irq"].does
        BY <1>1, <2>1, <3>2 DEF Goes, Callers
      <4> QED
        BY <2>3, <3>0, <4>1 DEF CutFits, GoesOnWith, Busy
    <3> QED
      BY <3>1, <3>2 DEF Callers
  <2>7. DriveShape'
    BY <1>2, <2>3 DEF DriveShape
  <2> QED
    BY <1>1, <2>1, <2>2, <2>3, <2>5, <2>6, <2>7, DeviceStays, StoreStays, PlatterStays,
       QuietStays, ShapeStays DEF DiskInv, Goes, pastVars
<1> QED
  BY <1>1, <1>3, <1>4

\* Another caller's step that leaves the drive at rest does no harm to the one that
\* was cut into.
LEMMA CutRests ==
    ASSUME DiskInv, NEW c \in Callers, Acts(c), NEW at \in {"busy", "status"}, Goes(c, at),
           c = "irq" => GoesOnWith, UNCHANGED regs, UNCHANGED suspect,
           drive' = drive \/ drive'.state \in {"idle", "error"}
    PROVE  CutFits'
<1>0. CutFits
  BY DEF DiskInv
<1>1. CASE c = "main"
  <2>1. /\ call'["main"].cut = call["main"].cut /\ call'["irq"] = call["irq"]
        /\ call["irq"].at = "out" /\ call'["main"].at = at
        /\ call'["main"].does.lba = call["main"].does.lba
    BY <1>1 DEF Goes, Acts, Callers
  <2> QED
    BY <1>0, <2>1 DEF CutFits
<1>2. CASE c = "irq"
  <2>1. /\ call'["main"] = call["main"] /\ call["irq"].at # "out"
        /\ call'["irq"].does.lba = call["irq"].does.lba
    BY <1>2 DEF Goes, Callers, Acts
  <2>2. GoesOnWith
    BY <1>2
  <2>3. CASE drive' = drive
    BY <1>0, <2>1, <2>2, <2>3 DEF CutFits, Busy
  <2>4. CASE drive'.state \in {"idle", "error"}
    BY <1>0, <2>1, <2>2, <2>4 DEF CutFits, Busy
  <2> QED
    BY <2>3, <2>4
<1> QED
  BY <1>1, <1>2 DEF Callers

\* The drive at rest, and with an error.
LEMMA IdleIs ==
    /\ IdleDrive.state = "idle" /\ IdleDrive.does.op = "none" /\ IdleDrive.does.lba = 0
    /\ DOMAIN IdleDrive = {"state", "does"} /\ DOMAIN IdleDrive.does = {"op", "lba", "data"}
BY DEF IdleDrive, Nowhere
\* The drive after an error.
LEMMA ErrorIs ==
    LET d == [IdleDrive EXCEPT !.state = "error"] IN
    /\ d.state = "error" /\ d.does.op = "none" /\ d.does.lba = 0
    /\ DOMAIN d = {"state", "does"} /\ DOMAIN d.does = {"op", "lba", "data"}
BY DEF IdleDrive, Nowhere

\* The data of a sector is read.
LEMMA ReadDataKeeps ==
    ASSUME DiskInv, ~SuperReadMayFail, NEW c \in Callers, ReadData(c)
    PROVE  DiskInv'
<1>1. PICK data : data = IF Transfers(c) THEN platter[drive.does.lba] ELSE Plain("garbage")
  OBVIOUS
<1>2. /\ Acts(c) /\ call[c].at = "data" /\ call[c].does.op = "read"
      /\ call' = [call EXCEPT ![c].at = "status", ![c].does.data = data]
      /\ ~Transfers(c) => drive' = drive
      /\ Transfers(c) => \/ drive' = IdleDrive
                         \/ drive' = [IdleDrive EXCEPT !.state = "error"] /\ stage # "probe"
      /\ UNCHANGED memoryVars /\ UNCHANGED <<regs, platter>> /\ UNCHANGED pastVars
  BY <1>1, Zenon DEF ReadData, CallAt, Acts, Errs
<1>3. CallShape /\ DriveShape
  BY DEF DiskInv, DiskShape
<1>4. /\ Goes(c, "status") /\ call'[c].does.data = data
  <2>1. DOMAIN call = Callers /\ DOMAIN call[c] = {"at", "ok", "cut", "does"}
        /\ DOMAIN call[c].does = {"op", "lba", "data"}
    BY <1>3 DEF CallShape
  <2>2. PICK w : w = [call[c].does EXCEPT !.data = data]
    OBVIOUS
  <2>3. /\ DOMAIN w = {"op", "lba", "data"} /\ w.op = call[c].does.op /\ w.lba = call[c].does.lba
        /\ w.data = data
    BY <2>1, <2>2
  <2>4. PICK r : r = [call[c] EXCEPT !.at = "status", !.does = w]
    OBVIOUS
  <2>5. /\ DOMAIN r = {"at", "ok", "cut", "does"} /\ r.at = "status" /\ r.cut = call[c].cut
        /\ r.ok = call[c].ok /\ r.does = w
    BY <2>1, <2>4
  <2>6. call' = [call EXCEPT ![c] = r]
    BY <1>2, <2>1, <2>2, <2>4
  <2>7. DOMAIN call' = Callers /\ call'[c] = r /\ \A d \in Callers \ {c} : call'[d] = call[d]
    BY <2>1, <2>6
  <2>8. CallShape'
    BY <1>3, <2>3, <2>5, <2>7 DEF CallShape
  <2> QED
    BY <1>2, <2>3, <2>5, <2>7, <2>8 DEF Goes
<1>5. /\ drive' = drive \/ drive'.state \in {"idle", "error"}
      /\ drive' # drive => drive'.does.op = "none"
      /\ DriveShape'
  <2>1. 0 \in Sectors
    BY DEF Sectors
  <2> QED
    BY <1>2, <1>3, <2>1, IdleIs, ErrorIs DEF DriveShape
<1>6. CallsFit'
  BY <1>2, <1>4, CallsGoOn DEF Midway
<1>7. ASSUME ~call'[c].cut PROVE Follows(c)'
  <2>1. Follows(c)
    BY <1>2, <1>4, <1>7 DEF DiskInv, CallsFollow, InControl, Acts, Goes
  <2>2. Transfers(c) /\ drive.does.lba = call[c].does.lba
    BY <1>2, <2>1 DEF Follows, Doing, Transfers
  <2>3. data = platter[call[c].does.lba]
    BY <1>1, <2>2
  <2>4. drive'.state \in {"idle", "error"}
    BY <1>2, <2>2, IdleIs, ErrorIs
  <2>5. platter'[call'[c].does.lba] = call'[c].does.data
    BY <1>2, <1>4, <2>3 DEF Goes
  <2> QED
    BY <1>4, <2>4, <2>5 DEF Goes, Follows, Busy
<1>8. CallsFollow'
  BY <1>2, <1>4, <1>7, FollowsOne DEF Goes
<1>9. CutFits'
  BY <1>2, <1>4, <1>5, CutRests DEF GoesOnWith, pastVars
<1>10. BootQuiet'
  <2>1. BootQuiet /\ stage # "off" /\ UNCHANGED stage
    BY <1>2 DEF DiskInv, Acts, memoryVars
  <2>2. CASE drive' = drive
    BY <2>1, <2>2 DEF BootQuiet, HasData
  <2>3. CASE drive' # drive
    <3>1. drive'.state = "error" => stage # "probe"
      BY <1>2, <2>3, IdleIs
    <3> QED
      BY <1>5, <2>1, <2>3, <3>1 DEF BootQuiet, HasData
  <2> QED
    BY <2>2, <2>3
<1>11. StoreFits'
  <2>1. CASE drive' = drive
    BY <1>2, <2>1, StoreStays DEF DiskInv
  <2>2. CASE drive' # drive
    BY <1>5, <2>2 DEF StoreFits, Busy
  <2> QED
    BY <2>1, <2>2
<1> QED
  BY <1>2, <1>4, <1>5, <1>6, <1>8, <1>9, <1>10, <1>11, DeviceStays, PlatterStays, ShapeStays
     DEF DiskInv, Goes, pastVars

\* The drive has stored the sector, or has failed.
LEMMA WaitNotBusyKeeps ==
    ASSUME DiskInv, NEW c \in Callers, WaitNotBusy(c)
    PROVE  DiskInv'
<1>1. /\ Acts(c) /\ call[c].at = "busy" /\ ~Busy /\ CallGoes(c, "status")
      /\ UNCHANGED memoryVars /\ UNCHANGED <<regs, drive, platter>> /\ UNCHANGED pastVars
  BY DEF WaitNotBusy, CallAt, Acts, CallUnchanged, driveVars
<1>2. CallShape /\ DriveShape
  BY DEF DiskInv, DiskShape
<1>3. Goes(c, "status") /\ call'[c].does = call[c].does
  BY <1>1, <1>2, GoesTo DEF Midway
<1>4. CallsFit'
  BY <1>1, <1>3, CallsGoOn DEF Midway
<1>5. ASSUME ~call'[c].cut PROVE Follows(c)'
  <2>1. Follows(c)
    BY <1>1, <1>3, <1>5 DEF DiskInv, CallsFollow, InControl, Acts, Goes
  <2> QED
    BY <1>1, <1>3, <2>1 DEF Goes, Follows, Busy
<1>6. CallsFollow'
  BY <1>1, <1>3, <1>5, FollowsOne DEF Goes
<1>7. CutFits'
  BY <1>1, <1>3, CutRests DEF GoesOnWith, pastVars
<1>8. DriveShape'
  BY <1>1, <1>2 DEF DriveShape
<1> QED
  BY <1>1, <1>3, <1>4, <1>6, <1>7, <1>8, DeviceStays, StoreStays, PlatterStays, QuietStays,
     ShapeStays DEF DiskInv, Goes, pastVars

\* A sector may hold more texts than before.
LEMMA MoreTexts ==
    ASSUME PlatterFits, UNCHANGED memoryVars, UNCHANGED <<platter, suspect, misread>>,
           \A lba \in FileSectors : last[lba] \subseteq last'[lba]
    PROVE  PlatterFits'
<1>1. UNCHANGED stage /\ UNCHANGED superblock
  BY DEF memoryVars
<1>2. InForce' = InForce /\ Mounted' = Mounted
  BY <1>1 DEF InForce, Mounted
<1>3. ASSUME NEW lba \in FileSectors, NEW r, Kept(lba, r) PROVE Kept(lba, r)'
  BY <1>3 DEF Kept
<1>4. ASSUME NEW lba \in FileSectors, Kept(lba, InForce) PROVE Kept(lba, InForce)'
  <2>1. PICK r : r = InForce
    OBVIOUS
  <2>2. Kept(lba, r)
    BY <1>4, <2>1
  <2>3. Kept(lba, r)'
    BY <1>3, <2>2
  <2> QED
    BY <1>2, <2>1, <2>3
<1> QED
  BY <1>1, <1>2, <1>4 DEF PlatterFits

\* The drive is given the data: from now on the sector may hold the new text.
LEMMA WriteDataKeeps ==
    ASSUME DiskInv, NEW c \in Callers, WriteData(c)
    PROVE  DiskInv'
<1>1. /\ Acts(c) /\ call[c].at = "data" /\ call[c].does.op = "write" /\ CallGoes(c, "busy")
      /\ Transfers(c) =>
            drive' = [drive EXCEPT !.state = "busy", !.does.data = call[c].does.data]
      /\ ~Transfers(c) => drive' = drive
      /\ MayHold(call[c].does.lba, IF call[c].does.lba = 0 THEN {}
                 ELSE last[call[c].does.lba] \cup {call[c].does.data.text})
      /\ UNCHANGED memoryVars /\ UNCHANGED <<regs, platter, suspect, misread>>
  BY DEF WriteData, CallAt, Acts, CallUnchanged
<1>2. CallShape /\ DriveShape /\ call[c].does.lba \in Sectors /\ DOMAIN last = FileSectors
  BY DEF DiskInv, DiskShape, CallShape
<1>3. Goes(c, "busy") /\ call'[c].does = call[c].does
  BY <1>1, <1>2, GoesTo DEF Midway
<1>4. PICK w : w = call[c].does
  OBVIOUS
<1>5. /\ DOMAIN last' = FileSectors
      /\ w.lba # 0 => w.data.text \in last'[w.lba]
      /\ \A lba \in FileSectors : last[lba] \subseteq last'[lba]
  <2>1. w.lba \in Sectors
    BY <1>2, <1>4
  <2>2. CASE w.lba = 0
    BY <1>1, <1>2, <1>4, <2>2 DEF MayHold
  <2>3. CASE w.lba # 0
    <3>1. w.lba \in FileSectors
      BY <2>1, <2>3 DEF FileSectors
    <3>2. PICK texts : texts = last[w.lba] \cup {w.data.text}
      OBVIOUS
    <3>3. last' = [last EXCEPT ![w.lba] = texts]
      BY <1>1, <1>4, <2>3, <3>2 DEF MayHold
    <3>4. last'[w.lba] = texts /\ DOMAIN last' = FileSectors
          /\ \A lba \in FileSectors \ {w.lba} : last'[lba] = last[lba]
      BY <1>2, <3>1, <3>3
    <3> QED
      BY <3>2, <3>4
  <2> QED
    BY <2>2, <2>3
<1>6. /\ DriveShape'
      /\ Transfers(c) => /\ drive'.state = "busy" /\ drive'.does.op = drive.does.op
                         /\ drive'.does.lba = drive.does.lba /\ drive'.does.data = w.data
  <2>1. CASE ~Transfers(c)
    BY <1>1, <1>2, <2>1 DEF DriveShape
  <2>2. CASE Transfers(c)
    <3>1. PICK v : v = [drive.does EXCEPT !.data = w.data]
      OBVIOUS
    <3>2. /\ DOMAIN v = {"op", "lba", "data"} /\ v.op = drive.does.op /\ v.lba = drive.does.lba
          /\ v.data = w.data
      BY <1>2, <3>1 DEF DriveShape
    <3>3. drive' = [drive EXCEPT !.state = "busy", !.does = v]
      BY <1>1, <1>2, <1>4, <2>2, <3>1 DEF DriveShape
    <3>4. DOMAIN drive' = {"state", "does"} /\ drive'.state = "busy" /\ drive'.does = v
      BY <1>2, <3>3 DEF DriveShape
    <3> QED
      BY <1>1, <1>2, <3>2, <3>4 DEF DriveShape
  <2> QED
    BY <2>1, <2>2
<1>7. CallsFit'
  BY <1>1, <1>3, CallsGoOn DEF Midway
<1>8. WriteFits(w) /\ w.op = "write" /\ UNCHANGED <<stage, superblock>> /\ stage # "off"
  BY <1>1, <1>4 DEF DiskInv, CallsFit, memoryVars, Acts
<1>9. ASSUME ~call'[c].cut PROVE Follows(c)' /\ Transfers(c) /\ Doing(w)
  <2>1. Follows(c)
    BY <1>1, <1>3, <1>9 DEF DiskInv, CallsFollow, InControl, Acts, Goes
  <2>2. Transfers(c) /\ Doing(w)
    BY <1>1, <1>4, <2>1 DEF Follows, Doing, Transfers
  <2>3. /\ drive'.state = "busy" /\ drive'.does.op = w.op /\ drive'.does.lba = w.lba
        /\ drive'.does.data = w.data
    BY <1>6, <2>2 DEF Doing
  <2>4. call'[c].at = "busy" /\ call'[c].does = w
    BY <1>3, <1>4 DEF Goes
  <2>5. Follows(c)'
    BY <1>8, <2>3, <2>4 DEF Follows, Doing, Busy
  <2> QED
    BY <2>2, <2>5
<1>10. CallsFollow'
  BY <1>1, <1>3, <1>9, FollowsOne DEF Goes
<1>11. CASE ~Transfers(c)
  <2>1. drive' = drive
    BY <1>1, <1>11
  <2>2. CutFits'
    BY <1>1, <1>3, <2>1, CutRests DEF GoesOnWith
  <2>3. BootQuiet'
    BY <1>1, <2>1, QuietStays DEF DiskInv
  <2>4. StoreFits'
    BY <1>5, <1>1, <1>2, <1>8, <2>1 DEF DiskInv, DriveShape, StoreFits, Busy, HasData, Mounted,
       FileSectors
  <2> QED
    BY <1>1, <1>2, <1>3, <1>5, <1>6, <1>7, <1>10, <2>2, <2>3, <2>4, DeviceStays, MoreTexts,
       ShapeStays DEF DiskInv, Goes
<1>12. CASE Transfers(c)
  <2>1. /\ drive'.state = "busy" /\ drive'.does.lba = drive.does.lba
        /\ drive'.does.data = w.data
    BY <1>6, <1>12
  <2>2. stage # "probe"
    BY <1>4, <1>8 DEF WriteFits
  <2>3. BootQuiet'
    BY <1>8, <2>2 DEF BootQuiet
  <2>4. CASE call[c].cut
    <3>1. c = "main" /\ stage = "ready" /\ call["irq"].at = "out"
      BY <1>1, <2>4 DEF DiskInv, CallsFit, Callers, Acts
    <3>2. drive.state = "drq" /\ call["main"].at = "data" /\ call["main"].cut
      BY <1>1, <1>12, <2>4, <3>1 DEF Transfers
    <3>3. drive.does.lba \in suspect /\ call["main"].does.lba \in suspect
      BY <3>1, <3>2 DEF DiskInv, CutFits, GoesOnWith
    <3>4. w.data.text # "super"
      BY <1>8, <3>1 DEF WriteFits
    <3>5. StoreFits'
      BY <1>1, <1>8, <2>1, <3>1, <3>3, <3>4 DEF StoreFits, Mounted
    <3>6. CutFits'
      <4>1. /\ call'["main"].at = "busy" /\ call'["main"].does = call["main"].does
            /\ call'["irq"] = call["irq"]
        BY <1>3, <3>1 DEF Goes, Callers
      <4> QED
        BY <1>1, <3>1, <3>3, <4>1 DEF CutFits
    <3> QED
      BY <1>1, <1>2, <1>3, <1>5, <1>6, <1>7, <1>10, <2>3, <3>5, <3>6, DeviceStays, MoreTexts,
         ShapeStays DEF DiskInv, Goes
  <2>5. CASE ~call[c].cut
    <3>1. Doing(w)
      BY <1>3, <1>9, <2>5 DEF Goes
    <3>2. StoreFits'
      BY <1>1, <1>2, <1>4, <1>5, <1>8, <2>1, <2>2, <3>1
         DEF StoreFits, WriteFits, Doing, Mounted
    <3>3. CutFits'
      <4>0. CutFits
        BY DEF DiskInv
      <4>1. CASE c = "main"
        BY <1>3, <2>5, <4>1 DEF Goes, CutFits
      <4>2. CASE c = "irq"
        <5>1. /\ call'["main"] = call["main"] /\ call["irq"].at = "data"
              /\ call'["irq"].does = call["irq"].does /\ drive'.does.lba = call["irq"].does.lba
          BY <1>1, <1>3, <1>4, <2>1, <3>1, <4>2 DEF Goes, Callers, Doing
        <5> SUFFICES ASSUME call["main"].cut PROVE CutFits'
          BY <5>1 DEF CutFits
        <5>2. PICK a \in Sectors, m \in Sectors :
                  a = call["irq"].does.lba /\ m = call["main"].does.lba
          BY <1>2 DEF CallShape, Callers
        <5>3. Mixed(a, m) \subseteq suspect
          BY <4>0, <5>1, <5>2 DEF CutFits
        <5>4. drive'.does.lba \in suspect
          BY <5>1, <5>2, <5>3, MixedHas
        <5> QED
          BY <1>1, <4>0, <5>1, <5>4 DEF CutFits, GoesOnWith
      <4> QED
        BY <4>1, <4>2 DEF Callers
    <3> QED
      BY <1>1, <1>2, <1>3, <1>5, <1>6, <1>7, <1>10, <2>3, <3>2, <3>3, DeviceStays, MoreTexts,
         ShapeStays DEF DiskInv, Goes
  <2> QED
    BY <2>4, <2>5
<1> QED
  BY <1>11, <1>12

-----------------------------------------------------------------------------
(* The end of a call *)

\* A read that nothing cut into returned what was written.
LEMMA ReadIsRight ==
    ASSUME DiskInv, NEW c \in Callers, Acts(c), call[c].at = "status", call[c].does.op = "read",
           drive.state # "error", ReadSettles(c)
    PROVE  UNCHANGED pastVars
<1>1. PICK r : r = call[c].does
  OBVIOUS
<1>2. misread = FALSE /\ UNCHANGED <<last, suspect>>
  BY DEF DiskInv, PlatterFits, ReadSettles
<1>3. ASSUME ~call[c].cut, r.lba # 0, r.lba \notin suspect
      PROVE  Right(r.lba, ThroughDevice(r.lba, r.data))
  <2>1. Follows(c)
    BY <1>3 DEF DiskInv, CallsFollow, InControl, Acts
  <2>2. platter[r.lba] = r.data
    BY <1>1, <2>1 DEF Follows
  <2>3. stage = "ready"
    <3>1. CASE c = "irq"
      BY <3>1 DEF DiskInv, CallsFit, Acts
    <3>2. CASE c = "main"
      BY <1>1, <1>3, <3>2 DEF DiskInv, DiskShape, CallsFit, Acts
    <3> QED
      BY <3>1, <3>2 DEF Callers
  <2>4. r.lba \in FileSectors \ suspect
    BY <1>1, <1>3 DEF DiskInv, DiskShape, CallShape, FileSectors
  <2>5. PICK l \in FileSectors \ suspect : l = r.lba
    BY <2>4
  <2>6. Kept(l, superblock)
    BY <2>3 DEF DiskInv, PlatterFits, Mounted, InForce
  <2>7. CASE "unknown" \in last[l]
    BY <2>5, <2>7 DEF Right
  <2>8. ASSUME NEW t \in last[l], platter[l] = Under(superblock, l, t)
        PROVE  Right(r.lba, ThroughDevice(r.lba, r.data))
    <3>1. r.data = Under(superblock, l, t)
      BY <2>2, <2>5, <2>8
    <3>2. DeviceFits /\ stage \in {"format", "save", "ready"}
      BY <2>3 DEF DiskInv
    <3>3. /\ ThroughDevice(l, Under(superblock, l, t)).text = t
          /\ ThroughDevice(l, Under(superblock, l, t)).pads = {}
      BY <3>2, ThroughReads
    <3>4. ThroughDevice(l, r.data).text = t /\ ThroughDevice(l, r.data).pads = {}
      BY <3>1, <3>3, Zenon
    <3>5. Right(l, ThroughDevice(l, r.data))
      BY <2>8, <3>4, Zenon DEF Right
    <3> QED
      BY <2>5, <3>5, Zenon
  <2> QED
    BY <2>6, <2>7, <2>8, Zenon DEF Kept
<1>4. misread' = (misread \/ ~(\/ r.lba = 0 \/ call[c].cut \/ r.lba \in suspect
                               \/ Right(r.lba, ThroughDevice(r.lba, r.data))))
  BY <1>1, Zenon DEF ReadSettles
<1>5. misread' = FALSE
  BY <1>2, <1>3, <1>4, Zenon
<1> QED
  BY <1>2, <1>5 DEF pastVars

\* A write that ended well is what its sector holds.
LEMMA WriteIsKept ==
    ASSUME DiskInv, NEW c \in Callers, Acts(c), call[c].at = "status", call[c].does.op = "write",
           drive.state # "error", WriteSettles(c), UNCHANGED memoryVars, UNCHANGED driveVars
    PROVE  /\ StoreFits' /\ PlatterFits' /\ DOMAIN last' = FileSectors
           /\ call["main"].cut => suspect' = suspect
<1>1. PICK w : w = call[c].does
  OBVIOUS
<1>2. w.lba \in Sectors /\ DOMAIN last = FileSectors
  BY <1>1 DEF DiskInv, DiskShape, CallShape
<1>3. /\ MayHold(w.lba, {w.data.text}) /\ misread' = misread
      /\ Settled(c) => suspect' = suspect \ {w.lba}
      /\ ~Settled(c) => suspect' = suspect
  BY <1>1, Zenon DEF WriteSettles
<1>4. /\ DOMAIN last' = FileSectors
      /\ w.lba # 0 => w.lba \in FileSectors /\ last'[w.lba] = {w.data.text}
      /\ \A lba \in FileSectors \ {w.lba} : last'[lba] = last[lba]
  <2>1. CASE w.lba = 0
    BY <1>2, <1>3, <2>1 DEF MayHold
  <2>2. CASE w.lba # 0
    <3>1. w.lba \in FileSectors
      BY <1>2, <2>2 DEF FileSectors
    <3>2. last' = [last EXCEPT ![w.lba] = {w.data.text}]
      BY <1>3, <2>2 DEF MayHold
    <3> QED
      BY <1>2, <3>1, <3>2
  <2> QED
    BY <2>1, <2>2
<1>5. UNCHANGED <<stage, superblock>> /\ UNCHANGED <<drive, platter>>
  BY DEF memoryVars, driveVars
<1>6. WriteFits(w) /\ w.op = "write"
  BY <1>1 DEF DiskInv, CallsFit
<1>7. Mounted /\ Mounted' /\ InForce = superblock /\ InForce' = superblock
  BY <1>5, <1>6 DEF WriteFits, Mounted, InForce
<1>8. call["main"].cut => suspect' = suspect
  <2>1. ASSUME call["main"].cut PROVE ~Settled(c)
    <3>1. call["main"].at # "out"
      BY <2>1 DEF DiskInv, CallsFit
    <3>2. DOMAIN call = Callers
      BY DEF DiskInv, DiskShape, CallShape
    <3> QED
      BY <2>1, <3>1, <3>2 DEF Settled, Callers
  <2> QED
    BY <1>3, <2>1
<1>9. ~call[c].cut => ~Busy /\ platter[w.lba] = w.data
  BY <1>1 DEF DiskInv, CallsFollow, InControl, Acts, Follows
<1>10. call[c].cut => c = "main" /\ w.lba \in suspect /\ suspect' = suspect /\ stage = "ready"
  BY <1>1, <1>8 DEF DiskInv, CallsFit, CutFits, Callers
<1>11. StoreFits'
  <2>1. CASE ~call[c].cut
    BY <1>5, <1>9, <2>1 DEF StoreFits, Busy
  <2>2. CASE call[c].cut
    <3> SUFFICES ASSUME Busy, HasData PROVE StoreFits'
      BY <1>5 DEF StoreFits, Busy, HasData
    <3>1. StoreFits
      BY DEF DiskInv
    <3>2. CASE drive.does.lba = 0
      BY <1>5, <1>10, <2>2, <3>1, <3>2 DEF StoreFits, Mounted
    <3>3. CASE drive.does.lba # 0 /\ drive.does.lba = w.lba
      BY <1>5, <1>7, <1>10, <2>2, <3>3 DEF StoreFits, Mounted
    <3>4. CASE drive.does.lba # 0 /\ drive.does.lba # w.lba
      <4>1. PICK l \in FileSectors \ {w.lba} : l = drive.does.lba
        BY <3>4 DEF DiskInv, DiskShape, DriveShape, FileSectors
      <4>2. last'[l] = last[l]
        BY <1>4
      <4> QED
        BY <1>5, <1>7, <1>10, <2>2, <3>1, <3>4, <4>1, <4>2 DEF StoreFits
    <3> QED
      BY <3>2, <3>3, <3>4
  <2> QED
    BY <2>1, <2>2
<1>12. PlatterFits'
  <2>1. PlatterFits
    BY DEF DiskInv
  <2>2. ASSUME NEW lba \in FileSectors \ suspect' PROVE Kept(lba, InForce)'
    <3>1. CASE lba = w.lba
      <4>1. ~call[c].cut
        BY <1>10, <2>2, <3>1
      <4>2. w.lba # 0
        BY <2>2, <3>1 DEF FileSectors
      <4>3. w.data = Under(superblock, w.lba, w.data.text)
        BY <1>6, <4>2 DEF WriteFits
      <4>4. last'[lba] = {w.data.text} /\ platter[lba] = Under(superblock, lba, w.data.text)
        BY <1>4, <1>9, <3>1, <4>1, <4>2, <4>3, Zenon
      <4> QED
        BY <1>5, <1>7, <4>4 DEF Kept
    <3>2. CASE lba # w.lba
      <4>1. lba \in FileSectors \ suspect /\ last'[lba] = last[lba]
        BY <1>3, <1>4, <2>2, <3>2
      <4>2. Kept(lba, superblock)
        BY <1>7, <2>1, <4>1 DEF PlatterFits
      <4> QED
        BY <1>5, <1>7, <4>1, <4>2 DEF Kept
    <3> QED
      BY <3>1, <3>2
  <2>3. ASSUME stage = "ready", 0 \notin suspect' PROVE 0 \notin suspect
    <3>1. w.lba # 0
      BY <1>6, <2>3 DEF WriteFits
    <3> QED
      BY <1>3, <2>3, <3>1
  <2> QED
    BY <1>3, <1>5, <1>7, <2>1, <2>2, <2>3 DEF PlatterFits
<1> QED
  BY <1>4, <1>8, <1>11, <1>12

\* The status decides about the call.
LEMMA ReadStatusKeeps ==
    ASSUME DiskInv, NEW c \in Callers, ReadStatus(c)
    PROVE  DiskInv'
<1>1. /\ Acts(c) /\ call[c].at = "status" /\ call' = Returned(c, drive.state # "error")
      /\ UNCHANGED memoryVars /\ UNCHANGED driveVars
      /\ drive.state = "error" => UNCHANGED pastVars
      /\ drive.state # "error" /\ call[c].does.op = "read" => ReadSettles(c)
      /\ drive.state # "error" /\ call[c].does.op # "read" => WriteSettles(c)
  BY DEF ReadStatus, CallAt, Acts, CallUnchanged
<1>2. c = "irq" => GoesOnWith
  BY <1>1 DEF GoesOnWith
<1>3. CASE drive.state = "error"
  <2>1. stage # "probe"
    BY <1>3 DEF DiskInv, BootQuiet
  <2>2. call' = Returned(c, FALSE)
    <3>1. (drive.state # "error") = FALSE
      BY <1>3
    <3> QED
      BY <1>1, <3>1, Zenon
  <2> QED
    BY <1>1, <1>2, <1>3, <2>1, <2>2, FailureKeeps
<1>4. CASE drive.state # "error"
  <2>1. CallShape /\ DriveShape
    BY DEF DiskInv, DiskShape
  <2>2. Leaves(c, TRUE)
    <3>1. (drive.state # "error") = TRUE
      BY <1>4
    <3>2. call' = Returned(c, TRUE)
      BY <1>1, <3>1, Zenon
    <3> QED
      BY <2>1, <3>2, LeavesTo
  <2>3. CallsFit'
    BY <1>1, <2>2, CallsLeave
  <2>4. UNCHANGED regs /\ UNCHANGED drive /\ UNCHANGED platter
    BY <1>1 DEF driveVars
  <2>5. ASSUME ~call'[c].cut PROVE Follows(c)'
    <3>1. CASE stage = "ready"
      <4>1. call'[c].at = "out"
        BY <2>2, <3>1, NoCallIs DEF Leaves
      <4> QED
        BY <4>1 DEF Follows
    <3>2. CASE stage # "ready"
      <4>1. /\ call'[c].at = "returned" /\ call'[c].cut = call[c].cut
            /\ call'[c].does = call[c].does
        BY <2>2, <3>2 DEF Leaves
      <4>2. Follows(c)
        BY <1>1, <2>5, <4>1 DEF DiskInv, CallsFollow, InControl, Acts
      <4> QED
        BY <1>1, <1>4, <2>4, <4>1, <4>2 DEF Follows, Busy
    <3> QED
      BY <3>1, <3>2
  <2>6. CallsFollow'
    BY <1>1, <2>2, <2>5, FollowsOne DEF Leaves
  <2>7. /\ StoreFits' /\ PlatterFits' /\ DOMAIN last' = DOMAIN last
        /\ call["main"].cut => suspect' = suspect
    <3>1. CASE call[c].does.op = "read"
      <4>1. UNCHANGED pastVars
        BY <1>1, <1>4, <3>1, ReadIsRight
      <4> QED
        BY <1>1, <2>4, <4>1, StoreStays, PlatterStays DEF DiskInv, pastVars
    <3>2. CASE call[c].does.op # "read"
      <4>1. call[c].does.op = "write"
        BY <1>1, <3>2 DEF DiskInv, CallsFit, Acts
      <4>2. DOMAIN last = FileSectors
        BY DEF DiskInv, DiskShape
      <4> QED
        BY <1>1, <1>4, <3>2, <4>1, <4>2, WriteIsKept
    <3> QED
      BY <3>1, <3>2
  <2>8. CutFits'
    <3>1. CASE call["main"].cut
      BY <1>1, <1>2, <2>2, <2>4, <2>7, <3>1, CutLeaves
    <3>2. CASE ~call["main"].cut
      <4>1. ~call'["main"].cut
        <5>1. CASE c = "main"
          BY <2>2, <3>2, <5>1, NoCallIs DEF Leaves
        <5>2. CASE c = "irq"
          BY <2>2, <3>2, <5>2 DEF Leaves, Callers
        <5> QED
          BY <5>1, <5>2 DEF Callers
      <4> QED
        BY <4>1 DEF CutFits
    <3> QED
      BY <3>1, <3>2
  <2>9. DriveShape'
    BY <2>1, <2>4 DEF DriveShape
  <2> QED
    BY <1>1, <2>2, <2>3, <2>4, <2>6, <2>7, <2>8, <2>9, DeviceStays, QuietStays, ShapeStays
       DEF DiskInv, Leaves
<1> QED
  BY <1>3, <1>4

-----------------------------------------------------------------------------
(* The drive *)

\* The drive finds the sector.
LEMMA DriveSeeksKeeps ==
    ASSUME DiskInv, ~SuperReadMayFail, DriveSeeks
    PROVE  DiskInv'
<1>1. /\ Busy /\ ~HasData /\ UNCHANGED memoryVars /\ UNCHANGED <<call, regs, platter>>
      /\ UNCHANGED pastVars
      /\ \/ drive' = [drive EXCEPT !.state = "drq"]
         \/ drive' = [drive EXCEPT !.state = "error"] /\ stage # "probe"
  BY DEF DriveSeeks, Errs
<1>2. CallShape /\ DriveShape /\ stage # "off"
  BY <1>1 DEF DiskInv, DiskShape, BootQuiet, Busy
<1>3. /\ DOMAIN drive' = {"state", "does"} /\ drive'.does = drive.does
      /\ drive'.state = "drq" \/ (drive'.state = "error" /\ stage # "probe")
  BY <1>1, <1>2 DEF DriveShape
<1>4. DriveShape' /\ CallShape'
  BY <1>1, <1>2, <1>3 DEF DriveShape, CallShape
<1>5. CallsFit' /\ UNCHANGED <<stage, superblock>>
  BY <1>1 DEF DiskInv, CallsFit, WriteFits, memoryVars
<1>6. BootQuiet'
  BY <1>1, <1>2, <1>3, <1>5 DEF BootQuiet, HasData
<1>7. StoreFits'
  BY <1>3 DEF StoreFits, Busy
<1>8. CutFits'
  <2>1. CutFits /\ UNCHANGED suspect
    BY <1>1 DEF DiskInv, pastVars
  <2>2. GoesOnWith' => GoesOnWith
    BY <1>1, <1>3 DEF GoesOnWith, Busy
  <2> QED
    BY <1>1, <1>3, <2>1, <2>2 DEF CutFits, Busy
<1>9. CallsFollow'
  <2> SUFFICES ASSUME NEW c \in Callers, InControl(c)' PROVE Follows(c)'
    BY DEF CallsFollow
  <2>1. Follows(c)
    BY <1>1 DEF DiskInv, CallsFollow, InControl
  <2>2. call[c].at # "busy"
    <3> SUFFICES ASSUME call[c].at = "busy" PROVE FALSE
      OBVIOUS
    <3>1. drive.does.op = "write" /\ drive.does.data = call[c].does.data
      BY <1>1, <2>1 DEF Follows, Doing, Busy
    <3>2. WriteFits(call[c].does) /\ call[c].does.op = "write"
      BY <2>1 DEF DiskInv, CallsFit, Follows
    <3>3. Content("super", superblock).text = "super"
      BY DEF Content
    <3>4. call[c].does.data.text # "unknown"
      BY <3>2, <3>3 DEF WriteFits
    <3> QED
      BY <1>1, <3>1, <3>4 DEF HasData
  <2> QED
    BY <1>1, <1>3, <2>1, <2>2 DEF Follows, Busy, Doing
<1> QED
  BY <1>1, <1>4, <1>5, <1>6, <1>7, <1>8, <1>9, DeviceStays, PlatterStays, ShapeStays
     DEF DiskInv, pastVars

\* The sector is stored.
LEMMA StoredKept ==
    ASSUME DiskInv, Busy, HasData, platter' \in {platter, Stored}, UNCHANGED pastVars,
           UNCHANGED <<stage, superblock>>
    PROVE  PlatterFits' /\ DOMAIN platter' = Sectors
<1>1. PlatterFits /\ StoreFits /\ DOMAIN platter = Sectors /\ drive.does.lba \in Sectors
  BY DEF DiskInv, DiskShape, DriveShape
<1>2. Mounted /\ Mounted' /\ InForce = superblock /\ InForce' = superblock
      /\ UNCHANGED <<last, suspect, misread>>
  BY <1>1 DEF StoreFits, Mounted, InForce, pastVars
<1>3. CASE platter' = platter
  BY <1>1, <1>2, <1>3 DEF PlatterFits, Kept
<1>4. CASE platter' = Stored
  <2>0. PICK d : d = drive.does.data
    OBVIOUS
  <2>1. PICK l \in Sectors : l = drive.does.lba /\ d = drive.does.data
    BY <1>1, <2>0
  <2>2. platter' = [platter EXCEPT ![l] = d]
    BY <1>4, <2>1 DEF Stored
  <2>3. platter'[l] = d /\ DOMAIN platter' = Sectors
        /\ \A s \in Sectors \ {l} : platter'[s] = platter[s]
    BY <1>1, <2>2
  <2>4. 0 \in Sectors
    BY DEF Sectors
  <2>5. CASE l = 0
    <3>1. \/ d = Content("super", superblock) /\ stage \in {"save", "halted"}
          \/ 0 \in suspect /\ d.text # "super"
      BY <1>1, <2>1, <2>5 DEF StoreFits
    <3>2. \A lba \in FileSectors : Kept(lba, superblock) => Kept(lba, superblock)'
      BY <1>2, <2>3, <2>5 DEF Kept, FileSectors
    <3>3. \A lba \in FileSectors \ suspect : Kept(lba, superblock)
      BY <1>1, <1>2 DEF PlatterFits
    <3>4. platter'[0].text = "super" => platter'[0] = Content("super", superblock)
      BY <2>3, <2>5, <3>1
    <3>5. stage = "ready" => 0 \in suspect
      BY <3>1
    <3>6. misread = FALSE
      BY <1>1 DEF PlatterFits
    <3>7. \A lba \in FileSectors \ suspect' : Kept(lba, InForce)'
      BY <1>2, <3>2, <3>3
    <3> QED
      BY <1>2, <2>3, <3>4, <3>5, <3>6, <3>7 DEF PlatterFits
  <2>6. CASE l # 0
    <3>1. l \in suspect \/ (d.text \in last[l] /\ d = Under(superblock, l, d.text))
      BY <1>1, <2>1, <2>6 DEF StoreFits
    <3>2. platter'[0] = platter[0]
      BY <2>3, <2>4, <2>6
    <3>3. ASSUME NEW lba \in FileSectors \ suspect' PROVE Kept(lba, InForce)'
      <4>1. Kept(lba, superblock)
        BY <1>1, <1>2, <3>3 DEF PlatterFits
      <4>2. CASE lba = l
        BY <1>2, <2>3, <3>1, <3>3, <4>2 DEF Kept
      <4>3. CASE lba # l
        <5>1. platter'[lba] = platter[lba]
          BY <2>3, <3>3, <4>3 DEF FileSectors
        <5> QED
          BY <1>2, <4>1, <5>1 DEF Kept
      <4> QED
        BY <4>2, <4>3
    <3> QED
      BY <1>1, <1>2, <2>3, <3>2, <3>3 DEF PlatterFits
  <2> QED
    BY <2>5, <2>6
<1> QED
  BY <1>1, <1>3, <1>4

\* The drive stores the sector, or part of its work fails.
LEMMA DriveStoresKeeps ==
    ASSUME DiskInv, DriveStores
    PROVE  DiskInv'
<1>1. /\ Busy /\ HasData /\ UNCHANGED memoryVars /\ UNCHANGED <<call, regs>>
      /\ UNCHANGED pastVars
      /\ \/ platter' = Stored /\ drive' = IdleDrive
         \/ platter' \in {platter, Stored} /\ drive' = [IdleDrive EXCEPT !.state = "error"]
  BY DEF DriveStores
<1>2. CallShape /\ DriveShape /\ StoreFits
  BY DEF DiskInv, DiskShape
<1>3. /\ DOMAIN drive' = {"state", "does"} /\ DOMAIN drive'.does = {"op", "lba", "data"}
      /\ drive'.does.lba = 0 /\ drive'.state \in {"idle", "error"}
      /\ drive'.state = "idle" => platter' = Stored
  BY <1>1, IdleIs, ErrorIs
<1>4. DriveShape' /\ CallShape'
  <2>1. 0 \in Sectors
    BY DEF Sectors
  <2> QED
    BY <1>1, <1>2, <1>3, <2>1 DEF DriveShape, CallShape
<1>5. CallsFit' /\ UNCHANGED <<stage, superblock>>
  BY <1>1 DEF DiskInv, CallsFit, WriteFits, memoryVars
<1>6. BootQuiet'
  BY <1>1, <1>2, <1>5 DEF StoreFits, Mounted, BootQuiet
<1>7. StoreFits'
  BY <1>3 DEF StoreFits, Busy
<1>8. CutFits'
  <2>1. CutFits /\ UNCHANGED suspect
    BY <1>1 DEF DiskInv, pastVars
  <2>2. GoesOnWith' => GoesOnWith
    BY <1>1, <1>3 DEF GoesOnWith, Busy
  <2> QED
    BY <1>1, <1>3, <2>1, <2>2 DEF CutFits, Busy
<1>9. PlatterFits' /\ DOMAIN platter' = Sectors
  BY <1>1, <1>5, StoredKept
<1>10. CallsFollow'
  <2> SUFFICES ASSUME NEW c \in Callers, InControl(c)' PROVE Follows(c)'
    BY DEF CallsFollow
  <2>1. Follows(c)
    BY <1>1 DEF DiskInv, CallsFollow, InControl
  <2>2. CASE call[c].at = "busy"
    <3>1. /\ call[c].does.op = "write" /\ drive.does.lba = call[c].does.lba
          /\ drive.does.data = call[c].does.data
      BY <1>1, <2>1, <2>2 DEF Follows, Doing, Busy
    <3>2. Stored[drive.does.lba] = drive.does.data
      BY <1>2 DEF DiskInv, DiskShape, DriveShape, Stored
    <3>3. drive'.state = "error" \/ (drive'.state = "idle" /\ platter'[call[c].does.lba] = call[c].does.data)
      BY <1>3, <3>1, <3>2
    <3> QED
      BY <1>1, <2>2, <3>1, <3>3 DEF Follows, Busy
  <2>3. CASE call[c].at # "busy"
    <3>1. call[c].at \notin {"high", "command", "drq", "data", "status"}
      BY <1>1, <2>1 DEF Follows, Busy, HasData
    <3>2. ~(call[c].at = "returned" /\ call[c].ok)
      BY <1>1, <2>1 DEF Follows
    <3> QED
      BY <1>1, <2>3, <3>1, <3>2 DEF Follows
  <2> QED
    BY <2>2, <2>3
<1>11. DiskShape'
  BY <1>1, <1>4, <1>9 DEF DiskInv, DiskShape, memoryVars, pastVars
<1> QED
  BY <1>1, <1>5, <1>6, <1>7, <1>8, <1>9, <1>10, <1>11, DeviceStays DEF DiskInv

-----------------------------------------------------------------------------
(* The registry and the slots *)

\* A registry whose first device is the disk.
Registry(known) == known \in Seq(KnownDevices) /\ Len(known) > 0 /\ known[1].name = "ata0"

\* blockdev_register() adds the device, or finds no place.
LEMMA Registers ==
    ASSUME NEW known, Registry(known), NEW device \in KnownDevices
    PROVE  LET r == blockdev_register(known, device) IN
           /\ Registry(r.devices) /\ r.id \in Int
           /\ r.id >= 0 => r.devices[r.id + 1] = device
<1>1. PICK n \in Nat : n = Len(known)
  BY DEF Registry
<1>2. known \in Seq(KnownDevices) /\ n > 0 /\ known[1].name = "ata0"
  BY <1>1 DEF Registry
<1>3. CASE n < BlockdevMax
  <2>1. PICK more : more = Append(known, device)
    OBVIOUS
  <2>2. blockdev_register(known, device) = [id |-> n, devices |-> more]
    BY <1>1, <1>3, <2>1, Zenon DEF blockdev_register
  <2>3. /\ more \in Seq(KnownDevices) /\ Len(more) = n + 1 /\ more[n + 1] = device
        /\ more[1] = known[1]
    BY <1>1, <1>2, <2>1
  <2>4. Registry(more)
    BY <1>2, <2>3 DEF Registry
  <2> QED
    BY <2>2, <2>3, <2>4
<1>4. CASE ~(n < BlockdevMax)
  <2>1. blockdev_register(known, device) = [id |-> -1, devices |-> known]
    BY <1>1, <1>4, Zenon DEF blockdev_register
  <2> QED
    BY <2>1
<1> QED
  BY <1>3, <1>4

SlotIdx == 0 .. (CryptoSlots - 1)
\* crypto_disk_create_internal() puts the keys into the slot its device uses.
LEMMA Creates ==
    ASSUME NEW known, Registry(known), NEW used, DOMAIN used = SlotIdx, NEW key, NEW nonce,
           NEW name \in {"cenc0", "fsenc0"}
    PROVE  LET made == crypto_disk_create_internal(name, known, used, key, nonce) IN
           /\ Registry(made.devices) /\ DOMAIN made.slots = SlotIdx /\ made.id \in Int
           /\ made.id >= 0 =>
                 /\ made.devices[made.id + 1].name = name
                 /\ made.slots[made.devices[made.id + 1].slot].key = key
                 /\ made.slots[made.devices[made.id + 1].slot].nonce = nonce
<1>1. PICK free : free = {i \in DOMAIN used : ~used[i].in_use}
  OBVIOUS
<1>2. free \in SUBSET SlotIdx /\ SlotIdx \subseteq Nat
  BY <1>1, DiskAssumption DEF SlotIdx
<1>3. CASE free = {}
  <2>1. crypto_disk_create_internal(name, known, used, key, nonce) =
            [id |-> -1, devices |-> known, slots |-> used]
    BY <1>1, <1>3, Zenon DEF crypto_disk_create_internal
  <2> QED
    BY <2>1
<1>4. CASE free # {}
  <2>1. Lowest(free) \in free
    BY <1>2, <1>4, LowestOfSet
  <2>2. PICK i \in SlotIdx : i = Lowest(free)
    BY <1>2, <2>1
  <2>3. PICK device : device = [name |-> name, slot |-> i]
    OBVIOUS
  <2>4. device \in KnownDevices /\ device.name = name /\ device.slot = i
    BY <1>2, <2>3 DEF KnownDevices
  <2>5. PICK r : r = blockdev_register(known, device)
    OBVIOUS
  <2>6. Registry(r.devices) /\ r.id \in Int /\ (r.id >= 0 => r.devices[r.id + 1] = device)
    BY <2>4, <2>5, Registers
  <2>7. PICK now : now = [used EXCEPT ![i] = [in_use |-> TRUE, key |-> key, nonce |-> nonce]]
    OBVIOUS
  <2>8. DOMAIN now = SlotIdx /\ now[i].key = key /\ now[i].nonce = nonce
    BY <2>7
  <2>9. crypto_disk_create_internal(name, known, used, key, nonce) =
            [id |-> r.id, devices |-> r.devices, slots |-> now]
    BY <1>1, <1>4, <2>2, <2>3, <2>5, <2>7, Zenon DEF crypto_disk_create_internal
  <2> QED
    BY <2>4, <2>6, <2>8, <2>9
<1> QED
  BY <1>3, <1>4

\* The device that fs_setup_disk_device() sets up fits the superblock.
LEMMA SetupFits ==
    ASSUME Registry(devices), DOMAIN slots = SlotIdx, NEW r, superblock' = r,
           NEW next \in {"ready", "format"}, fs_setup_disk_device(r, next)
    PROVE  /\ stage' \in {next, "halted"} /\ Registry(devices)' /\ DOMAIN slots' = SlotIdx
           /\ DeviceFits'
<1>1. CASE r[0] # Magic
  <2>1. fs_disk_device_id' = 0 /\ stage' = next /\ UNCHANGED <<devices, slots>>
    BY <1>1, Zenon DEF fs_setup_disk_device
  <2>2. Registry(devices)' /\ DOMAIN slots' = SlotIdx
    BY <2>1
  <2>3. devices'[fs_disk_device_id' + 1].name = "ata0"
    BY <2>1 DEF Registry
  <2>4. superblock'[0] # Magic
    BY <1>1
  <2> QED
    BY <2>1, <2>2, <2>3, <2>4 DEF DeviceFits, Registry
<1>2. CASE r[0] = Magic
  <2>1. PICK known, used : known = devices /\ used = slots
    OBVIOUS
  <2>2. PICK made : made = crypto_disk_create_internal("fsenc0", known, used, SeedOf(r), NonceOf(r))
    OBVIOUS
  <2>3. /\ fs_disk_device_id' = made.id /\ devices' = made.devices /\ slots' = made.slots
        /\ stage' = IF made.id >= 0 THEN next ELSE "halted"
    BY <1>2, <2>1, <2>2, Zenon DEF fs_setup_disk_device
  <2>4. Registry(known) /\ DOMAIN used = SlotIdx
    BY <2>1
  <2>5. PICK key, nonce : key = SeedOf(r) /\ nonce = NonceOf(r)
    OBVIOUS
  <2>6. made = crypto_disk_create_internal("fsenc0", known, used, key, nonce)
    BY <2>2, <2>5, Zenon
  <2>7. /\ Registry(made.devices) /\ DOMAIN made.slots = SlotIdx
        /\ made.id >= 0 =>
                 /\ made.devices[made.id + 1].name = "fsenc0"
                 /\ made.slots[made.devices[made.id + 1].slot].key = key
                 /\ made.slots[made.devices[made.id + 1].slot].nonce = nonce
    BY <2>4, <2>6, Creates
  <2>8. Registry(devices)' /\ DOMAIN slots' = SlotIdx /\ stage' \in {next, "halted"}
    BY <2>3, <2>7
  <2>9. CASE made.id >= 0
    <3>1. /\ devices'[fs_disk_device_id' + 1].name # "ata0"
          /\ slots'[devices'[fs_disk_device_id' + 1].slot].key = SeedOf(superblock')
          /\ slots'[devices'[fs_disk_device_id' + 1].slot].nonce = NonceOf(superblock')
      BY <2>3, <2>5, <2>7, <2>9
    <3> QED
      BY <1>2, <2>8, <3>1 DEF DeviceFits, Registry
  <2>10. CASE ~(made.id >= 0)
    BY <2>3, <2>8, <2>10 DEF DeviceFits, Registry
  <2> QED
    BY <2>8, <2>9, <2>10
<1> QED
  BY <1>1, <1>2

-----------------------------------------------------------------------------
(* The boot *)

\* A call at its beginning.
Begun(r, op, lba, data) ==
    /\ DOMAIN r = {"at", "ok", "cut", "does"} /\ r.at = "low" /\ r.cut = FALSE
    /\ DOMAIN r.does = {"op", "lba", "data"} /\ r.does.op = op /\ r.does.lba = lba
    /\ r.does.data = data
\* The record of a call at its beginning.
LEMMA EnteredIs ==
    ASSUME NEW op, NEW lba, NEW data
    PROVE  Begun(Entered(op, lba, data), op, lba, data)
<1>1. PICK w : w = [op |-> op, lba |-> lba, data |-> data]
  OBVIOUS
<1>2. Entered(op, lba, data) = [NoCall EXCEPT !.at = "low", !.does = w]
  BY <1>1, Zenon DEF Entered
<1>3. NoCall = [at |-> "out", ok |-> FALSE, cut |-> FALSE, does |-> Nowhere]
  BY DEF NoCall
<1>4. Entered(op, lba, data) = [at |-> "low", ok |-> FALSE, cut |-> FALSE, does |-> w]
  BY <1>2, <1>3
<1> QED
  BY <1>1, <1>4 DEF Begun

\* Nothing is called, or the call begins.
AtStart(r) == /\ DOMAIN r = {"at", "ok", "cut", "does"} /\ r.at \in {"out", "low"} /\ r.cut = FALSE
              /\ DOMAIN r.does = {"op", "lba", "data"} /\ r.does.lba \in Sectors
\* The record of no call.
LEMMA NoCallAtStart == AtStart(NoCall)
BY DEF AtStart, NoCall, Nowhere, Sectors

\* The boot's own call at its start: the parts about calls, then.
LEMMA MainStarts ==
    ASSUME DiskInv, stage # "ready", NEW r, AtStart(r), call' = [call EXCEPT !["main"] = r]
    PROVE  /\ CallShape' /\ CallsFollow' /\ CutFits'
           /\ call'["main"] = r /\ call'["irq"] = call["irq"]
           /\ call["irq"].at = "out" /\ call["irq"].does.op = "none" /\ call["irq"].cut = FALSE
<1>1. CallShape /\ CallsFit
  BY DEF DiskInv, DiskShape
<1>2. call["irq"].at = "out" /\ call["irq"].does.op = "none" /\ ~call["irq"].cut
  BY <1>1 DEF CallsFit, Callers
<1>3. DOMAIN call' = Callers /\ call'["main"] = r /\ call'["irq"] = call["irq"]
  BY <1>1 DEF CallShape, Callers
<1>4. CallShape'
  BY <1>1, <1>3 DEF CallShape, AtStart, Callers
<1>5. CutFits'
  BY <1>3 DEF CutFits, AtStart
<1>6. CallsFollow'
  <2> SUFFICES ASSUME NEW d \in Callers PROVE Follows(d)'
    BY DEF CallsFollow
  <2>1. call'[d].at \in {"out", "low"}
    BY <1>2, <1>3 DEF AtStart, Callers
  <2> QED
    BY <2>1 DEF Follows
<1> QED
  BY <1>2, <1>3, <1>4, <1>5, <1>6

\* What the boot finds when its call has come back.
LEMMA BootHas ==
    ASSUME DiskInv, stage \in {"probe", "format", "save"}, call["main"].at = "returned"
    PROVE  call["main"].ok => ~Busy /\ platter[call["main"].does.lba] = call["main"].does.data
<1>1. InControl("main")
  BY DEF DiskInv, CallsFit, InControl
<1>2. Follows("main")
  BY <1>1 DEF DiskInv, CallsFollow, Callers
<1> QED
  BY <1>2 DEF Follows

\* The boot begins.
LEMMA BootKeeps ==
    ASSUME DiskInv, Boot
    PROVE  DiskInv'
<1>1. PICK a, m, known, made, old :
        /\ a = blockdev_register(<<>>, [name |-> "ata0", slot |-> 0])
        /\ m = blockdev_register(a.devices, [name |-> "ram0", slot |-> 0])
        /\ known = m.devices /\ old = slots
        /\ made = crypto_disk_create_internal("cenc0", known, old,
                       SeedOf(Sealing(drawn + 1)), NonceOf(Sealing(drawn + 2)))
  OBVIOUS
<1>2. /\ stage = "off" /\ stage' = "probe" /\ devices' = made.devices /\ slots' = made.slots
      /\ call' = [call EXCEPT !["main"] = Entered("read", 0, Plain("unknown"))]
      /\ UNCHANGED <<superblock, fs_disk_device_id>> /\ UNCHANGED driveVars /\ UNCHANGED pastVars
  BY <1>1, Zenon DEF Boot
<1>3. Registry(a.devices)
  <2>1. PICK device : device = [name |-> "ata0", slot |-> 0]
    OBVIOUS
  <2>2. device \in KnownDevices /\ device.name = "ata0"
    BY <2>1 DEF KnownDevices
  <2>3. Len(<<>>) < BlockdevMax
    BY DiskAssumption
  <2>4. a = [id |-> Len(<<>>), devices |-> Append(<<>>, device)]
    BY <1>1, <2>1, <2>3, Zenon DEF blockdev_register
  <2>5. PICK one : one = Append(<<>>, device)
    OBVIOUS
  <2>6. one \in Seq(KnownDevices) /\ Len(one) = 1 /\ one[1] = device
    BY <2>2, <2>5
  <2>7. Registry(one)
    BY <2>2, <2>6 DEF Registry
  <2>8. a.devices = one
    BY <2>4, <2>5
  <2> QED
    BY <2>7, <2>8
<1>4. Registry(known)
  <2>1. PICK device, first : device = [name |-> "ram0", slot |-> 0] /\ first = a.devices
    OBVIOUS
  <2>2. device \in KnownDevices /\ Registry(first)
    BY <1>3, <2>1 DEF KnownDevices
  <2>3. m = blockdev_register(first, device)
    BY <1>1, <2>1, Zenon
  <2> QED
    BY <1>1, <2>2, <2>3, Registers
<1>5. Registry(made.devices) /\ DOMAIN made.slots = SlotIdx
  <2>1. PICK key, nonce : key = SeedOf(Sealing(drawn + 1)) /\ nonce = NonceOf(Sealing(drawn + 2))
    OBVIOUS
  <2>2. made = crypto_disk_create_internal("cenc0", known, old, key, nonce)
    BY <1>1, <2>1, Zenon
  <2>3. DOMAIN old = SlotIdx
    BY <1>1 DEF DiskInv, DiskShape, SlotIdx
  <2> QED
    BY <1>4, <2>2, <2>3, Creates
<1>6. PICK r : r = Entered("read", 0, Plain("unknown"))
  OBVIOUS
<1>7. Begun(r, "read", 0, Plain("unknown")) /\ 0 \in Sectors
  BY <1>6, EnteredIs DEF Sectors
<1>8. AtStart(r) /\ call' = [call EXCEPT !["main"] = r] /\ stage # "ready"
  BY <1>2, <1>6, <1>7 DEF AtStart, Begun
<1>9. /\ CallShape' /\ CallsFollow' /\ CutFits'
      /\ call'["main"] = r /\ call'["irq"] = call["irq"]
      /\ call["irq"].at = "out" /\ call["irq"].does.op = "none" /\ ~call["irq"].cut
  BY <1>8, MainStarts
<1>10. r.at = "low" /\ r.does.op = "read" /\ r.does.lba = 0 /\ ~r.cut
  BY <1>7 DEF Begun
<1>11. CallsFit'
  BY <1>2, <1>9, <1>10 DEF CallsFit, WriteFits, Callers
<1>12. UNCHANGED <<regs, drive, platter, last, suspect, misread>>
  BY <1>2 DEF driveVars, pastVars
<1>13. DiskShape'
  BY <1>2, <1>5, <1>9, <1>12 DEF DiskInv, DiskShape, DriveShape, Registry, SlotIdx
<1>14. DeviceFits'
  BY <1>2, <1>5 DEF DeviceFits, Registry
<1>15. BootQuiet'
  BY <1>2, <1>12 DEF DiskInv, BootQuiet, HasData
<1>16. StoreFits'
  BY <1>2, <1>12 DEF DiskInv, BootQuiet, StoreFits, Busy
<1>17. PlatterFits'
  BY <1>2, <1>12 DEF DiskInv, PlatterFits, Mounted, InForce, Kept
<1> QED
  BY <1>9, <1>11, <1>13, <1>14, <1>15, <1>16, <1>17 DEF DiskInv

\* The parts about calls when the boot has no call any more.
LEMMA NoneCalled ==
    ASSUME DiskInv, stage # "ready", call' = [call EXCEPT !["main"] = NoCall],
           stage' \in {"format", "ready", "halted"}
    PROVE  CallShape' /\ CallsFollow' /\ CutFits' /\ CallsFit'
<1>1. PICK r : r = NoCall
  OBVIOUS
<1>2. AtStart(r) /\ call' = [call EXCEPT !["main"] = r]
  BY <1>1, NoCallAtStart
<1>3. /\ CallShape' /\ CallsFollow' /\ CutFits'
      /\ call'["main"] = r /\ call'["irq"] = call["irq"]
      /\ call["irq"].at = "out" /\ call["irq"].does.op = "none" /\ ~call["irq"].cut
  BY <1>2, MainStarts
<1>4. r.at = "out" /\ r.does.op = "none" /\ ~r.cut
  BY <1>1, NoCallIs
<1>5. CallsFit'
  BY <1>3, <1>4 DEF CallsFit, WriteFits, Callers
<1> QED
  BY <1>3, <1>5

\* The superblock on the disk is used.
LEMMA MountExistingKeeps ==
    ASSUME DiskInv, MountExisting
    PROVE  DiskInv'
<1>1. /\ stage = "probe" /\ call["main"].at = "returned" /\ call["main"].ok
      /\ call["main"].does.data.text = "super"
      /\ call' = [call EXCEPT !["main"] = NoCall]
      /\ superblock' = call["main"].does.data.reserved
      /\ UNCHANGED driveVars /\ UNCHANGED pastVars
  BY DEF MountExisting, Loaded, SectorZero
<1>2. PICK r : r = superblock'
  OBVIOUS
<1>3. fs_setup_disk_device(r, "ready")
  BY <1>2, Zenon DEF MountExisting
<1>4. Registry(devices) /\ DOMAIN slots = SlotIdx
  BY <1>1 DEF DiskInv, DiskShape, DeviceFits, Registry, SlotIdx
<1>5. /\ stage' \in {"ready", "halted"} /\ Registry(devices)' /\ DOMAIN slots' = SlotIdx
      /\ DeviceFits'
  BY <1>2, <1>3, <1>4, SetupFits
<1>6. CallShape' /\ CallsFollow' /\ CutFits' /\ CallsFit'
  BY <1>1, <1>5, NoneCalled
<1>7. call["main"].does.lba = 0
  BY <1>1 DEF DiskInv, CallsFit
<1>8. ~Busy /\ platter[0] = call["main"].does.data
  BY <1>1, <1>7, BootHas
<1>9. UNCHANGED <<regs, drive, platter, last, suspect, misread>>
  BY <1>1 DEF driveVars, pastVars
<1>10. DiskShape'
  BY <1>5, <1>6, <1>9 DEF DiskInv, DiskShape, DriveShape, Registry, SlotIdx
<1>11. BootQuiet' /\ StoreFits'
  BY <1>5, <1>8, <1>9 DEF BootQuiet, StoreFits, Busy
<1>12. PlatterFits'
  <2>1. platter[0].text = "super" /\ superblock' = platter[0].reserved
    BY <1>1, <1>8
  <2>2. InForce' = InForce /\ Mounted'
    BY <1>1, <1>5, <2>1 DEF Mounted, InForce
  <2>3. PlatterFits
    BY DEF DiskInv
  <2>4. \A lba \in FileSectors \ suspect : Kept(lba, InForce)
    BY <2>1, <2>3 DEF PlatterFits
  <2>5. \A lba \in FileSectors \ suspect' : Kept(lba, InForce)'
    BY <1>9, <2>2, <2>4 DEF Kept
  <2> QED
    BY <1>9, <2>1, <2>2, <2>3, <2>5 DEF PlatterFits
<1> QED
  BY <1>5, <1>6, <1>10, <1>11, <1>12 DEF DiskInv

\* There is no superblock: nothing is known of the sectors any more.
LEMMA FormatBeginsKeeps ==
    ASSUME DiskInv, FormatBegins
    PROVE  DiskInv'
<1>1. /\ stage = "probe" /\ call["main"].at = "returned"
      /\ ~(call["main"].ok /\ call["main"].does.data.text = "super")
      /\ call' = [call EXCEPT !["main"] = NoCall]
      /\ last' = [s \in FileSectors |-> {"unknown"}]
      /\ UNCHANGED driveVars /\ UNCHANGED <<suspect, misread>>
  BY DEF FormatBegins, Loaded, SectorZero
<1>2. PICK r : r = superblock'
  OBVIOUS
<1>3. fs_setup_disk_device(r, "format")
  BY <1>2, Zenon DEF FormatBegins
<1>4. Registry(devices) /\ DOMAIN slots = SlotIdx
  BY <1>1 DEF DiskInv, DiskShape, DeviceFits, Registry, SlotIdx
<1>5. /\ stage' \in {"format", "halted"} /\ Registry(devices)' /\ DOMAIN slots' = SlotIdx
      /\ DeviceFits'
  BY <1>2, <1>3, <1>4, SetupFits
<1>6. CallShape' /\ CallsFollow' /\ CutFits' /\ CallsFit'
  BY <1>1, <1>5, NoneCalled
<1>7. call["main"].does.lba = 0 /\ call["main"].ok
  BY <1>1 DEF DiskInv, CallsFit
<1>8. ~Busy /\ platter[0] = call["main"].does.data
  BY <1>1, <1>7, BootHas
<1>9. UNCHANGED <<regs, drive, platter, suspect, misread>>
  BY <1>1 DEF driveVars
<1>10. DiskShape'
  BY <1>1, <1>5, <1>6, <1>9 DEF DiskInv, DiskShape, DriveShape, Registry, SlotIdx
<1>11. BootQuiet' /\ StoreFits'
  BY <1>5, <1>8, <1>9 DEF BootQuiet, StoreFits, Busy
<1>12. PlatterFits'
  <2>1. platter'[0].text # "super"
    BY <1>1, <1>7, <1>8, <1>9
  <2>2. \A lba \in FileSectors : Kept(lba, InForce)'
    BY <1>1 DEF Kept
  <2>3. misread = FALSE
    BY DEF DiskInv, PlatterFits
  <2> QED
    BY <1>5, <1>9, <2>1, <2>2, <2>3 DEF PlatterFits
<1> QED
  BY <1>5, <1>6, <1>10, <1>11, <1>12 DEF DiskInv

\* The format writes a sector.
LEMMA FormatWritesKeeps ==
    ASSUME DiskInv, FormatWrites
    PROVE  DiskInv'
<1>1. PICK lba \in FormatSectors :
        call' = [call EXCEPT !["main"] = Entered("write", lba, ThroughDevice(lba, Plain("fresh")))]
  BY DEF FormatWrites
<1>2. stage = "format" /\ UNCHANGED memoryVars /\ UNCHANGED driveVars /\ UNCHANGED pastVars
  BY DEF FormatWrites
<1>3. PICK data : data = ThroughDevice(lba, Plain("fresh"))
  OBVIOUS
<1>4. data = Under(superblock, lba, "fresh")
  BY <1>2, <1>3, ThroughWrites DEF DiskInv
<1>5. PICK r : r = Entered("write", lba, data)
  OBVIOUS
<1>6. Begun(r, "write", lba, data)
  BY <1>5, EnteredIs
<1>7. lba \in Sectors /\ lba # 0
  BY DEF FormatSectors, Sectors
<1>8. AtStart(r) /\ call' = [call EXCEPT !["main"] = r] /\ stage # "ready"
  BY <1>1, <1>2, <1>3, <1>5, <1>6, <1>7 DEF AtStart, Begun
<1>9. /\ CallShape' /\ CallsFollow' /\ CutFits'
      /\ call'["main"] = r /\ call'["irq"] = call["irq"]
      /\ call["irq"].at = "out" /\ call["irq"].does.op = "none" /\ ~call["irq"].cut
  BY <1>8, MainStarts
<1>10. r.at = "low" /\ r.does.op = "write" /\ r.does.lba = lba /\ r.does.data = data /\ ~r.cut
  BY <1>6 DEF Begun
<1>11. data.text = "fresh"
  BY <1>4 DEF Under
<1>12. UNCHANGED <<stage, superblock>>
  BY <1>2 DEF memoryVars
<1>13. WriteFits(call["main"].does)'
  BY <1>2, <1>4, <1>7, <1>9, <1>10, <1>11, <1>12 DEF WriteFits
<1>14. CallsFit'
  BY <1>2, <1>9, <1>10, <1>12, <1>13 DEF CallsFit, WriteFits, Callers
<1>15. UNCHANGED regs /\ UNCHANGED drive /\ UNCHANGED platter
  BY <1>2 DEF driveVars
<1>16. DriveShape'
  BY <1>15 DEF DiskInv, DiskShape, DriveShape
<1> QED
  BY <1>2, <1>9, <1>14, <1>15, <1>16, DeviceStays, StoreStays, PlatterStays, QuietStays, ShapeStays
     DEF DiskInv, pastVars

\* The stages after the format has begun differ in nothing the device depends on.
LEMMA FormatGoesOnKeeps ==
    ASSUME DiskInv, FormatGoesOn
    PROVE  DiskInv'
<1>1. /\ stage = "format" /\ call["main"].at = "returned" /\ call["main"].ok /\ stage' = "save"
      /\ call' = [call EXCEPT !["main"] = Entered("write", 0, Content("super", superblock))]
      /\ UNCHANGED <<devices, slots, superblock, fs_disk_device_id>>
      /\ UNCHANGED driveVars /\ UNCHANGED pastVars
  BY DEF FormatGoesOn
<1>2. PICK data : data = Content("super", superblock)
  OBVIOUS
<1>3. PICK r : r = Entered("write", 0, data)
  OBVIOUS
<1>4. Begun(r, "write", 0, data) /\ 0 \in Sectors
  BY <1>3, EnteredIs DEF Sectors
<1>5. AtStart(r) /\ call' = [call EXCEPT !["main"] = r] /\ stage # "ready"
  BY <1>1, <1>2, <1>3, <1>4 DEF AtStart, Begun
<1>6. /\ CallShape' /\ CallsFollow' /\ CutFits'
      /\ call'["main"] = r /\ call'["irq"] = call["irq"]
      /\ call["irq"].at = "out" /\ call["irq"].does.op = "none" /\ ~call["irq"].cut
  BY <1>5, MainStarts
<1>7. r.at = "low" /\ r.does.op = "write" /\ r.does.lba = 0 /\ r.does.data = data /\ ~r.cut
  BY <1>4 DEF Begun
<1>8. WriteFits(call["main"].does)'
  BY <1>1, <1>2, <1>6, <1>7 DEF WriteFits
<1>9. CallsFit'
  BY <1>1, <1>6, <1>7, <1>8 DEF CallsFit, WriteFits, Callers
<1>10. UNCHANGED <<regs, drive, platter, last, suspect, misread>>
  BY <1>1 DEF driveVars, pastVars
<1>11. ~Busy
  BY <1>1, BootHas
<1>12. DiskShape'
  BY <1>1, <1>6, <1>10 DEF DiskInv, DiskShape, DriveShape
<1>13. DeviceFits'
  BY <1>1 DEF DiskInv, DeviceFits
<1>14. BootQuiet' /\ StoreFits'
  BY <1>1, <1>10, <1>11 DEF BootQuiet, StoreFits, Busy
<1>15. PlatterFits'
  BY <1>1, <1>10 DEF DiskInv, PlatterFits, Mounted, InForce, Kept
<1> QED
  BY <1>6, <1>9, <1>12, <1>13, <1>14, <1>15 DEF DiskInv

\* The superblock is written.
LEMMA FormatEndsKeeps ==
    ASSUME DiskInv, FormatEnds
    PROVE  DiskInv'
<1>1. /\ stage = "save" /\ call["main"].at = "returned" /\ call["main"].ok /\ stage' = "ready"
      /\ call' = [call EXCEPT !["main"] = NoCall]
      /\ UNCHANGED <<devices, slots, superblock, fs_disk_device_id>>
      /\ UNCHANGED driveVars /\ UNCHANGED pastVars
  BY DEF FormatEnds
<1>2. CallShape' /\ CallsFollow' /\ CutFits' /\ CallsFit'
  BY <1>1, NoneCalled
<1>3. UNCHANGED <<regs, drive, platter, last, suspect, misread>>
  BY <1>1 DEF driveVars, pastVars
<1>4. call["main"].does.lba = 0 /\ call["main"].does.data = Content("super", superblock)
  BY <1>1 DEF DiskInv, CallsFit, WriteFits, Callers
<1>5. ~Busy /\ platter[0] = Content("super", superblock)
  BY <1>1, <1>4, BootHas
<1>6. platter[0].text = "super"
  BY <1>5 DEF Content
<1>7. DiskShape'
  BY <1>1, <1>2, <1>3 DEF DiskInv, DiskShape, DriveShape
<1>8. DeviceFits'
  BY <1>1 DEF DiskInv, DeviceFits
<1>9. BootQuiet' /\ StoreFits'
  BY <1>1, <1>3, <1>5 DEF BootQuiet, StoreFits, Busy
<1>10. PlatterFits'
  BY <1>1, <1>3, <1>6 DEF DiskInv, PlatterFits, Mounted, InForce, Kept
<1> QED
  BY <1>2, <1>7, <1>8, <1>9, <1>10 DEF DiskInv

\* A write of the format has failed; the drive may still be storing the superblock.
LEMMA BootFailsKeeps ==
    ASSUME DiskInv, BootFails
    PROVE  DiskInv'
<1>1. /\ stage \in {"format", "save"} /\ stage' = "halted"
      /\ call' = [call EXCEPT !["main"] = NoCall]
      /\ UNCHANGED <<devices, slots, superblock, fs_disk_device_id>>
      /\ UNCHANGED driveVars /\ UNCHANGED pastVars
  BY DEF BootFails
<1>2. CallShape' /\ CallsFollow' /\ CutFits' /\ CallsFit'
  BY <1>1, NoneCalled
<1>3. UNCHANGED <<regs, drive, platter, last, suspect, misread>>
  BY <1>1 DEF driveVars, pastVars
<1>4. DiskShape'
  BY <1>1, <1>2, <1>3 DEF DiskInv, DiskShape, DriveShape
<1>5. DeviceFits'
  BY <1>1 DEF DiskInv, DeviceFits
<1>6. BootQuiet' /\ StoreFits'
  BY <1>1, <1>3 DEF DiskInv, BootQuiet, StoreFits, Busy, HasData, Mounted
<1>7. PlatterFits'
  BY <1>1, <1>3 DEF DiskInv, PlatterFits, Mounted, InForce, Kept
<1> QED
  BY <1>2, <1>4, <1>5, <1>6, <1>7 DEF DiskInv

-----------------------------------------------------------------------------
(* Afterwards *)

\* A call of a process, or of the shell with no process at the disk, or of the shell
\* that cuts into a process's.
LEMMA CallsKeeps ==
    ASSUME DiskInv, NEW c \in Callers, NEW op \in {"read", "write"}, NEW lba \in FileSectors,
           NEW data, Calls(c, op, lba, data),
           op = "write" => /\ data.text \notin {"unknown", "super"}
                           /\ data = Under(superblock, lba, data.text)
    PROVE  DiskInv'
<1>1. PICK cuts \in BOOLEAN : cuts = (c = "irq" /\ call["main"].at \notin {"out", "low"})
  OBVIOUS
<1>2. /\ stage = "ready" /\ call[c].at = "out" /\ call["irq"].at = "out"
      /\ call' = [call EXCEPT ![c] = Entered(op, lba, data),
                              !["main"].cut = IF c = "main" THEN FALSE ELSE @ \/ cuts]
      /\ suspect' = IF cuts THEN suspect \cup Mixed(lba, call["main"].does.lba) ELSE suspect
      /\ UNCHANGED memoryVars /\ UNCHANGED driveVars /\ UNCHANGED <<last, misread>>
  BY <1>1, Zenon DEF Calls, CallAt, Callers
<1>3. CallShape /\ CallsFit /\ DOMAIN call = Callers
      /\ DOMAIN call["main"] = {"at", "ok", "cut", "does"}
  BY DEF DiskInv, DiskShape, CallShape, Callers
<1>4. PICK e : e = Entered(op, lba, data)
  OBVIOUS
<1>5. Begun(e, op, lba, data) /\ lba \in Sectors /\ lba # 0
  BY <1>4, EnteredIs DEF FileSectors
<1>6. PICK m : m = IF c = "main" THEN [e EXCEPT !.cut = FALSE]
                   ELSE [call["main"] EXCEPT !.cut = (@ \/ cuts)]
  OBVIOUS
<1>7. /\ DOMAIN call' = Callers /\ call'["main"] = m
      /\ c = "irq" => call'["irq"] = e
      /\ c = "main" => call'["irq"] = call["irq"]
  <2>1. CASE c = "main"
    <3>1. call' = [call EXCEPT !["main"] = e, !["main"].cut = FALSE]
      BY <1>2, <1>4, <2>1
    <3> QED
      BY <1>3, <1>6, <2>1, <3>1 DEF Callers
  <2>2. CASE c = "irq"
    <3>1. call' = [call EXCEPT !["irq"] = e, !["main"].cut = (@ \/ cuts)]
      BY <1>2, <1>4, <2>2
    <3> QED
      BY <1>3, <1>6, <2>2, <3>1 DEF Callers
  <2> QED
    BY <2>1, <2>2 DEF Callers
<1>8. UNCHANGED <<stage, superblock>> /\ UNCHANGED <<regs, drive, platter>>
  BY <1>2 DEF memoryVars, driveVars
<1>9. suspect \subseteq suspect'
  BY <1>2
<1>10. CASE c = "main"
  <2>1. Begun(m, op, lba, data)
    <3>1. m = [e EXCEPT !.cut = FALSE]
      BY <1>6, <1>10
    <3> QED
      BY <1>5, <3>1 DEF Begun
  <2>2. /\ m.at = "low" /\ m.cut = FALSE /\ m.does.op = op /\ m.does.lba = lba
        /\ m.does.data = data
    BY <2>1 DEF Begun
  <2>3. CallShape'
    BY <1>3, <1>5, <1>7, <1>10, <2>1 DEF CallShape, Begun, Callers
  <2>4. WriteFits(call["main"].does)' /\ WriteFits(call["irq"].does)'
    BY <1>2, <1>3, <1>5, <1>7, <1>8, <1>10, <2>2 DEF WriteFits, CallsFit, Callers
  <2>5. CallsFit'
    BY <1>2, <1>3, <1>7, <1>8, <1>10, <2>2, <2>4 DEF CallsFit, Callers
  <2>6. CutFits'
    BY <1>7, <2>2 DEF CutFits
  <2>7. CallsFollow'
    <3> SUFFICES ASSUME NEW d \in Callers PROVE Follows(d)'
      BY DEF CallsFollow
    <3>1. call'[d].at \in {"out", "low"}
      BY <1>2, <1>7, <1>10, <2>2 DEF Callers
    <3> QED
      BY <3>1 DEF Follows
  <2> QED
    BY <2>3, <2>5, <2>6, <2>7, <1>2, <1>8, <1>10, <1>1, DeviceStays, StoreStays, PlatterStays, QuietStays
       DEF DiskInv, DiskShape, DriveShape, memoryVars, pastVars
<1>11. CASE c = "irq"
  <2>1. m = [call["main"] EXCEPT !.cut = (@ \/ cuts)]
    BY <1>6, <1>11
  <2>2. /\ DOMAIN m = {"at", "ok", "cut", "does"} /\ m.at = call["main"].at
        /\ m.does = call["main"].does /\ m.cut = (call["main"].cut \/ cuts)
        /\ m.ok = call["main"].ok
    BY <1>3, <2>1
  <2>3. /\ e.at = "low" /\ e.cut = FALSE /\ e.does.op = op /\ e.does.lba = lba
        /\ e.does.data = data
    BY <1>5 DEF Begun
  <2>4. CallShape'
    BY <1>3, <1>5, <1>7, <1>11, <2>2 DEF CallShape, Begun, Callers
  <2>5. m.cut => cuts
    BY <1>1, <1>3, <1>11, <2>2 DEF CallsFit
  <2>6. cuts => m.at \notin {"out", "low"}
    BY <1>1, <2>2
  <2>7. m.at \notin {"out", "low"} => m.cut
    BY <1>1, <1>11, <2>2
  <2>8. WriteFits(call["main"].does)' /\ WriteFits(call["irq"].does)'
    BY <1>2, <1>3, <1>5, <1>7, <1>8, <1>11, <2>2, <2>3 DEF WriteFits, CallsFit, Callers
  <2>9. /\ m.at = "out" => m.does.op = "none"
        /\ m.at # "out" => m.does.op \in {"read", "write"}
        /\ m.at # "returned"
    BY <1>2, <1>3, <2>2 DEF CallsFit, Callers
  <2>10. CallsFit'
    BY <1>2, <1>7, <1>8, <1>11, <2>3, <2>5, <2>6, <2>7, <2>8, <2>9 DEF CallsFit, Callers
  <2>11. CallsFollow'
    <3> SUFFICES ASSUME NEW d \in Callers, InControl(d)' PROVE Follows(d)'
      BY DEF CallsFollow
    <3>1. call'[d].at \in {"out", "low"}
      BY <1>7, <1>11, <2>3, <2>7 DEF Callers, InControl
    <3> QED
      BY <3>1 DEF Follows
  <2>12. CutFits'
    <3> SUFFICES ASSUME m.cut PROVE CutFits'
      BY <1>7 DEF CutFits
    <3>1. cuts /\ m.at \notin {"out", "low", "returned"}
      BY <2>5, <2>6, <2>9
    <3>2. PICK n \in Sectors : n = call["main"].does.lba
      BY <1>3 DEF CallShape, Callers
    <3>3. suspect' = suspect \cup Mixed(lba, n)
      BY <1>2, <3>1, <3>2
    <3>4. n \in suspect'
      BY <1>5, <3>3, MixedHas
    <3>5. CASE call["main"].cut
      <4>1. CutFits /\ GoesOnWith
        BY <1>2 DEF DiskInv, GoesOnWith
      <4>2. /\ call["main"].at \in {"high", "command"} =>
                 /\ 2 * regs.high + regs.low \in suspect'
                 /\ 2 * (n \div 2) + regs.low \in suspect'
                 /\ Busy => drive.does.lba \in suspect'
            /\ call["main"].at \in {"drq", "data"} /\ drive.state \in {"busy", "drq"} =>
                 drive.does.lba \in suspect'
        BY <1>9, <3>2, <3>5, <4>1 DEF CutFits
      <4>3. call'["main"].does.lba = n /\ call'["irq"].does.lba = lba
            /\ call'["main"].at = call["main"].at
        BY <1>7, <1>11, <2>2, <2>3, <3>2
      <4>4. regs' = regs /\ drive' = drive
        BY <1>8
      <4>5. Mixed(lba, n) \subseteq suspect'
        BY <3>3
      <4> QED
        BY <3>4, <4>2, <4>3, <4>4, <4>5, Zenon DEF CutFits, Busy
    <3>6. CASE ~call["main"].cut
      <4>1. Follows("main")
        BY <1>2, <3>6 DEF DiskInv, CallsFollow, InControl, Callers
      <4>2. Busy => m.at \notin {"high", "command"} /\ (m.at \in {"drq", "data"} => drive.does.lba = n)
        BY <2>2, <3>2, <4>1 DEF Follows, Doing
      <4>3. call'["main"].does.lba = n /\ call'["irq"].does.lba = lba /\ call'["irq"].at = "low"
        BY <1>7, <1>11, <2>2, <2>3, <3>2
      <4>4. GoesOnWith' => Busy
        BY <1>8, <4>3 DEF GoesOnWith, Busy
      <4> QED
        BY <1>7, <1>8, <3>3, <3>4, <4>2, <4>3, <4>4 DEF CutFits
    <3> QED
      BY <3>5, <3>6
  <2>13. StoreFits'
    BY <1>2, <1>8, <1>9 DEF DiskInv, StoreFits, Busy, HasData, Mounted
  <2>14. PlatterFits'
    BY <1>2, <1>8, <1>9 DEF DiskInv, PlatterFits, Mounted, InForce, Kept
  <2> QED
    BY <2>4, <2>10, <2>11, <2>12, <2>13, <2>14, <1>2, <1>8, DeviceStays, QuietStays
       DEF DiskInv, DiskShape, DriveShape, memoryVars
<1> QED
  BY <1>10, <1>11 DEF Callers

\* A read begins.
LEMMA ReadsKeep ==
    ASSUME DiskInv, NEW c \in Callers, NEW lba \in FileSectors, fs_disk_read_sector(c, lba)
    PROVE  DiskInv'
<1>1. PICK data : data = Plain("unknown")
  OBVIOUS
<1>2. Calls(c, "read", lba, data)
  BY <1>1, Zenon DEF fs_disk_read_sector
<1> QED
  BY <1>2, CallsKeeps

\* A write begins.
LEMMA WritesKeep ==
    ASSUME DiskInv, NEW c \in Callers, NEW lba \in FileSectors, NEW text \in Texts,
           fs_disk_write_sector(c, lba, text)
    PROVE  DiskInv'
<1>1. PICK data : data = ThroughDevice(lba, Plain(text))
  OBVIOUS
<1>2. Calls(c, "write", lba, data)
  BY <1>1, Zenon DEF fs_disk_write_sector
<1>3. stage = "ready"
  BY <1>2 DEF Calls
<1>4. data = Under(superblock, lba, text)
  BY <1>1, <1>3, ThroughWrites DEF DiskInv
<1>5. data.text = text
  BY <1>4 DEF Under
<1>6. text \notin {"unknown", "super"}
  BY DiskAssumption
<1>7. data = Under(superblock, lba, data.text)
  BY <1>4, <1>5, Zenon
<1>8. data.text \notin {"unknown", "super"}
  BY <1>5, <1>6, Zenon
<1> QED
  BY <1>2, <1>7, <1>8, CallsKeeps

\* The power fails, and what the drive was storing is stored or not.
LEMMA PowerFailureKeeps ==
    ASSUME DiskInv, PowerFailure
    PROVE  DiskInv'
<1>1. /\ stage # "off" /\ stage' = "off"
      /\ platter' \in IF Busy /\ HasData THEN {platter, Stored} ELSE {platter}
      /\ devices' = <<>> /\ slots' = [i \in DOMAIN slots |-> NoSlot]
      /\ call' = [c \in DOMAIN call |-> NoCall]
      /\ regs' = [low |-> 0, high |-> 0] /\ drive' = IdleDrive
      /\ UNCHANGED <<last, suspect, misread>>
  BY DEF PowerFailure, pastVars
<1>2. DOMAIN call = Callers /\ DOMAIN slots = SlotIdx /\ DOMAIN platter = Sectors
  BY DEF DiskInv, DiskShape, CallShape, SlotIdx
<1>3. /\ DOMAIN call' = Callers /\ call'["main"] = NoCall /\ call'["irq"] = NoCall
      /\ \A c \in Callers : call'[c] = NoCall
  BY <1>1, <1>2 DEF Callers
<1>4. CallShape'
  BY <1>3, NoCallAtStart DEF CallShape, AtStart
<1>5. CallsFit'
  BY <1>1, <1>3, NoCallIs DEF CallsFit, WriteFits
<1>6. CallsFollow' /\ CutFits'
  BY <1>3, NoCallIs DEF CallsFollow, Follows, CutFits
<1>7. DriveShape' /\ BootQuiet' /\ StoreFits'
  <2>1. 0 \in Sectors
    BY DEF Sectors
  <2>2. DOMAIN regs' = {"low", "high"} /\ regs'.low = 0 /\ regs'.high = 0
    BY <1>1
  <2> QED
    BY <1>1, <2>1, <2>2, IdleIs DEF DriveShape, BootQuiet, StoreFits, Busy, HasData
<1>8. PlatterFits' /\ DOMAIN platter' = Sectors
  <2>1. PICK now : now = platter'
    OBVIOUS
  <2>2. /\ DOMAIN now = Sectors /\ misread = FALSE
        /\ now[0].text = "super" =>
              /\ now[0] = Content("super", now[0].reserved)
              /\ \A lba \in FileSectors \ suspect :
                    \/ "unknown" \in last[lba]
                    \/ \E t \in last[lba] : now[lba] = Under(now[0].reserved, lba, t)
    <3>1. CASE now = platter
      <4>1. PlatterFits
        BY DEF DiskInv
      <4> SUFFICES ASSUME platter[0].text = "super"
                   PROVE  /\ platter[0] = Content("super", platter[0].reserved)
                          /\ \A lba \in FileSectors \ suspect : Kept(lba, platter[0].reserved)
        BY <1>2, <3>1, <4>1 DEF PlatterFits, Kept
      <4>2. platter[0] = Content("super", InForce)
        BY <4>1 DEF PlatterFits
      <4>3. platter[0].reserved = InForce
        <5>1. PICK f : f = InForce
          OBVIOUS
        <5>2. platter[0] = [text |-> "super", reserved |-> f, pads |-> {}]
          BY <4>2, <5>1, Zenon DEF Content
        <5> QED
          BY <5>1, <5>2
      <4>4. \A lba \in FileSectors \ suspect : Kept(lba, InForce)
        BY <4>1 DEF PlatterFits
      <4> QED
        BY <4>2, <4>3, <4>4, Zenon
    <3>2. CASE now # platter
      <4>1. Busy /\ HasData /\ now = Stored
        BY <1>1, <2>1, <3>2
      <4>0. PICK d : d = drive.does.data
        OBVIOUS
      <4>2. PICK l \in Sectors : l = drive.does.lba /\ d = drive.does.data
        BY <4>0 DEF DiskInv, DiskShape, DriveShape
      <4>3. now = [platter EXCEPT ![l] = d]
        BY <4>1, <4>2 DEF Stored
      <4>4. now[l] = d /\ DOMAIN now = Sectors /\ \A s \in Sectors \ {l} : now[s] = platter[s]
        BY <1>2, <4>3
      <4>5. PlatterFits /\ StoreFits /\ Mounted /\ InForce = superblock
        BY <4>1 DEF DiskInv, StoreFits, InForce
      <4>6. misread = FALSE /\ (\A lba \in FileSectors \ suspect : Kept(lba, superblock))
        BY <4>5 DEF PlatterFits
      <4>7. 0 \in Sectors
        BY DEF Sectors
      <4>8. now[0].text = "super" => now[0] = Content("super", superblock)
        <5>1. CASE l = 0
          BY <4>1, <4>2, <4>4, <4>5, <5>1 DEF StoreFits
        <5>2. CASE l # 0
          BY <4>4, <4>5, <4>7, <5>2 DEF PlatterFits
        <5> QED
          BY <5>1, <5>2
      <4>9. ASSUME NEW lba \in FileSectors \ suspect
            PROVE  \/ "unknown" \in last[lba]
                   \/ \E t \in last[lba] : now[lba] = Under(superblock, lba, t)
        <5>1. CASE lba = l
          <6>1. l # 0
            BY <4>9, <5>1 DEF FileSectors
          <6> QED
            BY <4>1, <4>2, <4>4, <4>5, <4>9, <5>1, <6>1 DEF StoreFits
        <5>2. CASE lba # l
          <6>1. now[lba] = platter[lba]
            BY <4>4, <4>9, <5>2 DEF FileSectors
          <6> QED
            BY <4>6, <4>9, <6>1 DEF Kept
        <5> QED
          BY <5>1, <5>2
      <4>10. now[0].text = "super" => now[0].reserved = superblock
        <5>1. PICK f : f = superblock
          OBVIOUS
        <5>2. Content("super", f).reserved = f
          BY DEF Content
        <5> QED
          BY <4>8, <5>1, <5>2
      <4> QED
        BY <4>4, <4>6, <4>8, <4>9, <4>10, Zenon
    <3> QED
      BY <3>1, <3>2
  <2>3. ~Mounted' /\ InForce' = now[0].reserved
    BY <1>1, <2>1 DEF Mounted, InForce
  <2>4. ASSUME now[0].text = "super", NEW lba \in FileSectors \ suspect' PROVE Kept(lba, InForce)'
    BY <1>1, <2>1, <2>2, <2>3, <2>4 DEF Kept
  <2> QED
    BY <1>1, <2>1, <2>2, <2>3, <2>4 DEF PlatterFits
<1>9. DiskShape' /\ DeviceFits'
  <2>1. DOMAIN slots' = SlotIdx /\ devices' \in Seq(KnownDevices)
    BY <1>1, <1>2
  <2> QED
    BY <1>1, <1>4, <1>7, <1>8, <2>1 DEF DiskInv, DiskShape, DeviceFits, SlotIdx
<1> QED
  BY <1>5, <1>6, <1>7, <1>8, <1>9 DEF DiskInv

-----------------------------------------------------------------------------
\* A blank disk, or an older one.
LEMMA DiskStarts == DiskInit => DiskInv
<1> SUFFICES ASSUME DiskInit PROVE DiskInv
  OBVIOUS
<1>1. /\ stage = "off" /\ devices = <<>> /\ slots = [i \in 0 .. (CryptoSlots - 1) |-> NoSlot]
      /\ call = [c \in {"main", "irq"} |-> NoCall]
      /\ regs = [low |-> 0, high |-> 0] /\ drive = IdleDrive
      /\ suspect = {} /\ misread = FALSE
  BY DEF DiskInit
<1>2. /\ DOMAIN call = Callers /\ call["main"] = NoCall /\ call["irq"] = NoCall
      /\ \A c \in Callers : call[c] = NoCall
  BY <1>1 DEF Callers
<1>3. CallShape
  BY <1>2, NoCallAtStart DEF CallShape, AtStart
<1>4. CallsFit
  BY <1>1, <1>2, NoCallIs DEF CallsFit, WriteFits
<1>5. CallsFollow /\ CutFits
  BY <1>2, NoCallIs DEF CallsFollow, Follows, CutFits
<1>6. DriveShape /\ BootQuiet /\ StoreFits
  <2>1. 0 \in Sectors
    BY DEF Sectors
  <2>2. DOMAIN regs = {"low", "high"} /\ regs.low = 0 /\ regs.high = 0
    BY <1>1
  <2> QED
    BY <1>1, <2>1, <2>2, IdleIs DEF DriveShape, BootQuiet, StoreFits, Busy, HasData
<1>7. PlatterFits /\ DOMAIN platter = Sectors /\ DOMAIN last = FileSectors
  <2>0. 0 \in Sectors
    BY DEF Sectors
  <2>1. CASE /\ platter = [s \in Sectors |-> Plain("blank")]
             /\ last = [s \in FileSectors |-> {"unknown"}]
    <3>1. Plain("blank").text = "blank"
      BY DEF Plain, Content
    <3>2. platter[0].text = "blank"
      BY <2>0, <2>1, <3>1
    <3> QED
      BY <1>1, <2>1, <3>2 DEF PlatterFits, Mounted
  <2>2. CASE /\ platter = [s \in Sectors |-> Plain(IF s = 0 THEN "super" ELSE "fresh")]
             /\ last = [s \in FileSectors |-> {"fresh"}]
    <3>1. platter[0] = Plain("super")
      BY <2>0, <2>2
    <3>2. \A lba \in FileSectors : platter[lba] = Plain("fresh") /\ last[lba] = {"fresh"}
      BY <2>2 DEF FileSectors
    <3>3. platter[0] = Content("super", NoReserved)
      BY <3>1 DEF Plain
    <3>4. platter[0].reserved = NoReserved
      <4>1. PICK f : f = NoReserved
        OBVIOUS
      <4>2. Content("super", f).reserved = f
        BY DEF Content
      <4> QED
        BY <3>3, <4>1, <4>2
    <3>5. InForce = NoReserved
      BY <1>1, <3>4 DEF InForce, Mounted
    <3>6. NoReserved[0] # Magic
      BY DEF NoReserved, Magic
    <3>7. \A lba : Under(NoReserved, lba, "fresh") = Plain("fresh")
      BY <3>6, Zenon DEF Under, Plain, Content
    <3>8. \A lba \in FileSectors : Kept(lba, InForce)
      BY <3>2, <3>5, <3>7 DEF Kept
    <3> QED
      BY <1>1, <2>2, <3>3, <3>5, <3>8 DEF PlatterFits
  <2> QED
    BY <2>1, <2>2 DEF DiskInit
<1>8. DiskShape /\ DeviceFits
  <2>1. devices \in Seq(KnownDevices) /\ DOMAIN slots = 0 .. (CryptoSlots - 1)
    BY <1>1
  <2> QED
    BY <1>1, <1>3, <1>6, <1>7, <2>1 DEF DiskShape, DeviceFits
<1> QED
  BY <1>4, <1>5, <1>6, <1>7, <1>8 DEF DiskInv

\* Every step of the disk's callers, of the drive and of the power.
LEMMA DiskStep ==
    ASSUME ~SuperReadMayFail, DiskInv, DiskNext
    PROVE  DiskInv'
<1>1. CASE Boot
  BY <1>1, BootKeeps
<1>2. CASE fs_init
  BY <1>2, MountExistingKeeps, FormatBeginsKeeps, FormatWritesKeeps, FormatGoesOnKeeps,
     FormatEndsKeeps, BootFailsKeeps DEF fs_init
<1>3. CASE DriveSeeks \/ DriveStores \/ PowerFailure
  BY <1>3, DriveSeeksKeeps, DriveStoresKeeps, PowerFailureKeeps
<1>4. CASE \E c \in Callers : ata_transfer(c)
  BY <1>4, SelectLowKeeps, SelectHighKeeps, IssueCommandKeeps, WaitDrqKeeps, ReadDataKeeps,
     WriteDataKeeps, WaitNotBusyKeeps, ReadStatusKeeps, TimesOutKeeps DEF ata_transfer
<1>5. CASE \E c \in Callers, lba \in FileSectors :
              \/ fs_disk_read_sector(c, lba)
              \/ \E text \in Texts : fs_disk_write_sector(c, lba, text)
  BY <1>5, ReadsKeep, WritesKeep
<1>6. ShellSectors \subseteq FileSectors
  BY DiskAssumption
<1> QED
  BY <1>1, <1>2, <1>3, <1>4, <1>5, <1>6, Zenon DEF DiskNext, Callers

\* Nothing happens to the disk.
LEMMA DiskIdle == DiskInv /\ UNCHANGED diskVars => DiskInv'
<1> SUFFICES ASSUME DiskInv, UNCHANGED diskVars PROVE DiskInv'
  OBVIOUS
<1>1. /\ UNCHANGED memoryVars /\ UNCHANGED call /\ UNCHANGED regs /\ UNCHANGED drive
      /\ UNCHANGED platter /\ UNCHANGED pastVars /\ UNCHANGED suspect
  BY DEF diskVars, driveVars, pastVars
<1>2. CallShape' /\ DriveShape' /\ CallsFit'
  BY <1>1 DEF DiskInv, DiskShape, CallShape, DriveShape, CallsFit, WriteFits, memoryVars
<1>3. CallsFollow' /\ CutFits'
  BY <1>1 DEF DiskInv, CallsFollow, InControl, Follows, Doing, Busy, CutFits, GoesOnWith
<1> QED
  BY <1>1, <1>2, <1>3, DeviceStays, StoreStays, PlatterStays, QuietStays, ShapeStays
     DEF DiskInv, pastVars

(* However many boots, power failures, drive errors and late answers there are, and
   however the shell's calls cut into a process's: a sector reads as it was last
   written, unless its address is one that the two could make between them in the
   drive's registers.  The superblock's own read at boot must not fail: fs_init()
   formats a disk whose superblock it could not read. *)
THEOREM SectorsStay == ASSUME ~SuperReadMayFail PROVE FairSpec => []SectorsKept
<1>1. DriversInit => DiskInv
  BY DiskStarts DEF DriversInit
<1>2. DiskInv /\ [DriversNext]_driversVars => DiskInv'
  <2> SUFFICES ASSUME DiskInv, [DriversNext]_driversVars PROVE DiskInv'
    OBVIOUS
  <2>1. CASE DiskNext
    BY <2>1, DiskStep
  <2>2. CASE UNCHANGED diskVars
    BY <2>2, DiskIdle
  <2> QED
    BY <2>1, <2>2 DEF DriversNext, UsesNetwork, driversVars
<1>3. FairSpec => []DiskInv
  BY <1>1, <1>2, PTL DEF FairSpec
<1> QED
  BY <1>3, DiskInvKept, PTL
=============================================================================
