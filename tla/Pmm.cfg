SPECIFICATION Spec
CONSTANTS
    FrameSize = 4
    MaxFrames = 7
    Word = 64
    LowFrames = 1
    KernelStart = 5
    KernelEnd = 9
    Entries <- MCEntries
    MaxEntries = 3
    Clients = {c1, c2}
SYMMETRY ClientSymmetry
INVARIANTS
    UsedIsCounted
    FreeIsUsable
    HeldOnce
