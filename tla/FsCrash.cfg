SPECIFICATION Spec
CONSTANTS
    x = x
    y = y
    Absent = Absent
    Closed = Closed
    Names = {n1, n2}
    NumInodes = 3
    NumSectors = 5
    Blocks = 2
    BlockSize = 1
    DirPerSector = 1
    NumHandles = 1
    Data <- MCDataSmall
    Zero = Zero
    Junk = Junk
    NoName = NoName
    Buffers <- MCBuffersSmall
    ReadSizes <- MCReadSizesSmall
    Faults = {"crash", "mountread"}
    MaxCrashes = 2
    MaxFailures = 1
INVARIANTS
    SectorsOwned
    MountableDisk
    DirectorySound
SYMMETRY Symmetry
