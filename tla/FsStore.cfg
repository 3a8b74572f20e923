SPECIFICATION DisciplinedSpec
CONSTANTS
    x = x
    y = y
    Absent = Absent
    Closed = Closed
    Names = {n1, n2}
    NumInodes = 3
    NumSectors = 4
    Blocks = 2
    BlockSize = 2
    DirPerSector = 1
    NumHandles = 1
    Data <- MCData
    Zero = Zero
    Junk = Junk
    NoName = NoName
    Buffers <- MCBuffers
    ReadSizes <- MCReadSizes
    Faults = {"poweroff"}
    MaxCrashes = 1
    MaxFailures = 0
INVARIANTS
    DurableAtRest
    NoLeak
PROPERTIES
    ImplementsFileStore
SYMMETRY Symmetry
