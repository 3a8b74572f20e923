SPECIFICATION FairSpec
CONSTANTS
    x = x
    y = y
    Absent = Absent
    Closed = Closed
    Names = {n1, n2}
    NumInodes = 3
    NumSectors = 3
    Blocks = 1
    BlockSize = 1
    DirPerSector = 2
    NumHandles = 1
    Data <- MCDataSmall
    Zero = Zero
    Junk = Junk
    NoName = NoName
    Buffers <- MCBuffersOne
    ReadSizes <- MCReadSizesSmall
    Faults = {"write", "read"}
    MaxCrashes = 0
    MaxFailures = 1
PROPERTIES
    OtherFilesUntouched
    OperationsEnd
