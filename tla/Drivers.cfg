SPECIFICATION FairSpec
CONSTANTS
    RingLen = 32
    Padding = 16
    Lengths = {6, 12, 14}
    MaxLength = 12
    PerCall = 2
    TxSlots = 2
    MaxPackets = 3
    MaxPings = 1
    MaxSends = 3
    Texts = {"a"}
    BlockdevMax = 8
    CryptoSlots = 2
    MaxBoots = 2
    MaxErrors = 1
    MaxCalls = 2
    ShellSectors = {1, 2}
    SuperReadMayFail = FALSE
INVARIANTS
    SectorsKept
    FramesOnce
    TransmitsAll
PROPERTIES
    RingDrains
CHECK_DEADLOCK FALSE
