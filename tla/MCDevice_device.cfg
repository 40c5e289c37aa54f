SPECIFICATION Spec
CONSTANTS
    Origin <- MCOrigin
    ArrayDim <- MCArrayDim
    Cache <- MCCache
    Dims <- MCDims
    Linked <- MCLinked
    Binaries <- MCBinaries
    BadBinaries <- MCBadBinaries
    ProgramData <- MCProgramData
    Responders = {"print", "user"}
    DmemWords = 15
    IcacheWords = 1
    DramWords = 3
    DramEva = 64
    PacketWords = 2
    RxCapacity = 1
    DrainRounds = 2
    Junk = 99
    MaxEvents = 2
INVARIANT TypeOK FrozenWhileWritten OwnPackets AnswersWhenReady BarReleased TilesStopped
PROPERTY StartsWithItsImage CallsReturn
CHECK_DEADLOCK FALSE
