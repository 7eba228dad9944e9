CONSTANTS
    Byte <- MCByte
    Zero <- MCZero
    N = 2
    IndexMod = 4
    DropMax = 2
    MaxSent = 7
    MaxLen = 4
    Burst = 2
SPECIFICATION MCSpec
INVARIANTS TypeOK NothingLost TallyHonest PrefixUntilDrop TypesOK OkMeansTheStream ChannelOutOfBuffer CommandsHeard VerdictsHonest
PROPERTIES ImplementsFifo WaitsEnd
CHECK_DEADLOCK FALSE
