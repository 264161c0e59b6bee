SPECIFICATION Spec
CONSTANTS
    SeqMod = 16
    TsMod = 16
    DecodeErrorMode = "kNoErrors"
    kMaxPacketsInSession = 3
    NackMode = "kNack"
    kStartNumberOfFrames = 1
    kMaxNumberOfFrames = 3
    kMaxConsecutiveOldPackets = 1
    MaxNackListSize = 2
    MaxPacketAgeToNack = 3
    MaxIncompleteTime = 0
    Duplicates = FALSE
    MaxRestarts = 0
    Packets <- MixedStream
INVARIANTS
    RecycleAgrees
    WalkAgrees
    CleanUpAgrees
PROPERTIES
    DeltaFollowsPredecessor
