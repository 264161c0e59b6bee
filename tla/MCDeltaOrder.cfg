SPECIFICATION Spec
CONSTANTS
    SeqMod = 16
    TsMod = 16
    DecodeErrorMode = "kNoErrors"
    kMaxPacketsInSession = 3
    NackMode = "kNack"
    kStartNumberOfFrames = 1
    kMaxNumberOfFrames = 5
    kMaxConsecutiveOldPackets = 4
    MaxNackListSize = 1
    MaxPacketAgeToNack = 3
    MaxIncompleteTime = 0
    Duplicates = FALSE
    MaxRestarts = 0
    Packets <- ThreeKeyStream
PROPERTIES
    DeltaFollowsPredecessor
