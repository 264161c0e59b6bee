SPECIFICATION FairSpec
CONSTANTS
    SeqMod = 16
    TsMod = 16
    DecodeErrorMode = "kNoErrors"
    kMaxPacketsInSession = 3
    NackMode = "kNack"
    kStartNumberOfFrames = 1
    kMaxNumberOfFrames = 3
    kMaxConsecutiveOldPackets = 1
    MaxNackListSize = 1
    MaxPacketAgeToNack = 3
    MaxIncompleteTime = 0
    Duplicates = FALSE
    MaxRestarts = 1
    Packets <- ShortStream
PROPERTIES
    StopCompletes
    FrontLeaves
