SPECIFICATION FairSpec
CONSTANTS
    HistorySeqMod = 8
    NumberToStore = 1
    kMaxHistoryCapacity = 2
    MediaRate = 1
    PaddingRate = 1
    MaxDebt = 1
    ProbePackets = 1
    FirstSeq = 7
    FrameSizes <- SendFrames
    FecPackets = {1}
    MaxPadding = 1
    MaxChanges = 1
    MaxNacks = 1
INVARIANTS
    QueueAgrees
    StoredIsFound
    NoSilentLoss
PROPERTIES
    SentInOrder
    QueueDrains
CHECK_DEADLOCK FALSE
