CONSTANTS
    Speaker = {s1, s2}
    Tone = Tone
    Key = Key
    NoPacket = NoPacket
    TonePackets = 2
    Fade = 3
    Patient = TRUE
    MaxHalves = 5
    MaxSeq = 4
    MaxChanges = 1
SPECIFICATION FairSpec
INVARIANTS
    TypeOK
PROPERTIES
    
    
    TasksReturn
CHECK_DEADLOCK FALSE
