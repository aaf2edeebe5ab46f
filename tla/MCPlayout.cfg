CONSTANTS
    Reply = {r1}
    Nobody = Nobody
    Feature = {"greeting", "filler", "watchdog", "didntCatch", "decline", "goodbye"}
    MaxReprompts = 1
    MaxRefusals = 2
    MaxTurns = 2
SPECIFICATION FairSpec
INVARIANTS
    EchoGated
PROPERTIES
    
    EndsUnanswered
    TurnsReturn
CHECK_DEADLOCK FALSE
