CONSTANTS
    Invite = {1, 2}
    NoInvite = 0
    CallId = {1, 2}
    MaxCalls = 1
    Kind = {"plain", "dtls", "webrtc"}
SPECIFICATION MCFairSpec
INVARIANTS
    AnswerOrTerminated
    Balanced
    ClosedOnce
PROPERTIES
    InboundEnds
CHECK_DEADLOCK FALSE
