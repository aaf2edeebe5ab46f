CONSTANTS
    SeqMod = 16
    MaxAhead = 3
    Floor = 2
    Ceiling = 3
    ShrinkAfter = 2
    ReanchorAfter = 2
    Hysteresis = 2
    First <- MCFirst
    Last <- MCLast
    Jump <- MCJump
    Reach = 3
    MaxLate = 2
    Window = 4
    Dropout = 5
    Misorder = 4
    History = 2
    Event <- MCEvent
    Keypad <- MCKeypad
    Toned <- MCTone
    PressFrames = 2
    ReleaseFrames = 2
    MaxRepeat = 2
    Patience = 5
SPECIFICATION ReceiveSpec
INVARIANTS
    StreamTracked
    StaysMoved
PROPERTIES
    PlayedInOrder
    DigitsPressed
CHECK_DEADLOCK FALSE
