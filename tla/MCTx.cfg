CONSTANTS
    b1 = b1
    b2 = b2
    s1 = s1
    s2 = s2
    Bufs = {b1, b2}
    Senders = {s1, s2}
    Low = 1
    High = 1
    MaxFrames = 2
    Flows = {f1, f2}
    Cpus = {c1}
    AckSlots = 1
    MaxDrop = 2
    SeqMod = 8
    Advance = {0, 3}
    Lag = {1}
    First = 5
    MaxAcks = 3
SPECIFICATION MCSpec
INVARIANTS TxSound FramesLive 
PROPERTIES TxServed AllMovesOn
CHECK_DEADLOCK FALSE
