\* The queue is shorter than the pool, so that it can overflow; the pool
\* is smaller than what URBs and queue can hold, so that it can run dry.
CONSTANTS
    NUrbs = 2
    NPool = 3
    QMax = 1
    Aggr = TRUE
    MaxFrames = 2
    MsgQMax = 2
    Cnt = 2
    Wrap = 4
    MaxPushed = 4
    MaxMsgs = 1
    Senders = {s1, s2}
    MaxFrag = 3
    MaxMsdu = 1
SPECIFICATION MCSpec
INVARIANTS RxSound PipeSound 
PROPERTIES RxServed FragmentsEnd
CHECK_DEADLOCK FALSE
