CONSTANTS
    NTxq = 1
    Uapsd = FALSE
    InitCredits = 2
    S8Half = 128
    FlowStop = 9
    FlowRestart = 9
    NeedCfm = {1}
    Reasons = {}
    MaxFrames = 3
    MaxRetry = 1
    Interrupts = FALSE
    SmpCfm = TRUE
    Leaves = FALSE
    Busies = FALSE
SPECIFICATION Spec
INVARIANTS ReadyListed
CHECK_DEADLOCK FALSE
