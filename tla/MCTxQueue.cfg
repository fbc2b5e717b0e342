CONSTANTS
    NTxq = 2
    Uapsd = FALSE
    InitCredits = 2
    S8Half = 128
    FlowStop = 9
    FlowRestart = 9
    NeedCfm = {1}
    Reasons = {"CHAN", "CSA"}
    MaxFrames = 3
    MaxRetry = 0
    Interrupts = FALSE
    SmpCfm = FALSE
    Leaves = TRUE
    Busies = FALSE
SPECIFICATION MCSpec
INVARIANTS ServedByList CountersMatch HeldInOrder
