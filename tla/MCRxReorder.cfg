CONSTANTS
    SnMod = 16
    First = 14
    MaxFrames = 5
    Setups <- MCSetups
SPECIFICATION MCSpec
INVARIANTS ListSound TimerCovers
PROPERTIES ReleasesInOrder LateWasPassed GapsGivenUp
CHECK_DEADLOCK FALSE
