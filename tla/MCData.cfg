CONSTANTS
    Products = {"dc0", "dc", "d81", "x2"}
    Name <- MCName
    DigitOf <- MCDigitOf
    MaxLen = 4
    MaxLines = 3
    Loss <- MCLoss
    Width = 3
    Freqs = {0, 2}
    Widths = {0, 1}
    Deltas = {1, 2, 3, 4, 7}
    Jumps = {0, 9}
    LongDuration = 10
    LongBurstMin = 7
    LongMaxBurst = 6
    WeatherScan = 18
    MaxTime = 11
SPECIFICATION MCSpec
INVARIANTS ConfigApplied  RateShown
CHECK_DEADLOCK FALSE
