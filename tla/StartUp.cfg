CONSTANTS
    Chips = {"8801", "dc", "d81", "x2", "d80n", "dln"}
    ChipRevs = {0, 2}
    Modes = {"normal", "rftest"}
    MaxPlugs = 2
    WqFails = FALSE
SPECIFICATION Spec
INVARIANTS  DeviceSound
PROPERTIES ExitEnds
CHECK_DEADLOCK FALSE
