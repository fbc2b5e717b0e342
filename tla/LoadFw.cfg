CONSTANTS
    Chips = {"8800", "d80", "d80x2"}
    Modes = {"normal", "test", "wakeup", "adfilter"}
    Sizes = {2, 5}
    B = 2
    Regs = 2
    MaxRetry = 2
    MaxPlugs = 2
SPECIFICATION Spec
 
PROPERTIES GetsDriver
CHECK_DEADLOCK FALSE
