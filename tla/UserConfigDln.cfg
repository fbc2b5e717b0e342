CONSTANTS
    Products = {"dln"}
    Name <- MCName
    DigitOf <- MCDigitOf
    MaxLen = 4
    MaxLines = 3
    Loss <- MCLoss
    Width = 3
SPECIFICATION ConfigSpec
INVARIANTS ConfigReachesFw
CHECK_DEADLOCK FALSE
