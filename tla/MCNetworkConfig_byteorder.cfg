SPECIFICATION Spec
CONSTANTS
    Config <- MCDefault
    Octet = {0, 1, 128, 192, 239, 240, 255, 256}
    LittleEndian = {TRUE}
    MayFail = FALSE
    Mem = {0, 7}
INVARIANTS
    ConfiguredIsSet
