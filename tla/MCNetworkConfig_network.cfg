SPECIFICATION MCSpec
CONSTANTS
    Config <- MCConfig
    Octet = {0, 1, 128, 192, 239, 240, 255, 256}
    LittleEndian = {TRUE, FALSE}
    MayFail = TRUE
    Mem = {0, 7}
INVARIANTS
    ConfiguredIsSetOnBigEndian
    ReadBackAgrees
    IsValidIsDotted
    TuningIsReal
PROPERTIES
    OtherFlagsKept
