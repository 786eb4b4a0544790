SPECIFICATION Spec
CONSTANTS
    Line <- MCLine
    EditKey = {"log_file"}
    EditText <- MCEditText
    Words <- MCWords
    Cut <- MCCut
    Strip <- MCStrip
    U16 = 16
    U32 = 1024
    MaxLines = 2
    Kept = {0, 4}
INVARIANTS
    TypeOK
    MirrorsAgree
    LoadedIsLastLine
    AcceptedIsUsable
    SavedIsLoadedBack
