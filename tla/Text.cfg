SPECIFICATION Spec
CONSTANTS
    MaxLength = 3
    Alphabet = {"BS", "t", "n", "r", "x", "X", ".", " ", "TAB", "LF", "CR", "S"}
INVARIANTS
    RoundTrip
    OneRecordPerLine
    NamesThatAreFound
CHECK_DEADLOCK FALSE
