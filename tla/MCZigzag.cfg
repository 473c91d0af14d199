SPECIFICATION Spec
CONSTANTS
    Width32 = 11
    Width64 = 15
    Size32 = 2
    Size64 = 3
    Near = 4
    Bytes = {0, 1, 127, 128, 129, 255}
    Values <- MCValues
    ByteStrings <- MCByteStrings
INVARIANT
    ZigzagTable
CHECK_DEADLOCK FALSE
