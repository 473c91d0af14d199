SPECIFICATION Spec
CONSTANTS
    A = A
    B = B
    Messages = {A, B}
    Schema <- TwoTypes
    Alphabet = {2, 3, 8, 16, 18, 26, 129}
    MaxLen = 4
    Data = {2, 130}
    MaxData = 4
    Inputs <- Strings
    Width32 = 11
    Width64 = 15
    Size32 = 2
    Size64 = 3
    OverflowChecks = FALSE
INVARIANT
    NeverPanics
CHECK_DEADLOCK FALSE
