SPECIFICATION TripSpec
CONSTANTS
    A = A
    B = B
    Messages = {A, B}
    Schema <- MCSchema
    Alphabet = {1, 2, 3, 8, 18, 26, 130}
    TextAlphabet = {1, 130, 160, 194, 224, 237, 240, 244}
    MaxLen = 4
    Inputs <- MCInputs
    Width32 = 11
    Width64 = 15
    Size32 = 2
    Size64 = 3
    OverflowChecks = TRUE
INVARIANT
    CutMessageSurvives
CHECK_DEADLOCK FALSE
