SPECIFICATION MCSpec
CONSTANTS
    A = A
    B = B
    Messages <- MCMessages
    Schema <- MCSchema
    Alphabet = {2, 3, 8, 16, 18, 26, 129}
    MaxLen = 5
    Data = {2, 130}
    MaxData = 4
    Inputs <- MCInputs
    Width32 = 11
    Width64 = 15
    Size32 = 2
    Size64 = 3
    OverflowChecks = TRUE
INVARIANTS
    TypeOK
    Calls
    NoByteLost
    NoByteTwice
    FieldsBehindCursor
    MessagesNest
    SchemaFreeFraming
    TagSurvives
PROPERTIES
    OnlyForward
    Terminates
CHECK_DEADLOCK FALSE
