SPECIFICATION Spec
CONSTANTS
    Words <- MCWords
    Tails <- MCTails
    Decimals <- MCDecimals
    Octals <- MCOctals
    Hexes <- MCHexes
    Blanks <- MCBlanks
    ValueOf <- MCValueOf
    MaxSigned = 7
    MaxUnsigned = 15
    Sources <- ValidSources
INVARIANT
    ParsesEveryFile
