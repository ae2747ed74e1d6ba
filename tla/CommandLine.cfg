CONSTANTS
    Word = 128
    MAX_ARGS = 2
    Letters = {"s", "e", "0", "9"}
    MaxLength = 7
    Exit <- MCExit
    commands <- MCCommands
    colors <- MCColors
SPECIFICATION LineSpec
INVARIANTS
    ParsesWords
    DoesAsTyped
    NumbersExact
CHECK_DEADLOCK FALSE
