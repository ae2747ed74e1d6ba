CONSTANTS
    INPUT_BUFFER_SIZE = 3
    Scancodes = {28, 30, 42, 54, 72, 170, 182, 200, 224}
    MaxCodes = 6
SPECIFICATION TypingSpec
INVARIANTS
    ReadStable
PROPERTIES
    ImplementsQueue
    DecodesAsTyped
CHECK_DEADLOCK FALSE
