CONSTANTS
    INPUT_BUFFER_SIZE = 2
    Scancodes = {28}
    MaxKeys = 2
    Scripts <- MCScripts
    Delays = {0, 2, 15}
    MaxTicks = 2
    Word = 16
SPECIFICATION FairSpec
INVARIANTS
    ServiceBalanced
    KeyboardArmed
PROPERTIES
    SleepsLongEnough
    KeysDelivered
    BytesDelivered
    SleepEnds
    Reboots
