CONSTANTS
    Origins = {0, 9, 11, 12, 19, 23}
    Modes <- MCModes
    MaxUpdates = 5
SPECIFICATION Spec
INVARIANTS
    ReturnsGenuine
