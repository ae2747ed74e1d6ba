CONSTANTS
    Origins = {0, 9, 11, 12, 19, 23}
    Modes <- MCModes
    MaxUpdates = 2
SPECIFICATION FairSpec
PROPERTY
    Returns
