CONSTANTS
    Candidates <- MCCandidates
    MaxDevices = {0, 2, 4}
SPECIFICATION Spec
INVARIANTS
    FindsFirst
PROPERTY
    WalkEnds
CHECK_DEADLOCK FALSE
