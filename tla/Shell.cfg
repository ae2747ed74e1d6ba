CONSTANTS
    CMD_BUFFER_SIZE = 3
    HISTORY_SIZE = 2
    Letters = {"x", "q"}
    Stopping <- MCStopping
SPECIFICATION Spec
INVARIANTS
    RecallShowsEntry
PROPERTIES
    ExecutesShown
    RemembersRecent
    DraftRestored
CHECK_DEADLOCK FALSE
