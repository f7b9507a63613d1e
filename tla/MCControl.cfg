SPECIFICATION FairSpec
CONSTANTS
    cmd = cmd
    mcp = mcp
    Callers = {cmd, mcp}
    Keepers = {mcp}
    Binds = 4
    Faults = 1
INVARIANTS
    OldIsQuiet
    AvailableUntilTold
PROPERTIES
    CommandsGetThrough
    EndsWhenTold
CHECK_DEADLOCK FALSE
