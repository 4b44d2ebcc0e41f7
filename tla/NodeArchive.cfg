SPECIFICATION NodeSpec
CONSTANTS
    NodeChains = {1}
    MaxCalls = 6
INVARIANT ArchiveNamesPlan
CHECK_DEADLOCK FALSE
