SPECIFICATION NodeSpec
CONSTANTS
    NodeChains = {1, 2}
    MaxCalls = 7
PROPERTY NodeAnswers
CHECK_DEADLOCK FALSE
