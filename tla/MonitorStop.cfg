SPECIFICATION Spec
CONSTANTS
    EventLimit = 2
    MetricLimit = 2
    BatchSize = 2
    MaxProduced = 2
    MaxStarts = 1
INVARIANT BroadcastSurvives
CHECK_DEADLOCK FALSE
