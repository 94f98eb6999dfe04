SPECIFICATION RecordingsSpec
CONSTANTS
    Streams <- TwoStreams
    QueueLimit = 2
    MaxRows = 3
    Capacity = 3
    Reserve = 1
    MaxTransition = 6
    MaxRecords = 3
    MaxFaults = 1
    MaxPidTransition = 4
INVARIANTS ReadyIsComplete StripsAreSafe RowsHaveTelemetry
PROPERTIES FinishEnds TakeSpec ClosingEnds
CHECK_DEADLOCK FALSE
