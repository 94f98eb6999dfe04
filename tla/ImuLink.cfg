SPECIFICATION LinkSpec
CONSTANTS
    Base = 4
    Sync <- Marks
    DataType = 1
    ControlType = 2
    DescriptorType = 0
    ReportType = 3
    Blocking = {1}
    MaxCount = 1
    Expected = 1
    MaxGap = 2
    Capacity = 8
    Transmissions <- Device
    MaxSent = 32
    MaxTicks = 4
    boom = boom
    Sensors <- Boom
    LostReads = 2
    StuckReads = 2
    MaxAttempts = 2
    MaxFrames = 3
INVARIANTS TickIsSeen NothingIsLost SoundFrames
PROPERTIES LossIsReported
CHECK_DEADLOCK FALSE
