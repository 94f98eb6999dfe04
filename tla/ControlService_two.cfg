SPECIFICATION Spec
CONSTANTS
    Axes <- MCAxes
    EnabledAxes <- MCAxes
    Full = 2
    Centre = 0
    RowTime = 1
    ArmDuration = 2
    Lease = 2
    Decay = 2
    MaxPacketAge = 1
    Tolerance = 0
    MaxObservationAge = 2
    MaxHorizon = 2
    ValveNames <- MCOneValve
    Calibration <- MCPlainCalibration
    CurveUnit = 4
    RampWindow = 1
    SineUnit = 1
    NumClients = 2
    MessageLimit = 2
    ImuTimeout = 0
    Deadline = 1
    PacketShapes <- TwoProducers
    MaxSequence = 3
    StartTime = 3
    MaxTime = 6
INVARIANTS NoMotionAfterStop
PROPERTIES FaultAndOwnerHold
