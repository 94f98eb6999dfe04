SPECIFICATION Spec
CONSTANTS
    Axes <- MCAxes
    EnabledAxes <- MCAxes
    Full = 2
    Centre = 0
    RowTime = 1
    ArmDuration = 1
    Lease = 1
    Decay = 2
    MaxPacketAge = 1
    Tolerance = 0
    MaxObservationAge = 2
    MaxHorizon = 2
    ValveNames <- MCValves
    Calibration <- MCCalibration
    CurveUnit = 4
    RampWindow = 1
    SineUnit = 1
    NumClients = 1
    MessageLimit = 2
    ImuTimeout = 1
    Deadline = 1
    PacketShapes <- OneProducer
    MaxSequence = 3
    StartTime = 3
    MaxTime = 9
INVARIANTS MotionIsLicensed MotionDeadline
PROPERTIES DecayOnlyStops
