SPECIFICATION Spec
CONSTANTS
    Axes <- MCAxes
    EnabledAxes <- MCAxes
    Full = 1
    Centre = 0
    RowTime = 1
    ArmDuration = 2
    Lease = 3
    Decay = 1
    MaxPacketAge = 0
    Tolerance = 0
    MaxObservationAge = 0
    MaxHorizon = 0
    Present = 4
    MaxStall = 2
    Recovery = 2
    MaxTake = 2
    ArmingWait = 4
    AutoEpisodes = 2
    MaxEvents = 2
INVARIANTS OneHold RowsHaveTheirDrive
PROPERTIES NeverStuck
CHECK_DEADLOCK FALSE
