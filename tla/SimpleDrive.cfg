SPECIFICATION Spec
CONSTANTS
    Axes <- MCAxes
    Buttons = {"A", "B", "Up"}
    Positions <- MCPositions
    DeadzonePct = 25
    PaddingPct = 0
    MaxReconnect = 0
    Joints <- MCJoints
    Modes <- MCModes
    RampTicks = 2
    AmplitudePct = 40
    CeilingPct = 40
    NoisePct = 39
    SweepTicks = 2
    HoldTicks = 1
    Limits <- MCLimits
    Margin = 1
    StrokeStep = 1
    MaxStrokeTicks = 1
    GainPct = 25
    ValveLimitPct = 50
    ColumnOrder <- MCColumnOrder
    PackRows = 2
    PackColumnsPerRow = 1
    PackImuFrames = 2
    Sessions <- MCSessions
    Poses <- MCPoses
    Masks <- MCMasks
    StaleTicks = 1
    RecordTicks = 3
INVARIANTS BusyIsNeutral RecordingIsTrue 
