SPECIFICATION PolicySpec
CONSTANTS
    FrameAge = 1
    CameraSkew = 1
    ImuAge = 0
    StateSkew = 2
    Lag = 2
    Tolerance = 1
    MaxDelay = 3
    Margin = 1
    Window = 2
    Horizon = 4
    Bundles = {{"history"}, {"rtc"}}
    Commands = {0, 1}
    MaxTime <- MCMaxTime
    MaxRestarts = 1
    MaxSwitches = 1
    MaxRaises = 2
    Views = 2
    Offsets <- MCOffsets
    NearBy = 1
    Slack = 1
    MaxAge = 1
    MaxSkew = 1
    Pixels <- MCPixels
    Budgets = {3, 20}
    ClockLimit = 5
    MaxRenewals = 1
INVARIANTS PastIsRight EndsDisarmed HistoryIsTrue
PROPERTIES HandoverIsContinuous CleanupEnds
CHECK_DEADLOCK FALSE
