SPECIFICATION ReferenceSpec
CONSTANTS
    Joints = {boom, arm}
    boom = boom
    arm = arm
    Target = 1
    Buffer = 2
    Scale = 6
    MaxSamples = 3
    MaxTime = 4
    MaxCalls = 2
    Kp = 1
    Ki = 2
    Kd = 1
    MinOutput <- MCMinOutput
    MaxOutput = 4
    Values <- MCValues
    Steps = {1, 2}
    Limits <- MCLimits
INVARIANTS TrackerIsSound CollectorIsSafe
PROPERTIES PidIsSound
CHECK_DEADLOCK FALSE
