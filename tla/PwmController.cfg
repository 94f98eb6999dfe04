SPECIFICATION PwmSpec
CONSTANTS
    Unit = 1
    RampDtMax = 1
    Callers <- MCCallers
    MainThread = "loop"
    Calls <- MCCalls
    Commands <- MCCommands
    DirectCommands <- MCDirectCommands
    Speeds = {1500}
    Gains = {150}
    Files <- MCFiles
    FirstFile <- First
    RateThreshold = 1
    TimeWindow = 2
    StaleTimeout = 1
    UnsetToZero = TRUE
    CleanupDisableOsc = TRUE
    MaxEvents = 1
    MaxReloads = 1
INVARIANTS ValvesAsDecided StaleIsNeutral
PROPERTIES NoValveJumps StaleCentres
