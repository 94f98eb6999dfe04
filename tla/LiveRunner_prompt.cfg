SPECIFICATION Spec
CONSTANTS
    MaxAge = 2
    FirstPlan = 2
    Length = 3
    MaxTime = 5
    MaxChanges = 1
INVARIANT HoldsForNewPrompt
CHECK_DEADLOCK FALSE
