SPECIFICATION Spec
CONSTANTS
    MaxAge = 1
    FirstPlan = 1
    Length = 3
    MaxTime = 5
    MaxChanges = 1
INVARIANTS PlanHasItsPrompt DoubtEnds
PROPERTIES OneLineOfPlans
CHECK_DEADLOCK FALSE
