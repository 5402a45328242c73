\* Two attempts and two runs of plans of two steps: up to four transactions for
\* the same identifier on their way at once.
CONSTANTS
    x = x
    Id = {x}
    Plans <- SomePlans
    MaxAttempts = 2
    MaxRuns = 2
SPECIFICATION AdapterFairSpec
CHECK_DEADLOCK FALSE
INVARIANTS ReportsAreTrue StepsLandOnce
PROPERTY RunsEnd
