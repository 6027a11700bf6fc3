SPECIFICATION SessionsSpec
CONSTANTS
    Once <- OnceJobs
    Repeat <- RepeatJobs
    Uses <- SafeUses
    Typed <- Lines
    MaxTyped = 2
    MaxFaults = 1
    Cams = {1, 2}
    Names = {"shoot", "exit"}
    Parts = 2
    Budgets <- Budget
INVARIANTS TimerRuns RsintContract AnswersTrue
PROPERTIES JobsRun
CHECK_DEADLOCK FALSE
