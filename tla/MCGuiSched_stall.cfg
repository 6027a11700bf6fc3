SPECIFICATION Spec
CONSTANTS
    Once <- OnceJobs
    Repeat <- RepeatJobs
    Uses <- SleepsOnly
INVARIANTS TimerRuns
