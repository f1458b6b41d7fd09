SPECIFICATION Spec
CONSTANTS
    r1 = r1
    r2 = r2
    Requests <- MC_Requests
    Cooldown = 1
    DailyLimit = 1
    DailyWindow = 2
    AttemptWindow = 2
    MaxWrongAttempts = 2
    LockTime = 2
    CodeTtl = 1
    ShortCalls = TRUE
    MaxTime = 5
    MaxCodes = 3
    MaxRestarts = 1
INVARIANT DailyLimitHolds
\* The clock and the codes end at their bounds.
CHECK_DEADLOCK FALSE
