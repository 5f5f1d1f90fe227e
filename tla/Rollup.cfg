SPECIFICATION FairSpec
CONSTANTS
    VM = {1, 2, 3, 4}
    MaxGen = 2
    MaxRetries = 1
    Burst = 3
    MaxWidth = 2
    Plans <- Plan
INVARIANTS TypeOK FinalizationNotForgotten RestMeansSeen ReadyIsEarned
PROPERTIES StatusCatchesUp HealthyServed
CHECK_DEADLOCK FALSE
