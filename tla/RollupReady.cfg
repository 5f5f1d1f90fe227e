SPECIFICATION Spec
CONSTANTS
    VM = {1}
    MaxGen = 2
    MaxRetries = 1
    Burst = 2
    MaxWidth = 2
    Plans <- Edited
INVARIANT ReadyAtRestIsEarned
CHECK_DEADLOCK FALSE
