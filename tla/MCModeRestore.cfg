SPECIFICATION Spec
CONSTANTS
    CooldownTicks = 1
    DeescTicks = 2
    RetryLimit = 3
    MaxTick = 2
    MaxEpoch = 4
    MaxBoots = 2
    FirstSequences <- MCFirstSequences
CHECK_DEADLOCK FALSE
PROPERTY BootRestoresIntent
