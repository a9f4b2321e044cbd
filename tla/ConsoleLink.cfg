CONSTANTS
    CHANNELS = {1, 14}
    TUNES = {0, 1}
    POWER = 1
    BOOTS <- MCBoots
    MAX_LOSSES = 3
    MAX_RESTARTS = 2
    MAX_CHANGES = 2
    TARDY = 0
    PHY_FAULTS = 1
SPECIFICATION Spec
INVARIANT
    HeldAsConfigured

    
