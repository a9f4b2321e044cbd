CONSTANTS
    CHANNELS = {1, 14}
    TUNES = {0, 1}
    IPS = {1, 2}
    FIRST_IP = 1
    SLOTS = {0, 1}
    SAVED <- MCSaved
    NoBlob = NoBlob
    MAX_COMMANDS = 3
    MAX_MISHAPS = 1
    FLASH_FAULTS = 1
    PHY_FAULTS = 1
    NET_FAULTS = 0
SPECIFICATION Spec
INVARIANTS
    
    RadioComesBackIfWritten
    AppliedAsSaved
    RadioAsStored
    
    
