CONSTANTS
    Nothing = Nothing
    BUFFERS = {r1, r2}
    TRIES = 2
    SEQS = 2
    DESTINATIONS <- MCDestinations
    FRAMES = 3
    MISSED = 1
    RX_COMMANDS = 2
    KINDS <- MCAll
    FRAME_BUFFERS = {f1, f2}
    BENCH_BUFFERS = {b1, b2}
    TX_SLOTS = 2
SPECIFICATION Spec
INVARIANTS
    InOnePlace
    RoomForBuffers
    RulesReadWhole
    BuffersOwned
PROPERTIES
    FifoSpecs
    ForwardedOnce
    SentAsSet
CHECK_DEADLOCK FALSE
