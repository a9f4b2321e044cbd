\* Three datagrams, in blocks of two with three shards or of one with two,
\* and FEC started twice.
CONSTANTS
  EMPTY = 0
  GARBLED = GARBLED
  SEQ_MOD = 8
  BLOCK_MOD = 2
  BLOCK_MAX = 1
  DONE_MAX = 1
  MODES <- TwoModes
  TXQ_MAX = 4
  MAX_SEND = 3
  MAX_FAIL = 1
  MAX_INIT = 2
  MAX_APP = 1
  MAX_TWICE = 1
SPECIFICATION SpecNumberFree
INVARIANTS   LostIsLost
PROPERTY NothingVanishes
CHECK_DEADLOCK FALSE
