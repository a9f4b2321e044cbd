\* Loss, retransmission and progress: three segments one way, window 2.
CONSTANTS
  a = a
  b = b
  NONE = NONE
  End <- BothEnds
  MAX_SEGMENTS <- Few
  MOD = 4
  WINDOW = 2
  TCP_IN_MAX = 1
  MAX_SACK_BLOCKS = 1
SPECIFICATION DataSpec
PROPERTY AllAcked
