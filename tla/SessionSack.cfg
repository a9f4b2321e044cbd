\* A window of 4 numbers modulo 8: room for two runs in the reorder map, of
\* which an ACK has blocks for one.
CONSTANTS
  a = a
  b = b
  NONE = NONE
  End <- BothEnds
  MAX_SEGMENTS <- Holes
  MOD = 8
  WINDOW = 4
  TCP_IN_MAX = 1
  MAX_SACK_BLOCKS = 1
SPECIFICATION Spec
INVARIANTS SackedIsHeld HoleIsRetransmitted OldestIsRetransmitted
