\* Numbers modulo 3 wrap around within four segments; DATA of the other direction
\* carries ACKs and is acknowledged itself.
CONSTANTS
  a = a
  b = b
  NONE = NONE
  End <- BothEnds
  MAX_SEGMENTS <- Duplex
  MOD = 3
  WINDOW = 1
  TCP_IN_MAX = 1
  MAX_SACK_BLOCKS = 1
SPECIFICATION Spec
INVARIANTS IInv InOrder AckedWasDelivered
PROPERTY PipeSpec
