\* CONNECT is repeated: one application of the server, two of the client; the server dies.
CONSTANTS
  SERVER = SERVER
  CLIENT = CLIENT
  NONE = NONE
  MOD = 4
  WINDOW = 2
  TCP_IN_MAX = 1
  MAX_SACK_BLOCKS = 1
  MAX_CONN <- OneTwo
  MAX_SEND <- ServerWritesTwo
  AIR_MAX = 1
  MAX_CRASH <- ServerDies
SPECIFICATION Spec
INVARIANTS  NeverTwice
