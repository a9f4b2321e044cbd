\* Two applications of the client write to one of the server; both managers die.
CONSTANTS
  SERVER = SERVER
  CLIENT = CLIENT
  NONE = NONE
  MOD = 4
  WINDOW = 1
  TCP_IN_MAX = 1
  MAX_SACK_BLOCKS = 1
  MAX_CONN <- OneTwo
  MAX_SEND <- ClientWrites
  AIR_MAX = 1
  MAX_CRASH <- One
SPECIFICATION SpecUnrepeated
INVARIANTS  AckedWasReceived 
