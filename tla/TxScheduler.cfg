\* A UDP and a TCP stream with PDUs of 3 bytes in MPDUs of 6.
CONSTANTS
  STREAMS = 2
  UDP <- FirstIsUdp
  SLOTS_MAX = 5
  PAYLOAD_MAX = 6
  SEQ_LEN = 1
  ACK_SIZE = 1
  DATA_SIZE = 2
  BUDGETS = {2, 6}
  MAX_DATA = {1, 2}
  BURST_SIZES = {2, 3}
  REFILLS = {2, 5}
  QUEUE_MAX = 2
  ACKS_MAX = 2
SPECIFICATION FairSpec
INVARIANT WithinLimits
PROPERTIES AcksDontWait NothingVanishes 
