\* Consecutive numbers, and the console changes the cap.
CONSTANTS
  PRODUCERS = {manager}
  SEQS = 8
  SLOTS = 4
  QUEUE = 2
  RING = 4
  RETRIES = 2
  CAPS = {2, 3}
SPECIFICATION SpecSteady
INVARIANT OutstandingBelowCap
