\* Numbers collide in two slots; frames are refused and given up.
CONSTANTS
  PRODUCERS = {manager}
  SEQS = 4
  SLOTS = 2
  QUEUE = 1
  RING = 1
  RETRIES = 1
  CAPS = {2}
SPECIFICATION SpecFair
INVARIANTS TypeOK NoLeak
 
