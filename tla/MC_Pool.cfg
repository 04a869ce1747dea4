CONSTANTS
  N = 5
  Concurrency = 3
  NoJob = 0
SPECIFICATION FairSpec
CHECK_DEADLOCK FALSE
INVARIANTS NoRaceOnResults EveryViewAnswered
PROPERTIES Terminates
