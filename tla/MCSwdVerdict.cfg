SPECIFICATION Spec
CONSTANTS
  READ_WORDS = 10
  Firmwares <- MC_Firmwares
  Longest = 3
  MaxBoots = 2
INVARIANTS
  AllPassedMeans
  CountsWhatRan
  PassIsReported
CHECK_DEADLOCK FALSE
