SPECIFICATION Spec
CONSTANTS
  Episodes = {e1}
  Stores = {s1, s2}
  Readers = {r1, r2}
  NoStore = NoStore
  Backend = "disk"
  TtlDays = FALSE
  MaxEpisodes = 0
  Nearest = 1
  MaxRuns = 0
  MaxFaults = 0
SYMMETRY Alike
INVARIANT FreshAnswers
CHECK_DEADLOCK FALSE
