SPECIFICATION Spec
CONSTANTS
  Episodes = {e1}
  Stores = {s1, s2, s3, s4}
  Readers = {}
  NoStore = NoStore
  Backend = "redis"
  TtlDays = FALSE
  MaxEpisodes = 0
  Nearest = 1
  MaxRuns = 0
  MaxFaults = 0
SYMMETRY Alike
INVARIANT TextFromOneStore
CHECK_DEADLOCK FALSE
