SPECIFICATION Spec
CONSTANTS
  Episodes = {e1, e2}
  Stores = {s1, s2}
  Readers = {}
  NoStore = NoStore
  Backend = "redis"
  TtlDays = FALSE
  MaxEpisodes = 1
  Nearest = 1
  MaxRuns = 1
  MaxFaults = 0
PROPERTY VictimsAreOldest
CHECK_DEADLOCK FALSE
