SPECIFICATION FairSpec
CONSTANTS
  Episodes = {e1}
  Stores = {s1, s2}
  Readers = {r1}
  NoStore = NoStore
  Backend = "redis"
  TtlDays = TRUE
  MaxEpisodes = 0
  Nearest = 1
  MaxRuns = 1
  MaxFaults = 1
INVARIANTS TypeOK FreshAnswers QuietEpisodesAgree RowsTogether
PROPERTY StoresEnd
CHECK_DEADLOCK FALSE
