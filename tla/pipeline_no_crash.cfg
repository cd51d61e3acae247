SPECIFICATION FairSpec
CONSTANTS
  Videos = {v1}
  NoVideo = NoVideo
  Requests = {r1, r2}
  Sweepers = {s1}
  Workers = {w1, w2}
  MaxStalls = 1
  RepeatCompletes = TRUE
  Faults = {"stall"}
INVARIANTS ProcessingIsDriven
PROPERTIES ProcessingSettles AbandonedDraftsAreSettled
CHECK_DEADLOCK FALSE
