SPECIFICATION Spec
CONSTANTS
  Videos = {v1}
  NoVideo = NoVideo
  Requests = {r1, r2}
  Sweepers = {s1, s2}
  Workers = {w1, w2}
  MaxStalls = 1
  RepeatCompletes = TRUE
  Faults = {"api", "sweep", "worker", "stall"}
SYMMETRY Symmetry
INVARIANTS TypeOK PublishedIsPlayable UrlsResolve WorkHasASource OnlyRescuesSkipTheSizeCheck
PROPERTIES ImplementsLifecycle
CHECK_DEADLOCK FALSE
