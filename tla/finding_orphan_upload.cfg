SPECIFICATION FairSpec
CONSTANTS
  Videos = {v1}
  NoVideo = NoVideo
  Requests = {r1}
  Sweepers = {s1}
  Workers = {w1}
  MaxStalls = 1
  RepeatCompletes = FALSE
  Faults = {"api"}
PROPERTIES OrphanedUploadsAreSwept
CHECK_DEADLOCK FALSE
