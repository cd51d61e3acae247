SPECIFICATION Spec
CONSTANTS
  Videos = {v1}
  NoVideo = NoVideo
  Requests = {r1}
  Sweepers = {s1}
  Workers = {w1}
  MaxStalls = 1
  RepeatCompletes = FALSE
  Faults = {}
PROPERTIES UploadedDraftsAreNotFailed
CHECK_DEADLOCK FALSE
