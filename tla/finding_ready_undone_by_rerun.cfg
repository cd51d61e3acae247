SPECIFICATION Spec
CONSTANTS
  Videos = {v1}
  NoVideo = NoVideo
  Requests = {r1}
  Sweepers = {}
  Workers = {w1, w2}
  MaxStalls = 1
  RepeatCompletes = FALSE
  Faults = {"stall"}
PROPERTIES ReadyIsFinal
CHECK_DEADLOCK FALSE
