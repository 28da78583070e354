SPECIFICATION FairSpec
CONSTANTS
  p1 = p1  p2 = p2  s1 = s1  s2 = s2
  Jobs = {j1, j2}
  NormalJobs = {j1}
  Procs = {p1}
  Slots = {s1, s2}
  Owner <- TwoSlotsOne
  MaxAttempts = 1
  None = None
  RateLimited = FALSE
  Requests = {}
  MaxMentions = 1
  Janitors = {}
  Live = {p1}
  Budget <- StopStart
PROPERTIES StopTerminates
CHECK_DEADLOCK FALSE
