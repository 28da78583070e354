SPECIFICATION FairSpec
CONSTANTS
  p1 = p1  p2 = p2  s1 = s1  s2 = s2
  Jobs = {j1}
  NormalJobs = {j1}
  Procs = {p1, p2}
  Slots = {s1, s2}
  Owner <- OneSlotEach2
  MaxAttempts = 2
  None = None
  RateLimited = FALSE
  Requests = {}
  MaxMentions = 1
  Janitors = {p1, p2}
  Live = {p1, p2}
  Budget <- OneCrash
INVARIANTS Recoverable
PROPERTIES AcknowledgedStays Settles
