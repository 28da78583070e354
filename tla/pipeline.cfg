SPECIFICATION Spec
CONSTANTS
  p1 = p1  p2 = p2  s1 = s1  s2 = s2
  Jobs = {j1, j2}
  NormalJobs = {j1}
  Procs = {p1, p2}
  Slots = {s1, s2}
  Owner <- OneSlotEach2
  MaxAttempts = 2
  None = None
  RateLimited = TRUE
  Requests = {}
  MaxMentions = 1
  Janitors = {}
  Live = {p1, p2}
  Budget <- Nothing
INVARIANTS OneCustodian SettledInPostgres
PROPERTIES ImplementsJobLife
SYMMETRY Swap
