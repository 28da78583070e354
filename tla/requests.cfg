SPECIFICATION Spec
CONSTANTS
  p1 = p1  p2 = p2  s1 = s1  s2 = s2
  Jobs = {j1}
  NormalJobs = {j1}
  Procs = {p1}
  Slots = {s1}
  Owner <- OneSlotEach1
  MaxAttempts = 1
  None = None
  RateLimited = FALSE
  Requests = {r1, r2}
  MaxMentions = 1
  Janitors = {p1}
  Live = {p1}
  Budget <- Operators
INVARIANTS TypeOK JobHeld SurvivesLapse
CHECK_DEADLOCK FALSE
SYMMETRY Swap
CONSTRAINT LapsesAlone
