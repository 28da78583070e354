SPECIFICATION IdemSpec
CONSTANTS
  a1 = a1  a2 = a2  a3 = a3  b1 = b1  b2 = b2  k1 = k1  k2 = k2
  Calls = {a1, a2, a3, b1, b2}
  Delayed = {b1}
  Keys = {k1, k2}
  Key <- KeyOfCall
  NoKey = NoKey
  NoJob = NoJob
  MaxFailures = 2
INVARIANTS OneJobPerKey AnswersAgree AnsweredIsEnqueued
SYMMETRY SameKey
CHECK_DEADLOCK FALSE
