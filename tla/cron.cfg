SPECIFICATION CronSpec
CONSTANTS
  Procs = {p1, p2}
  Crons = {k1, k2}
  Registered = {k1}
  Admins = {a1}
  NoCron = NoCron
  MaxCrashes = 1
INVARIANTS StaysScheduled
PROPERTIES KeepsFiring GhostsVanish
