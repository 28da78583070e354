SPECIFICATION CronSpec
CONSTANTS
  Procs = {p1, p2}
  Crons = {k1}
  Registered = {k1}
  Admins = {}
  NoCron = NoCron
  MaxCrashes = 0
PROPERTIES FiresOnlyDue
