SPECIFICATION FairStreamSpec
CONSTANTS
  Sockets = {s1, s2, s3}
  None = None
  Views = {"table", "chart"}
  Keep = 2
  MaxEvents = 3
  MaxTroubles = 3
  MaxVisits = 3
  MaxDisconnects = 1
INVARIANTS OneLiveSocket InOrderOnce NeverStranded
PROPERTIES Reconnects
CHECK_DEADLOCK FALSE
