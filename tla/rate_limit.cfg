SPECIFICATION LimiterSpec
CONSTANTS
  c1 = c1  c2 = c2
  Clients = {c1, c2}
  Fleets <- TwoOrOne
  Cost = 2
  Full = 4
  Skew = 1
  Horizon = 5
INVARIANTS EveryWindow
PROPERTIES ImplementsWindow
