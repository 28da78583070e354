SPECIFICATION FairPullSpec
CONSTANTS
  h1 = h1  h2 = h2  n1 = n1  l1 = l1
  Jobs = {h1, h2, n1, l1}
  Priority <- Mixed
  Workers = {w1}
  Concurrency = 2
  MaxErrors = 1
INVARIANTS BoundedBypass
PROPERTIES NoStarvation
