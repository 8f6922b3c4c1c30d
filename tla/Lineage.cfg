SPECIFICATION Spec
CONSTANTS
  Last = 3
  f = f  g = g  h = h
  Ids = {f, g, h}
  Reports <- MCPairAndOne
  Checkouts = {c1, c2}
  MaxProposed = 2
  MaxFaults = 1
  NoRun = NoRun  NoReview = NoReview  NoPlan = NoPlan
SYMMETRY Symmetry
CHECK_DEADLOCK FALSE
INVARIANTS FrontierIsWhatReviewsLeave BatchNeverBuildsOnItself
PROPERTY PublishedIsClean
