SPECIFICATION CheckoutSpec
CONSTANTS
  Operators = {p1, p2}
  Runs = {r1, r2}
  Posts = {t1}
  Strays = {x1}
  Heavy = {t1}
  MaxFaults = 1
  Root = Root
  Nobody = Nobody
  Unset = Unset
SYMMETRY Symmetry
INVARIANT PrimaryBuildsOnPublished
PROPERTY LocalWorkIsKept
