SPECIFICATION FairSpec
CONSTANTS
  k1 = k1  k2 = k2  admin = admin  jason = jason  james = james
  p1 = p1  p2 = p2  o1 = o1  i1 = i1  i2 = i2  i3 = i3  NoRow = NoRow
  Admin = admin
  Employees = {jason, james}
  Projects = {p1, p2}
  Others = {o1}
  UserId = {i1, i2, i3}
  Seeders = {k1, k2}
  MaxRuns = 4
  MaxCrashes = 2
CHECK_DEADLOCK FALSE
INVARIANT TypeOK
PROPERTIES DoneMeansSeeded RerunCompletes OneCompletes
