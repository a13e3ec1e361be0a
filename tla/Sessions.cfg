SPECIFICATION Spec
CONSTANTS
  r1 = r1  r2 = r2  r3 = r3  ana = ana  bob = bob  s1 = s1  s2 = s2  s3 = s3
  NoRow = NoRow  None = None
  Emails = {ana}
  SessionId = {s1, s2, s3}
  Requests = {r1, r2}
  AccessLife = 1
  RefreshLife = 2
  MaxTime = 2
SYMMETRY Interchangeable
INVARIANTS TypeOK RotationCommitted
PROPERTIES RegisteredOnce RevokedForGood FreshSessionAccepted LoggedOutLetIn
