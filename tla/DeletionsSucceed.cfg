SPECIFICATION Spec
CONSTANTS
  r1 = r1  r2 = r2
  t1 = t1  t2 = t2  t3 = t3  w1 = w1  w2 = w2  w3 = w3
  u1 = u1  u2 = u2  d1 = d1  d2 = d2  a1 = a1  a2 = a2  A = A  B = B  C = C
  Null = Null  NoRow = NoRow  Unwritten = Unwritten
  Activities = {a1}
  ActivityIds = {a1, a2}
  Titles = {A, B, C}
  Dates = {d1, d2}
  TaskId = {t1, t2, t3}
  LogId = {w1, w2}
  Users = {u1}
  Requests = {r1}
  MaxPerUser = 1
  Batches <- OnlyDeletions
PROPERTY DeletionsSucceed
