SPECIFICATION Spec
CONSTANTS
  c = c
  e = e
  d = d
  d2 = d2
  r = r
  u = u
  f = f
  s = s
  n = n
  w = w
  w2 = w2
  x = x
  y = y
  z = z
  p1 = p1
  dr = dr
  rs = rs
  rs2 = rs2
  Ops = {c, d, d2, e, f, n, r, s, u, w, w2, x, y}
  Scripts = {{c, r, u}, {c, d, u}, {d, r, u}, {c, d, d2, r}, {c, f, s}, {n, w}, {w, w2, x, y}, {e, w, x}}
  Cancellable = {r, w}
  Fragile = {c, u, w, x}
  MaxCancels = 1
  Kind <- MCKind
  Subject <- MCSubject
  Generation <- MCGeneration
  WorkCapacity = 1
  MutationCapacity = 1
  ControlCapacity = 2
  GlobalLimit = 1
  ExportLimit = 1
CHECK_DEADLOCK FALSE
INVARIANTS
    ResourcesAccounted
    AnswersSound
    ExclusiveAccess
    TargetsSettle
