\* One handler at a time, nothing fails; the demo prompt is seeded.
CONSTANTS
  Uri = {u1}
  Branch = {main, dev}
  Main = main
  Content = {c1, c2}
  None = None
  Meta = {m1}
  Proc = {p1}
  PutUri = {}
  MaxCommits = 3
  Valid = {c1, c2}
  SeedUri = {u1}
  Cache = {k1}
  CacheOf <- OneCache
  Volatile = {}
  Ttl = 1
  FillDelay = 1
  Faulty = FALSE
SPECIFICATION Spec
INVARIANTS
  OnlyHeadsVisible
  FreshWhenIdle
