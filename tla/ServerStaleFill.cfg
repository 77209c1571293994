\* A read and a publish at the same time, over one cache.
CONSTANTS
  Uri = {u1}
  Branch = {main, dev}
  Main = main
  Content = {c1, c2}
  None = None
  Meta = {m1}
  Proc = {p1, p2}
  PutUri = {}
  MaxCommits = 2
  Valid = {c1, c2}
  SeedUri = {}
  Cache = {k1}
  CacheOf <- OneCache
  Volatile = {}
  Ttl = 1
  FillDelay = 1
  Faulty = FALSE
SPECIFICATION Spec
INVARIANTS
  FreshWhenIdle
