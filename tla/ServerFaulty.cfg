\* Two handlers, put and restore behind their back, everything may fail; time goes on.
CONSTANTS
  Uri = {u1}
  Branch = {main}
  Main = main
  Content = {c1, c2, bad}
  None = None
  Meta = {m1}
  Proc = {p1, p2}
  PutUri = {u1}
  MaxCommits = 1
  Valid = {c1, c2}
  SeedUri = {}
  Cache = {k1}
  CacheOf <- OneCache
  Volatile = {k1}
  Ttl = 1
  FillDelay = 0
  Faulty = TRUE
SPECIFICATION FairSpec
INVARIANTS
  ServerTypeOK
  OnlyValidServed
  StaleWithinTtl
PROPERTIES
  CachesConverge
