\* A key rotation under two concurrent calls, with three rate limits.
CONSTANTS
  old = old
  new = new
  env = env
  acme = acme
  other = other
  hash = hash
  write = write
  Call = {c1, c2}
  Token = {minted, old, new, env}
  NoToken = NoToken
  Org = {acme, other}
  Word = {acme, other}
  Admin = Admin
  Never = Never
  EnvToken = {env}
  Minted = minted
  NoFile = NoFile
  Plan <- Rotation
  Request <- Asks
  Flags <- Limits
  Unit = 2
  MaxTime = 2
SYMMETRY AnyCall
SPECIFICATION Spec
INVARIANTS
  AccessTypeOK
  CallsAreGranted
  RateBounded
  OwnQuota
  KeyRotation
CHECK_DEADLOCK FALSE
