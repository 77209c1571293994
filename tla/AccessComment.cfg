\* The tokens file of the README: a comment follows the fields.
CONSTANTS
  old = old
  new = new
  env = env
  acme = acme
  other = other
  hash = hash
  write = write
  Call = {c1}
  Token = {minted, old, new, env}
  NoToken = NoToken
  Org = {acme, other}
  Word = {acme, other, hash, write}
  Admin = Admin
  Never = Never
  EnvToken = {}
  Minted = minted
  NoFile = NoFile
  Plan <- Example
  Request <- OneAsk
  Flags <- NoLimits
  Unit = 2
  MaxTime = 2
SPECIFICATION Spec
INVARIANT CommentsIgnored
CHECK_DEADLOCK FALSE
