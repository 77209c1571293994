\* Two processes, an older and a newer release, two keys and no key.
CONSTANTS
  p1 = p1
  Proc = {p1, p2}
  Known <- OlderAndNewer
  Uri = {u1, u2}
  Content = {c1, marked}
  Marked = {marked}
  Key = {k1, k2}
  NoKey = NoKey
  BadKey = BadKey
  NoRow = NoRow
  Cipher = Cipher
  Error = Error
SPECIFICATION Spec
INVARIANTS
  DatabaseTypeOK
  SchemaInOrder
  OpenHasSchema
  RolloutReadable
  SealedWhenAsked
PROPERTIES
  BackupIsTrue
