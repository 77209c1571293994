\* Two prompt files, two branches, two commits by the developer or others.
CONSTANTS
  Path = {a, b}
  Content = {c1, empty}
  Empty = empty
  Valid = {c1}
  None = None
  Branch = {main, dev}
  Main = main
  MaxCommits = 2
SYMMETRY AnyFile
SPECIFICATION Spec
INVARIANTS
  CtlTypeOK
  CommitsValid
  PromoteIsExact
  PushPublishesPushed
  DiffSeesAll
