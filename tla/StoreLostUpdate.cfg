\* Two publishes to one branch, both reading the tip first.
CONSTANTS
  Uri = {u1}
  Branch = {main, dev}
  Main = main
  Content = {c1, c2}
  None = None
  Meta = {m1}
  Proc = {p1, p2}
  PutUri = {}
  MaxCommits = 3
SYMMETRY ProcSymmetry
SPECIFICATION StoreSpec
PROPERTIES
  CommitExtendsTip
