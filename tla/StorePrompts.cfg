\* One caller, two prompts that may be given the same content; one is also put.
CONSTANTS
  Uri = {u1, u2}
  Branch = {main, dev}
  Main = main
  Content = {c1, c2}
  None = None
  Meta = {m1}
  Proc = {p1}
  PutUri = {u2}
  MaxCommits = 2
SPECIFICATION StoreSpec
INVARIANTS
  LogIsLineage
  PinsStayWithinPrompt
PROPERTIES
  AppendOnly
  CommitExtendsTip
