SPECIFICATION Spec
CONSTANTS
  Clusters = {A, B}
  Targets = {web, node}
  Values = {x}
  MaxStaged = 2
  MaxCommits = 2
  MaxSwitches = 1
  None = None
INVARIANTS   TheReportIsTrue NoPhantomSuspects
PROPERTIES EveryCommitAnswered KeepsTheGate
