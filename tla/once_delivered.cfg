SPECIFICATION Spec
CONSTANTS
  j1 = j1
  j2 = j2
  j3 = j3
  k1 = k1
  k2 = k2
  c1 = c1
  c2 = c2
  d1 = d1
  d2 = d2
  None = None
  Torn = Torn
  Jobs = {j1, j2, j3}
  Keys = {k1, k2}
  Cases = {c1, c2}
  Workers = {w1}
  Devices = {d1}
  KeyOf <- SameKeyAndOne
  CaseOf <- OwnCases
  Asks <- AskFirst
  Unhashable = {k2}
  Invalid = {}
  SolversOutlive = FALSE
  MaxOutages = 1
  MaxCrashes = 0
  MaxLosses = 1
  MaxRedeliveries = 0
  MaxUnanswered = 0
CHECK_DEADLOCK FALSE
INVARIANTS OneOutcome ArtifactBehind
PROPERTIES TerminalStable HistoryKept ImplementsLifecycle
