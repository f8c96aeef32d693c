SPECIFICATION Spec
CONSTANTS
  j1 = j1
  j2 = j2
  j3 = j3
  k1 = k1
  k2 = k2
  c1 = c1
  c2 = c2
  d1 = d1
  d2 = d2
  None = None
  Torn = Torn
  Jobs = {j1, j2}
  Keys = {k1, k2}
  Cases = {c1, c2}
  Workers = {w1}
  Devices = {}
  KeyOf <- SameKey
  CaseOf <- OwnCases
  Asks <- AskNone
  Unhashable = {}
  Invalid = {}
  SolversOutlive = FALSE
  MaxOutages = 0
  MaxCrashes = 1
  MaxLosses = 0
  MaxRedeliveries = 0
  MaxUnanswered = 0
CHECK_DEADLOCK FALSE
PROPERTIES TerminalStable
