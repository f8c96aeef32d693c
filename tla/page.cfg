SPECIFICATION FairSpec
CONSTANTS
  openfoam = openfoam
  freecad = freecad
  v1 = v1
  v2 = v2
  m1 = m1
  m2 = m2
  None = None
  Blank = Blank
  Fallback = Fallback
  Introduced = {openfoam}
  Visits = {v1, v2}
  Solvers = {openfoam, freecad}
  Messages = {m1, m2}
  Patient = {m1}
INVARIANTS TypeOK IntroInPlace AnswersInPlace OneTurnPerMessage
PROPERTIES StreamSettles
