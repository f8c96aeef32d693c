SPECIFICATION FairSpec
CONSTANTS
  j1 = j1
  j2 = j2
  j3 = j3
  j4 = j4
  k3 = k3
  k1 = k1
  k2 = k2
  t1 = t1
  t2 = t2
  d1 = d1
  openfoam = openfoam
  lammps = lammps
  Poll = Poll
  None = None
  Absent = Absent
  Chatter = Chatter
  Mixed = Mixed
  Jobs = {j1, j2, j3, j4}
  Keys = {k1, k2, k3}
  KeyOf <- TwoAndOneEach
  Turns = {t1, t2}
  Devices = {d1}
  DeviceOf <- FirstKnown
  Solvers = {openfoam, lammps}
  SolverOf <- TwoAndOneLAMMPS
  Lists <- FirstMayMiss
  Selected <- BoundAndFree
  Streams = {t1}
  Wanted <- AllAndTheFirst
  AsksFor <- SecondAsks
  MaxCalls = 1
  Disciplined = TRUE
CHECK_DEADLOCK FALSE
INVARIANTS TypeOK InterpretationsSound NotesSound DoneSound DoneRecorded
PROPERTIES TurnEnds
