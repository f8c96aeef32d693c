SPECIFICATION Spec
CONSTANTS
  j1 = j1
  j2 = j2
  j3 = j3
  j4 = j4
  k1 = k1
  k2 = k2
  k3 = k3
  t1 = t1
  t2 = t2
  d1 = d1
  openfoam = openfoam
  lammps = lammps
  Poll = Poll
  None = None
  Absent = Absent
  Chatter = Chatter
  Mixed = Mixed
  Jobs = {j1, j2}
  Keys = {k1, k2}
  KeyOf <- OneEach
  Turns = {t1}
  Devices = {d1}
  DeviceOf <- Known
  Solvers = {openfoam, lammps}
  SolverOf <- BothOpenFOAM
  Lists <- AllListed
  Selected <- Bound
  Streams = {t1}
  Wanted <- Both
  AsksFor <- NoneAsked
  MaxCalls = 1
  Disciplined = FALSE
CHECK_DEADLOCK FALSE
INVARIANTS InterpretationsSound
