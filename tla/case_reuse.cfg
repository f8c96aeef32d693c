SPECIFICATION Spec
CONSTANTS
  j1 = j1
  j2 = j2
  given = given
  flow = flow
  tiny = tiny
  huge = huge
  None = None
  Required = Required
  Bad = Bad
  Zero = Zero
  Default = Default
  Still = Still
  Invalid = Invalid
  Torn = Torn
  Start = Start
  Underflows = {tiny, huge}
  Words <- Words0
  MeshDefault <- Seeded
  IterationsDefault = 12
  IntervalDefault = 4
  Jobs = {j1, j2}
  Requests <- AllRequests
  Cases <- AllCases
  MeshFiles <- TwoMeshes
  ConvergesAt <- Convergence
  MaxCrashes = 1
CHECK_DEADLOCK FALSE
INVARIANTS TypeOK InputOwn StatedValuesReach RevalidatesSame ResultOwn SuccessParsed
