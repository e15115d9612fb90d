SPECIFICATION AccreditSpec
CONSTANTS
  c1 = c1
  j1 = j1
  alice = alice
  bob = bob
  None = None
  Call = {c1}
  Job = {j1}
  Wanted <- MCWanted
  Answer <- MCAnswer
  User = {alice, bob}
  App = {1, 3}
  Params <- MCParams
  Level = {"1", "2"}
  DefaultApp = 1
  DefaultLevel = "1"
  MaxSwitches = 1
  MaxDeaths = 1
CHECK_DEADLOCK FALSE
INVARIANTS
  AccreditTypeOK
  GrantChecked
  GrantAppOfDocument
  FinishedMeansStored
PROPERTIES
  JobsEnd
  CallsEnd
