SPECIFICATION Spec
CONSTANTS
  c1 = c1
  c2 = c2
  alice = alice
  bob = bob
  app1 = app1
  app2 = app2
  builtInApp = builtInApp
  secret = secret
  internal = internal
  builtInLevel = builtInLevel
  None = None
  Call <- MCCall
  User <- MCUser
  App <- MCApp
  Params <- MCParams
  Level <- MCLevel
  DefaultApp = builtInApp
  DefaultLevel = builtInLevel
  MaxSwitches = 1
  MaxDeaths = 1
CONSTRAINT OneDisturbance
SYMMETRY Symmetry
CHECK_DEADLOCK FALSE
INVARIANTS
  TypeOK
  OwnApp
  OwnLevel
  CreatorCanOpen
  RightsOfOwner
PROPERTIES
  PublicationKept
