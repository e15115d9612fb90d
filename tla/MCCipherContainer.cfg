SPECIFICATION Spec
CONSTANTS
  None = None
  Path <- MCPath
  EncName <- MCEncName
  DecName <- MCDecName
  Call <- MCCall
  Document <- MCDocument
  LONG_MAX = 10239
  UINT = 8
  USHORT = 65536
  Cuts = {0, 200}
  Sizes <- MCSizes
  Origin = "doc"
  MaxCuts = 1
  MaxCalls = 3
  MaxDeaths = 1
INVARIANTS
  TypeOK
  CiphertextComplete
  RoundTrip
  Recognised
  DocumentSurvives
PROPERTIES
  CallsEnd
CHECK_DEADLOCK FALSE
