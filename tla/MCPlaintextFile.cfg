SPECIFICATION PlaintextSpec
CONSTANTS
  r1 = r1
  r2 = r2
  alice = alice
  bob = bob
  plain = plain
  secret = secret
  other = other
  wps = wps
  docx = docx
  txt = txt
  nodot = nodot
  None = None
  LOADING = LOADING
  MaxSubmits = 2
  Request = {r1, r2}
  User = {alice, bob}
  Doc = {secret, other, plain}
  Ciphertext = {secret, other}
  Answer <- MCAnswer
  Plain = {wps, docx, txt, nodot, secret, other}
  Renamed <- MCRenamed
  Dotless = {nodot}
  Deleting = {docx, secret, other}
  MaxSwitches = 1
  MaxDeaths = 1
CHECK_DEADLOCK FALSE
SYMMETRY Symmetry
INVARIANTS
  TypeOK
  OpenedByRight
  CacheExact
  RowsTrueUntilSwitch
  PlaintextTypeOK
  PlaintextRemoved
  ShowsItsDocument
PROPERTIES
  CacheKept
