SPECIFICATION PlaintextSpec
CONSTANTS
  r1 = r1
  r2 = r2
  alice = alice
  bob = bob
  plain = plain
  secret = secret
  other = other
  wps = wps
  docx = docx
  txt = txt
  nodot = nodot
  None = None
  LOADING = LOADING
  MaxSubmits = 2
  Request = {r1, r2}
  User = {alice}
  Doc = {secret, plain}
  Ciphertext = {secret}
  Answer <- MCAnswer
  Plain = {wps, docx, txt, nodot, secret}
  Renamed <- MCRenamed
  Dotless = {nodot}
  Deleting = {docx, secret}
  MaxSwitches = 0
  MaxDeaths = 1
CHECK_DEADLOCK FALSE
PROPERTIES
  RequestsEnd
