SPECIFICATION Spec
CONSTANTS
  r1 = r1
  r2 = r2
  alice = alice
  bob = bob
  secret = secret
  plain = plain
  None = None
  Request = {r1}
  User = {alice}
  Doc = {secret}
  Ciphertext = {secret}
  Answer <- MCAnswer
  MaxSwitches = 0
  MaxDeaths = 0
CHECK_DEADLOCK FALSE
PROPERTIES
  SamePathReported
