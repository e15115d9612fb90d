SPECIFICATION Spec
CONSTANTS
  r1 = r1
  r2 = r2
  alice = alice
  bob = bob
  secret = secret
  plain = plain
  None = None
  Request <- MCRequest
  User = {alice, bob}
  Doc = {secret}
  Ciphertext = {secret}
  Answer <- MCAnswer
  MaxSwitches = 0
  MaxDeaths = 0
SYMMETRY Symmetry
INVARIANTS
  OneRowPerKey
