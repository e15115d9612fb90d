SPECIFICATION Spec
CONSTANTS
  l1 = l1
  l2 = l2
  l3 = l3
  alice = alice
  bob = bob
  Log <- MCLog
  User <- MCUser
  LoginNameOf <- MCLoginNameOf
  Sender = {s1, s2}
  BuildMayFail = FALSE
  InsertMayFail = FALSE
  MaxDeaths = 0
  MaxLostReplies = 0
SYMMETRY Symmetry
CHECK_DEADLOCK FALSE
INVARIANTS
  UploadSucceeded
