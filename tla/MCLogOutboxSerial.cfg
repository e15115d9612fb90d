SPECIFICATION Spec
CONSTANTS
  l1 = l1
  l2 = l2
  l3 = l3
  alice = alice
  bob = bob
  Log <- MCLog
  User <- MCUser
  LoginNameOf <- MCLoginNameOf
  Sender = {s1}
  BuildMayFail = FALSE
  InsertMayFail = FALSE
  MaxDeaths = 1
  MaxLostReplies = 1
CHECK_DEADLOCK FALSE
INVARIANTS
  NoDuplicate
  UploadSucceeded
PROPERTIES
  DeliveryKept
  SendsEnd
  TableDrains
