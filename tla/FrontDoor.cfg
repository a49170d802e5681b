SPECIFICATION Spec
CONSTANTS
  r1 = r1
  Requests = {r1}
  Ids = {"t1"}
  Typed <- MCTyped
  Fold <- MCFold
  Owners = {"ann"}
  Synthetic = {"legacy:", "anthropic:", "anthropic-oauth:"}
  KeyPrincipals <- MCKeyPrincipals
  Asked = {"", "zdr", "local", "local_", "bogus"}
  Headers = {0, 1}
  Lifetimes = {0, 1}
  MaxTime = 1
  MaxFaults = 2
INVARIANTS AdmissionJust WithinFences AnsweredMeansDone
PROPERTIES RowsOnlyDie
CHECK_DEADLOCK FALSE
