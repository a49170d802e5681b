SPECIFICATION Spec
CONSTANTS
  r1 = r1
  Requests = {r1}
  Models <- MCModels
  Local = {"loc", "back"}
  ZDREnforceable = {"orz", "thin", "disc"}
  Discovered = {"thin", "disc"}
  LacksCapability = {"thin"}
  Windowed = {"back"}
  Fallbacks <- MCFallbacks
  Candidates <- MCCandidates
  Overflow <- MCOverflow
  OverflowOnEmpty = TRUE
  RoleNeedsZDR = FALSE
  MaxFailoverAttempts = 2
INVARIANTS
  InflightExact
