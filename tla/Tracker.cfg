SPECIFICATION FairSpec
CONSTANTS
  n1 = n1  n2 = n2  seat = seat  ext = ext
  Nodes = {n1, n2}
  Models = {seat, ext}
  Registered = {seat, ext}
  Probed = {seat}
  Managed = {seat}
  ModelNodes <- MCModelNodes
  Head <- MCHead
  Bases <- MCBases
  DownAfter = 2
  BreakerTrip = 2
  BreakerCooldown = 2
  MaxRetryAfter = 4
  ProbeBackoffBase = 1
  ProbeBackoffCap = 2
  RetryAfters = {1, 5}
  MaxFaults = 2
INVARIANTS TypeOK VerdictsEarned
PROPERTIES CooldownKept SupersededProbeDropped BreakerAdmitsTrial SeatRecovers
