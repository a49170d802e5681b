SPECIFICATION FairSpec
CONSTANTS
  a = a  b = b
  Ids = {a, b}
  Cap = 2
  Buf = 2
  MaxEvents = 3
  MaxFaults = 1
INVARIANTS ReplayIsSuffix MirrorFaithful
PROPERTIES FeedHeals
CHECK_DEADLOCK FALSE
