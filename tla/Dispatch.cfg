SPECIFICATION FairSpec
CONSTANTS
  Listed <- MCListed
  Verdicts <- MCVerdicts
  Prompts <- MCPrompts
  Passes <- MCPasses
  Registry <- MCRegistry
  Named = {"chat", "stub", "off"}
  Relays <- MCRelays
  Specs <- MCSpecs
  MaxTries = 2
  MaxCalls = 2
  MaxFlips = 2
INVARIANTS PickJustified ExitsKept
PROPERTIES RelaysExhausted MirrorCatchesUp WaitsEnd
