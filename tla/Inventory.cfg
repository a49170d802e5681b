SPECIFICATION FairSpec
CONSTANTS
  Bases = {"b1"}
  Ids = {"x", "y", "z"}
  Members = {"m"}
  BaseOf <- MCBaseOf
  ServedName <- MCServedName
  SourcesOf <- MCSourcesOf
  Adopted <- MCAdopted
  Name <- MCName
  Served <- MCServed
  Reserved <- MCReserved
  Interval = 2
  RetireAfter = 2
  MaxChanges = 3
  MaxFailures = 2
INVARIANTS ListingRules
PROPERTIES InventoryConverges CatalogueSteady
