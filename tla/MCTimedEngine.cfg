\* One request with up to two checks, begun at any of five instants.
SPECIFICATION TSpec
CONSTANTS
  Requests = {r1}
  CheckPool <- PoolTimed
  Outcomes <- OutcomeOne
  MaxChecks = 2
  Caps = {0, 1, 3}
  Horizon = 5
  Name <- MCName
  ComponentType <- MCComponentType
  ComponentId <- MCComponentId
INVARIANTS
  TInv
  WallTimeBounded
  CallerCaps
  CutOnTime
