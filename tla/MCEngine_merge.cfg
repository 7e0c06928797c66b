\* One request over every registration of up to three checks.
SPECIFICATION Spec
CONSTANTS
  Requests = {r1}
  CheckPool <- PoolAll
  Outcomes <- OutcomesAll
  MaxChecks = 3
  Name <- MCName
  ComponentType <- MCComponentType
  ComponentId <- MCComponentId
INVARIANTS
  ScopesNested
  HeartbeatIntact
  VerdictExact
  ResponseExact
  AlarmLogged
  NoContextLeak
  PassMeansAllPass
  IInv
PROPERTIES
  ResultsFrozen
