\* A custom check reports a status that is none of the three constants.
SPECIFICATION Spec
CONSTANTS
  Requests = {r1}
  CheckPool <- PoolTwo
  Outcomes <- OutcomesUnknown
  MaxChecks = 1
  Name <- MCName
  ComponentType <- MCComponentType
  ComponentId <- MCComponentId
INVARIANTS
  OnlyAllPassPasses
