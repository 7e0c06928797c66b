\* One request whose response may not be encodable.
SPECIFICATION HSpec
CONSTANTS
  Requests = {r1}
  CheckPool <- PoolUnbounded
  Outcomes <- OutcomesWire
  MaxChecks = 1
  Name <- MCName
  ComponentType <- MCComponentType
  ComponentId <- MCComponentId
INVARIANTS
  EncodeFailureReplied
