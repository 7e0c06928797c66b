\* One request with checks that may hang; its caller may give up.
SPECIFICATION FairSpec
CONSTANTS
  Requests = {r1}
  CheckPool <- PoolLive
  Outcomes <- OutcomesFew
  MaxChecks = 2
  Name <- MCName
  ComponentType <- MCComponentType
  ComponentId <- MCComponentId
PROPERTIES
  CancelledRequestReturns
  SiblingsIndependent
  BoundedRequestReturns
