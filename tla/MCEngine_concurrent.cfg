\* Two requests on any endpoints run side by side.
SPECIFICATION Spec
CONSTANTS
  Requests = {r1, r2}
  CheckPool <- PoolTwo
  Outcomes <- OutcomesFew
  MaxChecks = 2
  Name <- MCName
  ComponentType <- MCComponentType
  ComponentId <- MCComponentId
SYMMETRY RequestSymmetry
INVARIANTS
  NeverStuck
PROPERTIES
  ImplementsService
  WorkShrinks
