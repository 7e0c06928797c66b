\* Checks of one instance that say which.
SPECIFICATION Spec
CONSTANTS
  Name <- MCName
  ComponentType <- MCComponentType
  ComponentId <- MCComponentId
  Target <- MCTarget
  Code <- MCCode
INVARIANTS
  SingleInstanceUnnamed
