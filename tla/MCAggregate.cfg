\* Every map over two names with at most two entries each, in every order.
SPECIFICATION Spec
CONSTANTS
  Name <- MCName
  ComponentType <- MCComponentType
  ComponentId <- MCComponentId
  Maps <- MCMaps
INVARIANTS
  OrderIrrelevant
  LoopInv
