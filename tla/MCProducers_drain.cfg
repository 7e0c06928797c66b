\* An HTTP exchange that breaks off after the header.
SPECIFICATION Spec
CONSTANTS
  Name <- MCName
  ComponentType <- MCComponentType
  ComponentId <- MCComponentId
  Target <- MCTarget
  Code <- MCCode
INVARIANTS
  TransportErrorFails
