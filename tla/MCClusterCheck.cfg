\* Clusters of up to three nodes, any of which may be down.
SPECIFICATION FairSpec
CONSTANTS
  Node <- MCNode
  Name <- MCName
  ComponentType <- MCComponentType
  ComponentId <- MCComponentId
INVARIANTS
  ClusterInv
  EveryNodeOnce
  UnreachableVisible
  MutexNotAbandoned
PROPERTIES
  AppendsOne
  ClusterImplementsRun
  RunReturnsInTime
