\* Each built-in check, probed again and again.
SPECIFICATION FairSpec
CONSTANTS
  Name <- MCName
  ComponentType <- MCComponentType
  ComponentId <- MCComponentId
  Target <- MCTarget
  Code <- MCCode
INVARIANTS
  ProducersInv
  ReportHonest
  NoConnectionLeak
PROPERTIES
  BuiltinsImplementRun
  RunReturns
