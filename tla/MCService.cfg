\* Two GET requests on any routes, each with up to two checks.
SPECIFICATION SSpec
CONSTANTS
  Requests = {r1, r2}
  CheckPool <- PoolOne
  Outcomes <- OutcomesWire
  MaxChecks = 2
  RoutesPool <- MCRoutes
  OptionsPool <- MCOptions
  Rooted <- MCRooted
  Name <- MCName
  ComponentType <- MCComponentType
  ComponentId <- MCComponentId
SYMMETRY RequestSymmetry
INVARIANTS
  HInv
  ProbeVerdict
  RouteInv
  RouteVerdict
  LinesReachOwner
PROPERTIES
  ReplyOnce
