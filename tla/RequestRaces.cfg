SPECIFICATION RacesSpec
CONSTANTS
  IpAddress = {1, 2, 3}
  Port = {1, 2, 3}
  Tasks = {t1, t2}
  UserAgent <- MCUserAgent
  NoUserAgent = NoUserAgent
  Path <- MCOnePath
  Configurations <- MCConfiguration
  Routes <- MCRoutes
  MaxRequests = 3
SYMMETRY MCSymmetry
INVARIANTS
  ClientsFormAChain
  LookupIgnoresShape
  DefaultCopiesStayReachable
  NullRendererIsARace
  RacesInv
PROPERTIES
  BindingsAreStable
  ImplementsClientBindings
