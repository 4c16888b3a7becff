SPECIFICATION Spec
CONSTANTS
  IpAddress = {1, 2}
  Port = {1, 2}
  Tasks = {t1, t2}
  UserAgent <- MCUserAgent
  NoUserAgent = NoUserAgent
  Path <- MCOnePath
  Configurations <- MCConfiguration
  Routes <- MCRoutes
  MaxRequests = 2
INVARIANTS
  ConcurrentRequestsAreSafe
