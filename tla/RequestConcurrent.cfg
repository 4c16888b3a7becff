SPECIFICATION FairSpec
CONSTANTS
  IpAddress = {1, 2}
  Port = {1, 2}
  Tasks = {t1, t2}
  UserAgent <- MCUserAgent
  NoUserAgent = NoUserAgent
  Path <- MCOnePath
  Configurations <- MCConfigurations
  Routes <- MCRoutes
  MaxRequests = 3
INVARIANTS
  TypeOK
  KnownCausesOfDeath
  IInv
  ServedByHeadersOrBinding
  NullValuesAreBeingAssigned
PROPERTIES
  EveryRequestIsAnswered
