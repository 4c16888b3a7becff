SPECIFICATION Spec
CONSTANTS
  IpAddress = {1, 2}
  Port = {1, 2}
  Tasks = {t1}
  UserAgent <- MCUserAgent
  NoUserAgent = NoUserAgent
  Path <- MCPath
  Configurations <- MCConfiguration
  Routes <- MCRoutes
  MaxRequests = 1
PROPERTIES
  AdvertisedLocationIsServed
