SPECIFICATION Spec
CONSTANTS
  cp = cp
  ControlPoints = {cp}
  Watched <- OneEntry
  SearchTargets = {}
  ListenerReceives = FALSE
  SocketLimit = 3
  MaxLosses = 0
  MaxInbox = 1
  Late = 0
  MaxStarts = 1
INVARIANTS AdvertisementsDoNotExpire
