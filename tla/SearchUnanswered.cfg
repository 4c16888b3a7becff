SPECIFICATION FairSpec
CONSTANTS
  cp = cp
  ControlPoints = {cp}
  Watched = {}
  SearchTargets = {"rootdevice"}
  ListenerReceives = FALSE
  SocketLimit = 3
  MaxLosses = 0
  MaxInbox = 1
  Late = 0
  MaxStarts = 1
PROPERTIES SearchesAreAnswered
