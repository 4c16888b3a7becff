SPECIFICATION FairSpec
CONSTANTS
  cp = cp
  ControlPoints = {cp}
  Watched <- LastEntry
  SearchTargets = {"udn", "MediaServer"}
  ListenerReceives = TRUE
  SocketLimit = 2
  MaxLosses = 1
  MaxInbox = 1
  Late = 1
  MaxStarts = 2
PROPERTIES RunningServerBecomesKnown ListenerAnswers
