SPECIFICATION Spec
CONSTANTS
  cp = cp
  ControlPoints = {cp}
  Watched <- UdnEntries
  SearchTargets = {"ssdp:all"}
  ListenerReceives = TRUE
  SocketLimit = 7
  MaxLosses = 5
  MaxInbox = 1
  Late = 1
  MaxStarts = 2
INVARIANTS TypeOK KnownEntriesStayKnown OnlyAnnouncedUsns
