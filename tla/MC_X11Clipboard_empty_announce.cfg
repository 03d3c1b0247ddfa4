CONSTANTS
  c1 = c1
  c2 = c2
  Cookies <- MCCookies1
  NoCookie = NoCookie
  NoReq = NoReq
  None = None
  PeerOfferings <- MCPeerOfferings
  PeerAsks <- MCPeerAsks
  AnnounceMasks <- MCAnnounceMasksWithEmpty
  HostAsks <- MCHostAsksU
  MaxPeerOps = 1
  MaxPeerReqs = 1
  MaxAnnounce = 2
SPECIFICATION Spec
CHECK_DEADLOCK FALSE
INVARIANTS
  EmptyAnnounceReleases
