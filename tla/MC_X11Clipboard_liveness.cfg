CONSTANTS
  c1 = c1
  c2 = c2
  Cookies <- MCCookies1
  NoCookie = NoCookie
  NoReq = NoReq
  None = None
  PeerOfferings <- MCPeerOfferings1
  PeerAsks <- MCPeerAsks
  AnnounceMasks <- MCAnnounceMasks
  HostAsks <- MCHostAsksU
  MaxPeerOps = 1
  MaxPeerReqs = 0
  MaxAnnounce = 1
SPECIFICATION Spec
CHECK_DEADLOCK FALSE
PROPERTY
  RequestsEventuallyComplete
